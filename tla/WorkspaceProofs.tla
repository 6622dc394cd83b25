--------------------------- MODULE WorkspaceProofs ---------------------------
(***************************************************************************)
(* Proofs about MODULE Project: a project that differs from its file is     *)
(* about to be saved, for all projects, files and lists of bookmarks. And    *)
(* about MODULE Inspect, whose watches are the project's: the views of a     *)
(* stopped program show this pause and this frame, each table with its rows  *)
(* under it, and the memory view is a dump of the bytes it has, for all      *)
(* programs, queues of events, numbers of pauses, bytes and widths.          *)
(***************************************************************************)
EXTENDS Project, Inspect, SequenceTheorems, FiniteSetTheorems, TLAPS

\* A set that holds 0 and the successor of all it holds has every natural number: else
\* "plus 1" would map its members below one that is missing into themselves, one to one
\* but not onto.
LEMMA NaturalsAreReached ==
  ASSUME NEW Q, 0 \in Q, \A n \in Nat : n \in Q => n + 1 \in Q
  PROVE  Nat \subseteq Q
<1> SUFFICES ASSUME NEW n \in Nat, n \notin Q PROVE FALSE
  OBVIOUS
<1> DEFINE S == {x \in 0..n : x \in Q}
<1> DEFINE f == [x \in S |-> x + 1]
<1>1. IsFiniteSet(S)
  <2>1. IsFiniteSet(0..n)
    BY FS_Interval
  <2>2. S \in SUBSET (0..n)
    OBVIOUS
  <2> HIDE DEF S
  <2> QED  BY <2>1, <2>2, FS_Subset
<1>2. f \in [S -> S] /\ \A a, b \in S : f[a] = f[b] => a = b
  <2>1. \A x \in S : x + 1 \in S
    OBVIOUS
  <2> QED  BY <2>1
<1>3. f \in Injection(S, S)
  BY <1>2 DEF Injection, IsInjective
<1>4. f \in Surjection(S, S)
  <2> HIDE DEF f, S
  <2> QED  BY <1>1, <1>3, FS_Injection
<1>5. PICK x \in S : f[x] = 0
  <2>1. 0 \in S
    OBVIOUS
  <2> QED  BY <1>4, <2>1 DEF Surjection
<1> QED  BY <1>5

\* Numbers up to a bound can be put in ascending order.
LEMMA OrderExists ==
  ASSUME NEW n \in Nat, NEW F \in SUBSET (1..n)
  PROVE  /\ Cardinality(F) \in Nat
         /\ \E at \in [1..Cardinality(F) -> F] :
              \A k, l \in 1..Cardinality(F) : k < l => at[k] < at[l]
<1> DEFINE Ordered(G) == /\ IsFiniteSet(G) /\ Cardinality(G) \in Nat
                         /\ \E at \in [1..Cardinality(G) -> G] :
                              \A k, l \in 1..Cardinality(G) : k < l => at[k] < at[l]
<1> DEFINE Q == {m \in Nat : \A G \in SUBSET (1..m) : Ordered(G)}
<1> HIDE DEF Ordered
<1>1. 0 \in Q
  <2> SUFFICES ASSUME NEW G \in SUBSET (1..0) PROVE Ordered(G)
    OBVIOUS
  <2>0. 1..0 = {}
    OBVIOUS
  <2>1. G = {} /\ IsFiniteSet(G) /\ Cardinality(G) = 0
    <3>1. G = {}
      BY <2>0
    <3> QED  BY <3>1, FS_EmptySet
  <2> DEFINE c == Cardinality(G)
  <2>2. 1..c = {}
    BY <2>0, <2>1
  <2>3. Cardinality(G) \in Nat
    BY <2>1
  <2>4. \E at \in [1..c -> G] : \A k, l \in 1..c : k < l => at[k] < at[l]
    <3> DEFINE at == [k \in 1..c |-> k]
    <3> HIDE DEF c
    <3>1. at \in [1..c -> G]
      BY <2>2
    <3> QED  BY <2>2, <3>1
  <2> QED  BY Zenon, <2>1, <2>3, <2>4 DEF Ordered
<1>2. \A m \in Nat : m \in Q => m + 1 \in Q
  <2> SUFFICES ASSUME NEW m \in Nat, \A G \in SUBSET (1..m) : Ordered(G), NEW G \in SUBSET (1..(m + 1))
               PROVE  Ordered(G)
    OBVIOUS
  <2>1. CASE m + 1 \notin G
    <3>1. G \in SUBSET (1..m)
      BY <2>1
    <3> QED  BY <3>1
  <2>2. CASE m + 1 \in G
    <3> DEFINE H == G \ {m + 1}
    <3>1. H \in SUBSET (1..m) /\ G = H \cup {m + 1} /\ m + 1 \notin H
      BY <2>2
    <3> HIDE DEF H
    <3>2. Ordered(H)
      BY <3>1
    <3>3. IsFiniteSet(G) /\ Cardinality(G) = Cardinality(H) + 1
      <4>1. IsFiniteSet(H)
        BY <3>2 DEF Ordered
      <4> QED  BY <3>1, <4>1, FS_AddElement
    <3> DEFINE c == Cardinality(H)
    <3>4. c \in Nat
      BY <3>2 DEF Ordered
    <3>5. PICK at \in [1..c -> H] : \A k, l \in 1..c : k < l => at[k] < at[l]
      BY <3>2 DEF Ordered
    <3> HIDE DEF c
    <3> DEFINE all == [k \in 1..(c + 1) |-> IF k = c + 1 THEN m + 1 ELSE at[k]]
    <3>6. \A k \in 1..c : at[k] \in H /\ at[k] \in 1..m
      BY <3>1, <3>4, <3>5
    <3>7. all \in [1..(c + 1) -> G]
      <4>1. \A k \in 1..(c + 1) : k = c + 1 \/ k \in 1..c
        BY <3>4
      <4> QED  BY <3>1, <3>6, <4>1
    <3>8. ASSUME NEW k \in 1..(c + 1), NEW l \in 1..(c + 1), k < l PROVE all[k] < all[l]
      <4>1. k \in 1..c /\ all[k] = at[k]
        BY <3>4, <3>8
      <4>2. CASE l = c + 1
        <5>1. all[l] = m + 1 /\ at[k] \in 1..m
          BY <3>6, <4>1, <4>2
        <5> QED  BY <4>1, <5>1
      <4>3. CASE l # c + 1
        <5>1. l \in 1..c /\ all[l] = at[l]
          BY <3>4, <4>3
        <5> QED  BY <3>5, <3>8, <4>1, <5>1
      <4> QED  BY <4>2, <4>3
    <3>9. Cardinality(G) = c + 1
      BY <3>3 DEF c
    <3> HIDE DEF all
    <3>10. \A k, l \in 1..(c + 1) : k < l => all[k] < all[l]
      BY <3>8
    <3> QED  BY <3>3, <3>4, <3>7, <3>9, <3>10 DEF Ordered
  <2> QED  BY <2>1, <2>2
<1> HIDE DEF Q
<1>3. Nat \subseteq Q
  BY <1>1, <1>2, NaturalsAreReached
<1>4. Ordered(F)
  BY <1>3 DEF Q
<1> QED  BY <1>4 DEF Ordered

\* Some of the places of a list are no more than all.
LEMMA SomeOfSome ==
  ASSUME NEW l \in Nat, NEW T \in SUBSET (1..l)
  PROVE  Cardinality(T) \in Nat /\ Cardinality(T) <= l
<1>1. IsFiniteSet(1..l) /\ Cardinality(1..l) = IF 1 > l THEN 0 ELSE l - 1 + 1
  BY FS_Interval
<1>2. Cardinality(1..l) = l
  BY <1>1
<1>3. IsFiniteSet(T) /\ Cardinality(T) <= Cardinality(1..l)
  BY <1>1, FS_Subset
<1> QED  BY <1>2, <1>3, FS_CardinalityType

\* The entries of a list that are in a set are entries of it, no more and none twice.
LEMMA ThoseOfList ==
  ASSUME NEW S, NEW list \in Seq(S), NEW set
  PROVE  /\ Those(list, set) \in Seq(S) /\ Len(Those(list, set)) <= Len(list)
         /\ \A k \in DOMAIN Those(list, set) : Those(list, set)[k] \in set
         /\ IsInjective(list) => IsInjective(Those(list, set))
<1> DEFINE F == {i \in DOMAIN list : list[i] \in set}
<1> DEFINE c == Cardinality(F)
<1>1. Len(list) \in Nat /\ F \in SUBSET (1..Len(list))
  OBVIOUS
<1>2. \A i \in F : i \in DOMAIN list /\ i \in Nat /\ list[i] \in S /\ list[i] \in set
  OBVIOUS
<1> HIDE DEF F
<1>3. c \in Nat /\ Ascending(F) \in [1..c -> F]
      /\ \A k, l \in 1..c : k < l => Ascending(F)[k] < Ascending(F)[l]
  BY <1>1, OrderExists DEF Ascending
<1>4. c <= Len(list)
  BY <1>1, SomeOfSome
<1> HIDE DEF c
<1> DEFINE at == Ascending(F)
<1>5. Those(list, set) = [k \in DOMAIN at |-> list[at[k]]]
  BY DEF Those, F
<1>6. DOMAIN at = 1..c /\ \A k \in 1..c : at[k] \in F
  BY <1>3
<1>7. \A k, l \in 1..c : k < l => at[k] < at[l]
  BY <1>3
<1> HIDE DEF at
<1> DEFINE those == Those(list, set)
<1>8. DOMAIN those = 1..c /\ \A k \in 1..c : those[k] = list[at[k]]
  BY <1>5, <1>6
<1>9. \A k \in 1..c : list[at[k]] \in S /\ list[at[k]] \in set
  BY <1>2, <1>6
<1>10. those \in Seq(S) /\ Len(those) = c
  BY <1>3, <1>5, <1>6, <1>9
<1>11. ASSUME IsInjective(list), NEW k \in 1..c, NEW l \in 1..c, those[k] = those[l]
       PROVE  k = l
  <2>1. at[k] = at[l]
    BY <1>2, <1>6, <1>8, <1>11 DEF IsInjective
  <2>2. at[k] \in Nat
    BY <1>2, <1>6
  <2>3. ~(k < l) /\ ~(l < k)
    BY <1>7, <2>1, <2>2
  <2> QED  BY <1>3, <2>3
<1> HIDE DEF those
<1>12. IsInjective(list) => IsInjective(those)
  BY <1>8, <1>11 DEF IsInjective
<1> QED  BY <1>4, <1>8, <1>9, <1>10, <1>12 DEF those

\* A bookmark goes to the front of the list, which stays one without repetitions.
LEMMA BookmarkAdded ==
  ASSUME bookmarks \in BookmarkLists, NEW p \in Projects
  PROVE  WithBookmark(p) \in BookmarkLists
<1> DEFINE those == Those(bookmarks, Projects \ {p})
<1> DEFINE all == <<p>> \o those
<1> DEFINE n == IF Len(all) > MaxMRU THEN MaxMRU ELSE Len(all)
<1>1. /\ those \in Seq(Projects) /\ IsInjective(those)
      /\ \A k \in DOMAIN those : those[k] # p
  <2>1. bookmarks \in Seq(Projects) /\ IsInjective(bookmarks)
    BY DEF BookmarkLists
  <2> QED  BY <2>1, ThoseOfList
<1> HIDE DEF those
<1>2. <<p>> \in Seq(Projects) /\ Len(<<p>>) = 1 /\ <<p>>[1] = p
  OBVIOUS
<1>3. /\ all \in Seq(Projects) /\ Len(all) = 1 + Len(those) /\ Len(those) \in Nat
      /\ \A i \in 1..(1 + Len(those)) : all[i] = IF i <= 1 THEN <<p>>[i] ELSE those[i - 1]
  <2>1. /\ all \in Seq(Projects) /\ Len(all) = Len(<<p>>) + Len(those)
        /\ \A i \in 1..(Len(<<p>>) + Len(those)) :
             all[i] = IF i <= Len(<<p>>) THEN <<p>>[i] ELSE those[i - Len(<<p>>)]
    BY Zenon, <1>1, <1>2, ConcatProperties
  <2> QED  BY <1>1, <1>2, <2>1
<1> HIDE DEF all
<1>4. \A i \in 1..Len(all) : \A j \in 1..Len(all) : all[i] = all[j] => i = j
  <2> SUFFICES ASSUME NEW i \in 1..Len(all), NEW j \in 1..Len(all), all[i] = all[j] PROVE i = j
    OBVIOUS
  <2>1. ASSUME NEW k \in 1..Len(all), k # 1
        PROVE  k - 1 \in 1..Len(those) /\ all[k] = those[k - 1]
    BY <1>3, <2>1
  <2>2. all[1] = p
    BY <1>2, <1>3
  <2>3. \A k \in 1..Len(those) : k \in DOMAIN those
    BY <1>1
  <2>4. CASE i = 1 \/ j = 1
    BY <1>1, <2>1, <2>2, <2>3, <2>4
  <2>5. CASE i # 1 /\ j # 1
    <3>1. i - 1 \in DOMAIN those /\ j - 1 \in DOMAIN those /\ those[i - 1] = those[j - 1]
      BY <2>1, <2>3, <2>5
    <3>2. i - 1 = j - 1
      BY <1>1, <3>1 DEF IsInjective
    <3> QED  BY <1>3, <3>2
  <2> QED  BY <2>4, <2>5
<1>5. n \in 0..Len(all) /\ n <= MaxMRU
  BY <1>3, ProjectAssumption
<1>6. WithBookmark(p) = SubSeq(all, 1, n)
  BY DEF WithBookmark, all, those
<1> HIDE DEF n
<1> DEFINE w == SubSeq(all, 1, n)
<1>7. Len(all) \in Nat
  BY <1>3
<1>8. w \in Seq(Projects) /\ Len(w) = n /\ DOMAIN w = 1..n /\ \A i \in 1..n : w[i] = all[i] /\ i \in 1..Len(all)
  BY <1>3, <1>5, <1>7
<1> HIDE DEF w
<1>9. IsInjective(w)
  BY <1>4, <1>8 DEF IsInjective
<1> QED  BY <1>5, <1>6, <1>8, <1>9 DEF w, BookmarkLists

\* What is left of a stored list is one without repetitions too.
LEMMA BookmarksRead ==
  ASSUME NEW list \in BookmarkLists, NEW set
  PROVE  Those(list, set) \in BookmarkLists
<1>1. list \in Seq(Projects) /\ IsInjective(list) /\ Len(list) <= MaxMRU /\ Len(list) \in Nat
  BY DEF BookmarkLists
<1> DEFINE those == Those(list, set)
<1>2. those \in Seq(Projects) /\ Len(those) <= Len(list) /\ IsInjective(those)
  BY <1>1, ThoseOfList
<1> HIDE DEF those
<1>3. Len(those) <= MaxMRU
  <2>1. Len(those) \in Nat /\ MaxMRU \in Nat
    BY <1>2, ProjectAssumption
  <2> QED  BY <1>1, <1>2, <2>1
<1> QED  BY <1>2, <1>3 DEF BookmarkLists, those

-----------------------------------------------------------------------------
(* Pieces of the handlers. *)

\* The end of the process leaves nothing to be saved.
LEMMA EndsKeeps ==
  ASSUME ProjectInv,
         NEW how \in {"closed", "assert(ok)", "assert(sig)", "assert(fis.IsOk())", "assert(fos.IsOk())",
                      "assert(FileExists)"},
         Ends(how)
  PROVE  ProjectInv'
<1>1. NoContent \in Contents /\ << >> \in BookmarkLists
  <2>1. << >> \in Seq(Projects) /\ Len(<< >>) = 0 /\ 0 <= MaxMRU
    BY ProjectAssumption
  <2> QED  BY <2>1 DEF NoContent, Contents, BookmarkLists, IsInjective
<1>2. /\ over' = how /\ content' = NoContent /\ silent' = FALSE /\ proj' = Untitled
      /\ dirty' = FALSE /\ due' = FALSE
      /\ bookmarks' = << >> /\ menu' = << >> /\ rebuild' = FALSE /\ uiDue' = FALSE
      /\ UNCHANGED <<disk, gone, stored>>
  BY DEF Ends
<1>3. TypeOK'
  BY <1>1, <1>2 DEF ProjectInv, TypeOK
<1>4. UnsavedIsDue'
  BY <1>2 DEF UnsavedIsDue, Loaded
<1> QED  BY <1>2, <1>3, <1>4 DEF ProjectInv, Loaded

\* What a close leaves.
LEMMA ClosedIs ==
  ASSUME ProjectInv
  PROVE  Closed \subseteq Contents
<1>1. content.rest \in {0, 1}
  BY DEF ProjectInv, TypeOK, Contents
<1> QED  BY <1>1 DEF Closed, Contents

\* A load or a close that meets a source that is gone, or a file that cannot be read.
LEMMA FailsKeep ==
  ASSUME ProjectInv, CloseProjectFails \/ \E p \in Projects : LoadProjectFails(p)
  PROVE  ProjectInv'
<1>1. Ends("assert(FileExists)") \/ Ends("assert(fis.IsOk())") \/ Ends("assert(sig)")
  BY DEF CloseProjectFails, LoadProjectFails
<1> QED  BY <1>1, EndsKeeps

\* A project that has been loaded is what its file gives, but for sources that are gone.
LEMMA LoadKeeps ==
  ASSUME ProjectInv, NEW p \in Projects, NEW ok, LoadProject(p, ok), UNCHANGED <<disk, gone>>
  PROVE  /\ content' \in Contents /\ silent' \in BOOLEAN
         /\ proj' \in Projects /\ dirty' \in BOOLEAN /\ due' \in BOOLEAN
         /\ UnsavedIsDue' /\ (Loaded' /\ dirty' => due')
<1>1. proj' = p /\ silent' = FALSE /\ dirty' = FALSE /\ due' = (due \/ ~dirty)
  BY DEF LoadProject, CloseProject, SetClean
<1>2. due \in BOOLEAN /\ dirty \in BOOLEAN
  BY DEF ProjectInv, TypeOK
<1>3. \A c \in Contents : Readable(c) \in Contents /\ Readable(Readable(c)) = Readable(c)
  BY DEF Readable, Contents
<1>4. CASE disk[p] \in Contents /\ content' = Readable(disk[p])
  <2>1. content' \in Contents /\ Readable(content') = Readable(disk[p])
    BY <1>3, <1>4
  <2>2. [content' EXCEPT !.sources = @ \ gone'] = [disk[p] EXCEPT !.sources = @ \ gone']
    BY <2>1 DEF Readable
  <2>3. disk'[proj'] = disk[p]
    BY <1>1
  <2>4. UnsavedIsDue'
    BY <2>2, <2>3 DEF UnsavedIsDue, Readable
  <2> QED  BY <1>1, <1>2, <2>1, <2>4
<1>5. CASE disk[p] \in {Newer, Torn} /\ content' \in Closed \cup {Readable(c) : c \in Contents}
  <2>1. disk'[proj'] \notin Contents
    BY <1>1, <1>5, DiskAssumption
  <2>2. content' \in Contents
    BY <1>3, <1>5, ClosedIs
  <2>3. UnsavedIsDue'
    BY <2>1 DEF UnsavedIsDue
  <2> QED  BY <1>1, <1>2, <2>2, <2>3
<1> QED  BY <1>4, <1>5 DEF LoadProject

\* A project that has been saved is what its file has, unless the write failed.
LEMMA SaveKeeps ==
  ASSUME ProjectInv, NEW p \in Projects, NEW timer \in BOOLEAN, SaveProject(p, timer)
  PROVE  ProjectInv'
<1>1. CASE Ends("assert(FileExists)")
  BY <1>1, EndsKeeps
<1>2. ASSUME NEW written \in {content, Torn},
             /\ proj' = p /\ disk' = [disk EXCEPT ![p] = written]
             /\ silent' = FALSE /\ dirty' = FALSE /\ due' = timer
             /\ AddProjectMRUEntry(p) /\ UNCHANGED <<content, gone, stored, over>>
      PROVE  ProjectInv'
  <2>1. bookmarks' \in BookmarkLists /\ rebuild' = TRUE /\ uiDue' = TRUE /\ menu' = menu
    BY <1>2, BookmarkAdded DEF AddProjectMRUEntry, ProjectInv, TypeOK
  <2>2. disk' \in [Projects -> Contents \cup {Absent, Newer, Torn}] /\ disk'[p] = written
    BY <1>2 DEF ProjectInv, TypeOK
  <2>3. TypeOK'
    BY <1>2, <2>1, <2>2 DEF ProjectInv, TypeOK
  <2>4. UnsavedIsDue'
    BY <1>2, <2>2, DiskAssumption DEF UnsavedIsDue, Readable
  <2> QED  BY <1>2, <2>1, <2>3, <2>4 DEF ProjectInv
<1>3. CASE Ends("assert(fos.IsOk())")
  BY <1>3, EndsKeeps
<1> QED  BY <1>1, <1>2, <1>3 DEF SaveProject

-----------------------------------------------------------------------------
(* The actions. *)

\* A change is told, and starts the timer unless an earlier one has.
LEMMA ChangeKeeps ==
  ASSUME ProjectInv, ChangeProject
  PROVE  ProjectInv'
<1>1. PICK c \in DroppedFile \cup EditedSource \cup EditedWatch \cup ToggledFlag :
        \/ Ends("assert(FileExists)")
        \/ content' = c /\ SetDirty /\ silent' = FALSE /\ UNCHANGED <<proj, disk, gone, mru, stored, over>>
  BY DEF ChangeProject
<1>2. content \in Contents /\ Vanishing \subseteq Files
  BY ProjectAssumption DEF ProjectInv, TypeOK
<1>3. c \in Contents
  <2>1. content.sources \in SUBSET Files /\ content.rest \in {0, 1} /\ 1 - content.rest \in {0, 1}
    BY <1>2 DEF Contents
  <2>2. \A f \in Files : [content EXCEPT !.sources = @ \cup {f}] \in Contents
    BY <1>2, <2>1 DEF Contents
  <2>3. [content EXCEPT !.rest = 1 - @] \in Contents
    BY <1>2, <2>1 DEF Contents
  <2>4. \A f \in content.sources, r \in {0, 1} : [sources |-> content.sources \ {f}, rest |-> r] \in Contents
    BY <2>1 DEF Contents
  <2>5. CASE c \in DroppedFile
    BY <2>2, <2>5 DEF DroppedFile
  <2>6. CASE c \in EditedSource
    <3>1. CASE c \in {[content EXCEPT !.rest = 1 - @] : f \in content.sources}
      BY <2>3, <3>1
    <3>2. CASE \E f \in content.sources, r \in {0, 1} : c = [sources |-> content.sources \ {f}, rest |-> r]
      BY <2>4, <3>2
    <3>3. c \in EditedSource =>
            \/ \E f \in content.sources, r \in {0, 1} : c = [sources |-> content.sources \ {f}, rest |-> r]
            \/ c \in {[content EXCEPT !.rest = 1 - @] : f \in content.sources}
      BY DEF EditedSource
    <3> QED  BY <2>6, <3>1, <3>2, <3>3
  <2>7. CASE c \in EditedWatch \cup ToggledFlag
    BY <1>2, <2>3, <2>7 DEF EditedWatch, ToggledFlag
  <2> QED  BY <2>5, <2>6, <2>7
<1>4. CASE Ends("assert(FileExists)")
  BY <1>4, EndsKeeps
<1>5. CASE content' = c /\ SetDirty /\ silent' = FALSE /\ UNCHANGED <<proj, disk, gone, mru, stored, over>>
  <2>1. /\ content' \in Contents /\ silent' = FALSE /\ dirty' = TRUE /\ due' = (due \/ ~dirty)
        /\ UNCHANGED <<proj, disk, gone, stored, over>>
        /\ UNCHANGED <<bookmarks, menu, rebuild, uiDue>>
    BY <1>3, <1>5 DEF SetDirty, mru
  <2>2. TypeOK'
    BY <2>1 DEF ProjectInv, TypeOK
  <2>3. Loaded' => due'
    BY <2>1 DEF ProjectInv, Loaded, TypeOK
  <2>4. UnsavedIsDue'
    BY <2>1, <2>3 DEF UnsavedIsDue
  <2> QED  BY <2>1, <2>2, <2>3, <2>4 DEF ProjectInv
<1> QED  BY <1>1, <1>4, <1>5

\* A change without a word is of what is left out of the comparison, or the project is
\* dirty.
LEMMA SilentKeeps ==
  ASSUME ProjectInv, SetFlag
  PROVE  ProjectInv'
<1>1. /\ content' = [content EXCEPT !.rest = 1 - @] /\ silent' = ~dirty
      /\ UNCHANGED <<proj, dirty, due, disk, gone, stored, over>>
      /\ UNCHANGED <<bookmarks, menu, rebuild, uiDue>>
  BY DEF SetFlag, mru
<1>2. content \in Contents /\ content.rest \in {0, 1} /\ 1 - content.rest \in {0, 1}
  <2>1. content \in Contents
    BY DEF ProjectInv, TypeOK
  <2>2. content.rest \in {0, 1}
    BY <2>1 DEF Contents
  <2> QED  BY <2>1, <2>2
<1>3. content' \in Contents /\ content'.sources = content.sources
  BY <1>1, <1>2 DEF Contents
<1>4. TypeOK'
  BY <1>1, <1>3 DEF ProjectInv, TypeOK
<1>5. Loaded' /\ dirty' => due'
  BY <1>1 DEF ProjectInv, Loaded
<1>6. UnsavedIsDue'
  <2>1. CASE dirty
    BY <1>1, <1>5, <2>1 DEF UnsavedIsDue
  <2>2. CASE ~dirty
    <3> SUFFICES ASSUME Loaded, disk[proj] \in Contents
                 PROVE  [Readable(content') EXCEPT !.rest = 0] = [Readable(disk[proj]) EXCEPT !.rest = 0]
      BY <1>1, <2>2 DEF UnsavedIsDue, Loaded, Readable
    <3>1. Readable(content).sources = Readable(disk[proj]).sources
      <4>1. LET Saved(c) == [Readable(c) EXCEPT !.rest = IF silent THEN 0 ELSE @]
            IN Saved(content) = Saved(disk[proj])
        BY <2>2 DEF ProjectInv, UnsavedIsDue
      <4> QED  BY <1>2, <4>1 DEF Readable, Contents
    <3> QED  BY <1>2, <1>3, <3>1 DEF Readable, Contents
  <2> QED  BY <2>1, <2>2 DEF ProjectInv, TypeOK
<1> QED  BY <1>1, <1>4, <1>5, <1>6 DEF ProjectInv

\* The timer saves what is dirty, if it has a name.
LEMMA TimerKeeps ==
  ASSUME ProjectInv, OnSaveProjectPrefs
  PROVE  ProjectInv'
<1>1. CASE Loaded /\ dirty /\ SaveProject(proj, FALSE)
  <2>1. proj \in Projects
    BY <1>1 DEF ProjectInv, TypeOK, Loaded
  <2> QED  BY <1>1, <2>1, SaveKeeps
<1>2. CASE /\ ~Loaded \/ ~dirty
           /\ due' = FALSE
           /\ UNCHANGED <<content, silent, proj, dirty, disk, gone, mru, stored, over>>
  <2>1. /\ UNCHANGED <<content, silent, proj, dirty, disk, gone, stored, over>>
        /\ UNCHANGED <<bookmarks, menu, rebuild, uiDue>>
    BY <1>2 DEF mru
  <2>2. TypeOK'
    BY <1>2, <2>1 DEF ProjectInv, TypeOK
  <2>3. UnsavedIsDue' /\ ~(Loaded' /\ dirty')
    BY <1>2, <2>1 DEF ProjectInv, UnsavedIsDue, Loaded, Readable
  <2> QED  BY <2>1, <2>2, <2>3 DEF ProjectInv
<1> QED  BY <1>1, <1>2 DEF OnSaveProjectPrefs, SavePrefsTimerLapsed

\* "Save Project", and "Save Project As".
LEMMA OrderedSavesKeep ==
  ASSUME ProjectInv, OnSaveProject \/ OnSaveProjectAs
  PROVE  ProjectInv'
<1>1. due \in BOOLEAN
  BY DEF ProjectInv, TypeOK
<1>2. PICK p \in Projects : SaveProject(p, due)
  <2>1. CASE OnSaveProject
    <3>1. PICK p \in IF Loaded THEN {proj} ELSE PromptSaveNewProject : SaveProject(p, due)
      BY <2>1 DEF OnSaveProject
    <3>2. p \in Projects
      BY DEF ProjectInv, TypeOK, Loaded, PromptSaveNewProject
    <3> QED  BY <3>1, <3>2
  <2>2. CASE OnSaveProjectAs
    BY <2>2 DEF OnSaveProjectAs, PromptSaveNewProject
  <2> QED  BY <2>1, <2>2
<1> QED  BY <1>1, <1>2, SaveKeeps

\* Nothing is loaded any more, and nothing unsaved.
LEMMA CloseKeeps ==
  ASSUME ProjectInv, OnCloseProject
  PROVE  ProjectInv'
<1>1. CASE CloseProjectFails
  BY <1>1, FailsKeep
<1>2. CASE CloseProject /\ content' \in Closed /\ proj' = Untitled /\ UNCHANGED <<disk, gone, mru, stored, over>>
  <2>1. /\ content' \in Contents /\ silent' = FALSE /\ proj' = Untitled
        /\ dirty' = FALSE /\ due' = (due \/ ~dirty)
        /\ UNCHANGED <<disk, gone, stored, over>> /\ UNCHANGED <<bookmarks, menu, rebuild, uiDue>>
    BY <1>2, ClosedIs DEF CloseProject, SetClean, mru
  <2>2. TypeOK'
    BY <2>1 DEF ProjectInv, TypeOK
  <2>3. UnsavedIsDue'
    BY <2>1 DEF UnsavedIsDue, Loaded
  <2> QED  BY <2>1, <2>2, <2>3 DEF ProjectInv, Loaded
<1> QED  BY <1>1, <1>2 DEF OnCloseProject

\* A project loaded and put among the bookmarks.
LEMMA OpenedKeeps ==
  ASSUME ProjectInv, NEW p \in Projects, NEW ok, LoadProject(p, ok),
         AddProjectMRUEntry(p) \/ UNCHANGED mru, UNCHANGED <<disk, gone, stored, over>>
  PROVE  ProjectInv'
<1>1. /\ content' \in Contents /\ silent' \in BOOLEAN
      /\ proj' \in Projects /\ dirty' \in BOOLEAN /\ due' \in BOOLEAN
      /\ UnsavedIsDue' /\ (Loaded' /\ dirty' => due')
  BY LoadKeeps
<1>2. /\ bookmarks' \in BookmarkLists /\ menu' = menu /\ rebuild' \in BOOLEAN /\ uiDue' \in BOOLEAN
      /\ (~rebuild' => menu' = bookmarks')
  <2>1. CASE AddProjectMRUEntry(p)
    BY <2>1, BookmarkAdded DEF AddProjectMRUEntry, ProjectInv, TypeOK
  <2>2. CASE UNCHANGED mru
    BY <2>2 DEF mru, ProjectInv, TypeOK
  <2> QED  BY <2>1, <2>2
<1>3. TypeOK'
  BY <1>1, <1>2 DEF ProjectInv, TypeOK
<1> QED  BY <1>1, <1>2, <1>3 DEF ProjectInv

\* "Open File(s)", of a project.
LEMMA OpenKeeps ==
  ASSUME ProjectInv, NEW p \in Projects, OnOpenProject(p)
  PROVE  ProjectInv'
<1>1. CASE LoadProjectFails(p)
  BY <1>1, FailsKeep
<1>2. CASE Ends("assert(ok)")
  BY <1>2, EndsKeeps
<1>3. CASE LoadProject(p, TRUE) /\ AddProjectMRUEntry(p) /\ UNCHANGED <<disk, gone, stored, over>>
  BY <1>3, OpenedKeeps
<1> QED  BY <1>1, <1>2, <1>3 DEF OnOpenProject

\* An entry of the menu, which shows the bookmarks as they are.
LEMMA MenuKeeps ==
  ASSUME ProjectInv, NEW i \in DOMAIN menu, OnMRUMenuSelected(i)
  PROVE  ProjectInv'
<1> DEFINE p == bookmarks[i]
<1>1. p \in Projects
  <2>1. menu = bookmarks /\ bookmarks \in Seq(Projects)
    BY DEF OnMRUMenuSelected, UserEvent, ProjectInv, TypeOK, BookmarkLists
  <2> QED  BY <2>1
<1>2. \/ LoadProjectFails(p)
      \/ LoadProject(p, FALSE) /\ UNCHANGED <<disk, gone, mru, stored, over>>
      \/ LoadProject(p, TRUE) /\ AddProjectMRUEntry(p) /\ UNCHANGED <<disk, gone, stored, over>>
  BY DEF OnMRUMenuSelected
<1> HIDE DEF p
<1>3. CASE LoadProjectFails(p)
  BY <1>1, <1>3, FailsKeep
<1>4. CASE LoadProject(p, FALSE) /\ UNCHANGED <<disk, gone, mru, stored, over>>
  <2>1. UNCHANGED mru /\ UNCHANGED <<disk, gone, stored, over>>
    BY <1>4
  <2> QED  BY <1>1, <1>4, <2>1, OpenedKeeps
<1>5. CASE LoadProject(p, TRUE) /\ AddProjectMRUEntry(p) /\ UNCHANGED <<disk, gone, stored, over>>
  BY <1>1, <1>5, OpenedKeeps
<1> QED  BY <1>2, <1>3, <1>4, <1>5

\* The menu's commands on itself, and the timer that stores the bookmarks.
LEMMA BookmarksKeep ==
  ASSUME ProjectInv, OnMRUMenuClear \/ RebuildProjectMRUMenu \/ SaveUIConfig
  PROVE  ProjectInv'
<1>1. UNCHANGED <<content, silent, proj, dirty, due, disk, gone, over>>
  BY DEF OnMRUMenuClear, RebuildProjectMRUMenu, SaveUIConfig
<1>2. UnsavedIsDue' /\ (Loaded' /\ dirty' => due')
  BY <1>1 DEF ProjectInv, UnsavedIsDue, Loaded, Readable
<1>3. << >> \in BookmarkLists
  <2>1. << >> \in Seq(Projects) /\ Len(<< >>) = 0 /\ 0 <= MaxMRU
    BY ProjectAssumption
  <2> QED  BY <2>1 DEF BookmarkLists, IsInjective
<1>4. /\ bookmarks' \in BookmarkLists /\ menu' \in BookmarkLists /\ stored' \in BookmarkLists
      /\ rebuild' \in BOOLEAN /\ uiDue' \in BOOLEAN /\ (~rebuild' => menu' = bookmarks')
  <2>1. CASE OnMRUMenuClear
    BY <1>3, <2>1 DEF OnMRUMenuClear, ProjectInv, TypeOK
  <2>2. CASE RebuildProjectMRUMenu
    BY <2>2 DEF RebuildProjectMRUMenu, ProjectInv, TypeOK
  <2>3. CASE SaveUIConfig
    BY <2>3 DEF SaveUIConfig, ProjectInv, TypeOK
  <2> QED  BY <2>1, <2>2, <2>3
<1>5. TypeOK'
  BY <1>1, <1>4 DEF ProjectInv, TypeOK
<1> QED  BY <1>2, <1>4, <1>5 DEF ProjectInv

\* The client started again reads the bookmarks, and what project it is given.
LEMMA RelaunchKeeps ==
  ASSUME ProjectInv, Relaunch
  PROVE  ProjectInv'
<1>0. CASE \E p \in Projects : LoadProjectFails(p)
  BY <1>0, FailsKeep
<1> SUFFICES ASSUME /\ SetProjectBookmarkList
                    /\ \/ UNCHANGED <<content, silent, proj, dirty, due>>
                       \/ \E p \in Projects, ok \in BOOLEAN : LoadProject(p, ok)
                    /\ over' = ""
                    /\ UNCHANGED <<disk, gone, menu, uiDue, stored>>
             PROVE  ProjectInv'
  BY <1>0 DEF Relaunch
<1>1. /\ bookmarks' = Those(stored, {p \in Projects : disk[p] # Absent})
      /\ rebuild' = TRUE /\ over' = "" /\ UNCHANGED <<disk, gone, menu, uiDue, stored>>
  BY DEF SetProjectBookmarkList, LoadUIGroupEntries
<1>2. bookmarks' \in BookmarkLists
  BY <1>1, BookmarksRead DEF ProjectInv, TypeOK
<1>3. /\ content' \in Contents /\ silent' \in BOOLEAN
      /\ proj' \in Projects \cup {Untitled} /\ dirty' \in BOOLEAN
      /\ due' \in BOOLEAN /\ UnsavedIsDue' /\ (Loaded' /\ dirty' => due')
  <2>1. CASE UNCHANGED <<content, silent, proj, dirty, due>>
    BY <1>1, <2>1 DEF ProjectInv, TypeOK, UnsavedIsDue, Loaded, Readable
  <2>2. CASE \E p \in Projects, ok \in BOOLEAN : LoadProject(p, ok)
    <3>1. PICK p \in Projects, ok \in BOOLEAN : LoadProject(p, ok)
      BY <2>2
    <3>2. UNCHANGED <<disk, gone>>
      BY <1>1
    <3> QED  BY <3>1, <3>2, LoadKeeps
  <2> QED  BY <2>1, <2>2
<1>4. TypeOK'
  BY <1>1, <1>2, <1>3 DEF ProjectInv, TypeOK
<1> QED  BY <1>1, <1>3, <1>4 DEF ProjectInv

\* Another program leaves the file of the loaded project alone.
LEMMA FilesKeep ==
  ASSUME ProjectInv, FileChanged
  PROVE  ProjectInv'
<1>1. /\ UNCHANGED <<content, silent, proj, dirty, due, stored, over>>
      /\ UNCHANGED <<bookmarks, menu, rebuild, uiDue>>
  BY DEF FileChanged, mru
<1>2. /\ disk' \in [Projects -> Contents \cup {Absent, Newer, Torn}] /\ gone' \subseteq Vanishing
      /\ gone \subseteq gone' /\ (proj \in Projects => disk'[proj] = disk[proj])
  <2>1. CASE gone' \in SUBSET Vanishing /\ gone \subseteq gone' /\ UNCHANGED disk
    BY <2>1 DEF ProjectInv, TypeOK
  <2>2. CASE \E p \in Projects \ {proj} :
               disk' \in {[disk EXCEPT ![p] = Absent], [disk EXCEPT ![p] = Newer]} /\ UNCHANGED gone
    <3>1. PICK p \in Projects \ {proj} :
            disk' \in {[disk EXCEPT ![p] = Absent], [disk EXCEPT ![p] = Newer]} /\ UNCHANGED gone
      BY <2>2
    <3>2. disk' = [disk EXCEPT ![p] = Absent] \/ disk' = [disk EXCEPT ![p] = Newer]
      BY <3>1
    <3>3. disk \in [Projects -> Contents \cup {Absent, Newer, Torn}] /\ gone \subseteq Vanishing
      BY DEF ProjectInv, TypeOK
    <3> QED  BY <3>1, <3>2, <3>3
  <2> QED  BY <2>1, <2>2 DEF FileChanged
<1>3. TypeOK'
  BY <1>1, <1>2 DEF ProjectInv, TypeOK
<1>4. UnsavedIsDue'
  <2> SUFFICES ASSUME Loaded, disk[proj] \in Contents, ~(dirty /\ due)
               PROVE  LET Saved(c) == [[c EXCEPT !.sources = @ \ gone'] EXCEPT !.rest = IF silent THEN 0 ELSE @]
                      IN Saved(content) = Saved(disk[proj])
    <3>1. Loaded => proj \in Projects
      BY DEF ProjectInv, TypeOK, Loaded
    <3> QED  BY <1>1, <1>2, <3>1 DEF UnsavedIsDue, Loaded, Readable
  <2>1. LET Saved(c) == [[c EXCEPT !.sources = @ \ gone] EXCEPT !.rest = IF silent THEN 0 ELSE @]
        IN Saved(content) = Saved(disk[proj])
    BY DEF ProjectInv, UnsavedIsDue, Readable
  <2>2. content \in Contents
    BY DEF ProjectInv, TypeOK
  <2>3. content.sources \ gone = disk[proj].sources \ gone /\ (~silent => content.rest = disk[proj].rest)
    BY <2>1, <2>2 DEF Contents
  <2>4. content.sources \ gone' = disk[proj].sources \ gone'
    BY <1>2, <2>3
  <2> QED  BY <2>2, <2>3, <2>4 DEF Contents
<1> QED  BY <1>1, <1>3, <1>4 DEF ProjectInv, Loaded

-----------------------------------------------------------------------------
(* The theorems. *)

\* The first client has nothing loaded and no bookmarks.
LEMMA InitProject == Init => ProjectInv
<1> SUFFICES ASSUME Init PROVE ProjectInv
  OBVIOUS
<1>1. NoContent \in Contents /\ [sources |-> Files, rest |-> 1] \in Contents
  BY DEF NoContent, Contents
<1>2. << >> \in BookmarkLists
  <2>1. << >> \in Seq(Projects) /\ Len(<< >>) = 0 /\ 0 <= MaxMRU
    BY ProjectAssumption
  <2> QED  BY <2>1 DEF BookmarkLists, IsInjective
<1>3. disk \in [Projects -> Contents \cup {Absent, Newer, Torn}]
  BY <1>1 DEF Init
<1>4. TypeOK
  BY <1>1, <1>2, <1>3 DEF Init, TypeOK
<1> QED  BY <1>4 DEF Init, ProjectInv, UnsavedIsDue, Loaded

\* Every step keeps it.
LEMMA NextProject == ProjectInv /\ [Next]_vars => ProjectInv'
<1> SUFFICES ASSUME ProjectInv, [Next]_vars PROVE ProjectInv'
  OBVIOUS
<1>1. CASE ChangeProject
  BY <1>1, ChangeKeeps
<1>2. CASE OnSaveProjectPrefs
  BY <1>2, TimerKeeps
<1>3. CASE OnSaveProject \/ OnSaveProjectAs
  BY <1>3, OrderedSavesKeep
<1>4. CASE OnCloseProject
  BY <1>4, CloseKeeps
<1>5. CASE \E p \in Projects : OnOpenProject(p)
  BY <1>5, OpenKeeps
<1>6. CASE \E i \in DOMAIN menu : OnMRUMenuSelected(i)
  BY <1>6, MenuKeeps
<1>7. CASE OnMRUMenuClear \/ RebuildProjectMRUMenu \/ SaveUIConfig
  BY <1>7, BookmarksKeep
<1>8. CASE OnCloseEvent
  BY <1>8, EndsKeeps DEF OnCloseEvent
<1>9. CASE Relaunch
  BY <1>9, RelaunchKeeps
<1>10. CASE FileChanged
  BY <1>10, FilesKeep
<1>11. CASE UNCHANGED vars
  <2>1. /\ UNCHANGED <<content, silent, proj, dirty, due, disk, gone, stored, over>>
        /\ UNCHANGED <<bookmarks, menu, rebuild, uiDue>>
    BY <1>11 DEF vars, mru
  <2> QED  BY <2>1 DEF ProjectInv, TypeOK, UnsavedIsDue, Loaded, Readable
<1>12. CASE SetFlag
  BY <1>12, SilentKeeps
<1> QED
  BY Zenon, <1>1, <1>2, <1>3, <1>4, <1>5, <1>6, <1>7, <1>8, <1>9, <1>10, <1>11, <1>12 DEF Next

\* The variables have their types; the bookmarks, the menu of them and those stored are
\* without repetitions and at most MaxMRU, however often projects are opened, saved under
\* other names and found gone at the next start. (AddProjectMRUEntry(),
\* SetProjectBookmarkList())
THEOREM ProjectTypes == Spec => []TypeOK
<1>1. ProjectInv => TypeOK
  BY DEF ProjectInv
<1> QED  BY <1>1, InitProject, NextProject, PTL DEF Spec

\* While the loaded project differs from what its file would load as, its dirty flag is set
\* and the timer of its save runs; unless the difference is a mask toggled or a text pasted
\* while it was clean, of which it is not told, or the last write of the file failed.
\* (SetDirty(), OnSavePrefsTimerLapsed(), SaveProject(), LoadProject(), CloseProject())
THEOREM UnsavedStaysDue == Spec => []UnsavedIsDue
<1>1. ProjectInv => UnsavedIsDue
  BY DEF ProjectInv
<1> QED  BY <1>1, InitProject, NextProject, PTL DEF Spec

-----------------------------------------------------------------------------
-----------------------------------------------------------------------------
(* Sequences of elements of any kind.                                       *)

\* A sequence over a set is one.
LEMMA SeqIs ==
  ASSUME NEW S, NEW s \in Seq(S)
  PROVE  IsSeq(s) /\ Len(s) \in Nat /\ DOMAIN s = 1..Len(s)
<1>1. Len(s) \in Nat /\ DOMAIN s = 1..Len(s) /\ s = [i \in 1..Len(s) |-> s[i]]
  BY LenProperties
<1>2. s \in Seq({s[i] : i \in DOMAIN s})
  <2> DEFINE R == {s[i] : i \in DOMAIN s}
  <2>1. \A i \in 1..Len(s) : s[i] \in R
    BY <1>1
  <2> HIDE DEF R
  <2>2. [i \in 1..Len(s) |-> s[i]] \in Seq(R)
    BY <1>1, <2>1, IsASeq
  <2>3. s \in Seq(R)
    BY <1>1, <2>2
  <2> QED  BY <2>3 DEF R
<1> QED  BY <1>1, <1>2 DEF IsSeq

\* Its length and its indices.
LEMMA SeqHas ==
  ASSUME NEW s, IsSeq(s)
  PROVE  Len(s) \in Nat /\ DOMAIN s = 1..Len(s) /\ (s = << >> <=> Len(s) = 0)
<1> DEFINE R == {s[i] : i \in DOMAIN s}
<1>1. s \in Seq(R)
  BY DEF IsSeq
<1> HIDE DEF R
<1> QED  BY <1>1, LenProperties, EmptySeq

\* Listing by a formula.
LEMMA ListIs ==
  ASSUME NEW n \in Nat, NEW e(_)
  PROVE  LET s == [i \in 1..n |-> e(i)] IN IsSeq(s) /\ Len(s) = n
<1> DEFINE s == [i \in 1..n |-> e(i)]
<1> DEFINE R == {e(i) : i \in 1..n}
<1>1. \A i \in 1..n : e(i) \in R
  OBVIOUS
<1> HIDE DEF R
<1>2. s \in Seq(R)
  BY <1>1, IsASeq
<1>3. DOMAIN s = 1..n
  OBVIOUS
<1> HIDE DEF s
<1>4. IsSeq(s) /\ Len(s) \in Nat /\ DOMAIN s = 1..Len(s)
  BY <1>2, SeqIs
<1>5. Len(s) = n
  BY <1>2, <1>3, LenProperties
<1> QED  BY <1>4, <1>5 DEF s

\* One sequence behind another.
LEMMA CatIs ==
  ASSUME NEW s, NEW t, IsSeq(s), IsSeq(t)
  PROVE  /\ IsSeq(s \o t) /\ Len(s \o t) = Len(s) + Len(t)
         /\ \A i \in 1..Len(s) : (s \o t)[i] = s[i]
         /\ \A i \in 1..Len(t) : (s \o t)[Len(s) + i] = t[i]
<1> DEFINE R == {s[i] : i \in DOMAIN s} \cup {t[i] : i \in DOMAIN t}
<1>1. s \in Seq(R) /\ t \in Seq(R)
  <2>1. s \in Seq({s[i] : i \in DOMAIN s}) /\ t \in Seq({t[i] : i \in DOMAIN t})
    BY DEF IsSeq
  <2>2. {s[i] : i \in DOMAIN s} \subseteq R /\ {t[i] : i \in DOMAIN t} \subseteq R
    OBVIOUS
  <2> HIDE DEF R
  <2> QED  BY <2>1, <2>2, SeqMonotonic
<1> HIDE DEF R
<1>2. /\ s \o t \in Seq(R) /\ Len(s \o t) = Len(s) + Len(t)
      /\ \A i \in 1..(Len(s) + Len(t)) : (s \o t)[i] = IF i <= Len(s) THEN s[i] ELSE t[i - Len(s)]
  BY <1>1, ConcatProperties
<1>3. Len(s) \in Nat /\ Len(t) \in Nat
  BY <1>1, LenProperties
<1>4. \A i \in 1..Len(s) : (s \o t)[i] = s[i]
  BY <1>2, <1>3
<1>5. ASSUME NEW i \in 1..Len(t) PROVE (s \o t)[Len(s) + i] = t[i]
  <2>1. Len(s) + i \in 1..(Len(s) + Len(t)) /\ ~(Len(s) + i <= Len(s)) /\ Len(s) + i - Len(s) = i
    BY <1>3
  <2> QED  BY <1>2, <2>1
<1>6. IsSeq(s \o t)
  BY <1>2, SeqIs
<1> QED  BY <1>2, <1>4, <1>5, <1>6

\* One element behind a sequence.
LEMMA OneIs ==
  ASSUME NEW e
  PROVE  IsSeq(<<e>>) /\ Len(<<e>>) = 1 /\ << e >>[1] = e
<1>1. << e >> \in Seq({e})
  OBVIOUS
<1>2. IsSeq(<<e>>)
  BY <1>1, SeqIs
<1> QED  BY <1>2

\* Append is a concatenation.
LEMMA AppendIs ==
  ASSUME NEW s, NEW e, IsSeq(s)
  PROVE  Append(s, e) = s \o <<e>>
<1> DEFINE R == {s[i] : i \in DOMAIN s} \cup {e}
<1>1. s \in Seq(R) /\ e \in R
  <2>1. s \in Seq({s[i] : i \in DOMAIN s})
    BY DEF IsSeq
  <2>2. {s[i] : i \in DOMAIN s} \subseteq R
    OBVIOUS
  <2> HIDE DEF R
  <2>3. s \in Seq(R)
    BY <2>1, <2>2, SeqMonotonic
  <2> QED  BY <2>3 DEF R
<1> HIDE DEF R
<1> QED  BY <1>1, AppendIsConcat

\* Without its head.
LEMMA TailIs ==
  ASSUME NEW s, IsSeq(s), s # << >>
  PROVE  /\ IsSeq(Tail(s)) /\ Len(Tail(s)) = Len(s) - 1 /\ Head(s) = s[1]
         /\ \A i \in 1..(Len(s) - 1) : Tail(s)[i] = s[i + 1]
<1> DEFINE R == {s[i] : i \in DOMAIN s}
<1>1. s \in Seq(R)
  BY DEF IsSeq
<1> HIDE DEF R
<1>2. Tail(s) \in Seq(R) /\ Len(Tail(s)) = Len(s) - 1 /\ Head(s) = s[1]
      /\ \A i \in 1..(Len(s) - 1) : Tail(s)[i] = s[i + 1]
  BY <1>1, HeadTailProperties
<1>3. IsSeq(Tail(s))
  BY <1>2, SeqIs
<1> QED  BY <1>2, <1>3

\* The head dropped (d = 1) or not (d = 0), p posted behind the rest.
Moved(w, d, p, w2) ==
  /\ IsSeq(w) /\ IsSeq(p) /\ IsSeq(w2) /\ d \in {0, 1} /\ d <= Len(w)
  /\ Len(w2) = Len(w) - d + Len(p)
  /\ \A i \in 1..(Len(w) - d) : w2[i] = w[i + d]
  /\ \A i \in 1..Len(p) : w2[Len(w) - d + i] = p[i]

\* Entries are appended.
LEMMA PostedMoves ==
  ASSUME NEW w, NEW p, IsSeq(w), IsSeq(p)
  PROVE  Moved(w, 0, p, w \o p)
<1>1. Len(w) \in Nat
  BY SeqHas
<1>2. Len(w) - 0 = Len(w) /\ \A i \in 1..Len(w) : i + 0 = i
  BY <1>1
<1>3. /\ IsSeq(w \o p) /\ Len(w \o p) = Len(w) + Len(p)
      /\ \A i \in 1..Len(w) : (w \o p)[i] = w[i]
      /\ \A i \in 1..Len(p) : (w \o p)[Len(w) + i] = p[i]
  BY CatIs
<1> QED  BY <1>1, <1>2, <1>3 DEF Moved

\* The first is taken off.
LEMMA HandledMoves ==
  ASSUME NEW w, NEW p, IsSeq(w), IsSeq(p), w # << >>
  PROVE  Moved(w, 1, p, Tail(w) \o p)
<1>1. Len(w) \in Nat /\ Len(w) # 0
  BY SeqHas
<1>2. IsSeq(Tail(w)) /\ Len(Tail(w)) = Len(w) - 1 /\ \A i \in 1..(Len(w) - 1) : Tail(w)[i] = w[i + 1]
  BY TailIs
<1> SUFFICES ASSUME NEW u, u = Tail(w), IsSeq(u), Len(u) = Len(w) - 1,
                    \A i \in 1..(Len(w) - 1) : u[i] = w[i + 1]
             PROVE  Moved(w, 1, p, u \o p)
  BY <1>2
<1>3. /\ IsSeq(u \o p) /\ Len(u \o p) = Len(u) + Len(p)
      /\ \A i \in 1..Len(u) : (u \o p)[i] = u[i]
      /\ \A i \in 1..Len(p) : (u \o p)[Len(u) + i] = p[i]
  BY CatIs
<1> QED  BY <1>1, <1>3 DEF Moved

\* Nothing happens to a queue.
LEMMA NothingMoves ==
  ASSUME NEW w, IsSeq(w)
  PROVE  Moved(w, 0, << >>, w)
<1>1. Len(w) \in Nat /\ IsSeq(<< >>) /\ Len(<< >>) = 0
  <2>1. << >> \in Seq({})
    OBVIOUS
  <2> QED  BY <2>1, SeqHas, SeqIs
<1>2. Len(w) - 0 = Len(w) /\ \A i \in 1..Len(w) : i + 0 = i
  BY <1>1
<1> QED  BY <1>1, <1>2 DEF Moved

\* The first is taken off, and others come behind.
LEMMA DroppedMoves ==
  ASSUME NEW w, IsSeq(w), w # << >>
  PROVE  Moved(w, 1, << >>, Tail(w))
<1>1. Len(w) \in Nat /\ Len(w) # 0 /\ IsSeq(<< >>) /\ Len(<< >>) = 0
  <2>1. << >> \in Seq({})
    OBVIOUS
  <2> QED  BY <2>1, SeqHas, SeqIs
<1>2. IsSeq(Tail(w)) /\ Len(Tail(w)) = Len(w) - 1 /\ \A i \in 1..(Len(w) - 1) : Tail(w)[i] = w[i + 1]
  BY TailIs
<1> QED  BY <1>1, <1>2 DEF Moved

\* Each of the events left was there before, or is posted.
LEMMA MovedFrom ==
  ASSUME NEW w, NEW d, NEW p, NEW w2, Moved(w, d, p, w2), NEW i \in DOMAIN w2
  PROVE  \/ i \in 1..(Len(w) - d) /\ i + d \in DOMAIN w /\ i + d > d /\ w2[i] = w[i + d]
         \/ \E k \in DOMAIN p : i = Len(w) - d + k /\ w2[i] = p[k]
<1>1. /\ Len(w) \in Nat /\ Len(p) \in Nat /\ Len(w2) \in Nat /\ d \in {0, 1}
      /\ DOMAIN w = 1..Len(w) /\ DOMAIN p = 1..Len(p) /\ DOMAIN w2 = 1..Len(w2)
      /\ Len(w2) = Len(w) - d + Len(p)
  BY SeqHas DEF Moved
<1>2. CASE i <= Len(w) - d
  <2>1. i \in 1..(Len(w) - d) /\ i + d \in 1..Len(w) /\ i + d > d
    BY <1>1, <1>2
  <2> QED  BY <1>1, <2>1 DEF Moved
<1>3. CASE ~(i <= Len(w) - d)
  <2>1. i - (Len(w) - d) \in 1..Len(p) /\ i = Len(w) - d + (i - (Len(w) - d))
    BY <1>1, <1>3
  <2> QED  BY <1>1, <2>1 DEF Moved
<1> QED  BY <1>2, <1>3

\* Each entry of the new queue was in the old one or is posted.
LEMMA MovedBack ==
  ASSUME NEW w, NEW d, NEW p, NEW w2, Moved(w, d, p, w2), NEW i \in DOMAIN w2
  PROVE  (\E k \in DOMAIN w : k > d /\ w2[i] = w[k]) \/ \E k \in DOMAIN p : w2[i] = p[k]
<1>1. \/ i \in 1..(Len(w) - d) /\ i + d \in DOMAIN w /\ i + d > d /\ w2[i] = w[i + d]
      \/ \E k \in DOMAIN p : i = Len(w) - d + k /\ w2[i] = p[k]
  BY MovedFrom
<1> QED  BY <1>1

\* What was behind the head is there still, and so is what is posted.
LEMMA MovedKeeps ==
  ASSUME NEW w, NEW d, NEW p, NEW w2, Moved(w, d, p, w2)
  PROVE  /\ DOMAIN w = 1..Len(w) /\ DOMAIN p = 1..Len(p) /\ DOMAIN w2 = 1..Len(w2)
         /\ Len(w) \in Nat /\ Len(p) \in Nat /\ Len(w2) \in Nat /\ d \in {0, 1}
         /\ \A i \in DOMAIN w : i > d => i - d \in DOMAIN w2 /\ w2[i - d] = w[i]
         /\ \A k \in DOMAIN p : Len(w) - d + k \in DOMAIN w2 /\ w2[Len(w) - d + k] = p[k]
<1>1. /\ Len(w) \in Nat /\ Len(p) \in Nat /\ Len(w2) \in Nat /\ d \in {0, 1} /\ d <= Len(w)
      /\ DOMAIN w = 1..Len(w) /\ DOMAIN p = 1..Len(p) /\ DOMAIN w2 = 1..Len(w2)
      /\ Len(w2) = Len(w) - d + Len(p)
  BY SeqHas DEF Moved
<1>2. ASSUME NEW i \in DOMAIN w, i > d PROVE i - d \in DOMAIN w2 /\ w2[i - d] = w[i]
  <2>1. i - d \in 1..(Len(w) - d) /\ i - d + d = i /\ i - d \in 1..Len(w2)
    BY <1>1, <1>2
  <2> QED  BY <1>1, <2>1 DEF Moved
<1>3. ASSUME NEW k \in DOMAIN p PROVE Len(w) - d + k \in DOMAIN w2 /\ w2[Len(w) - d + k] = p[k]
  <2>1. Len(w) - d + k \in 1..Len(w2) /\ k \in 1..Len(p)
    BY <1>1
  <2> QED  BY <1>1, <2>1 DEF Moved
<1> QED  BY <1>1, <1>2, <1>3

-----------------------------------------------------------------------------
(* What waits for a view.                                                   *)

Has(q, do, v) == \E i \in DOMAIN q : q[i].do = do /\ q[i].view = v

\* The last event of these kinds for the view is at i.
LastAt(q, dos, v, i) ==
  /\ i \in DOMAIN q /\ q[i].do \in dos /\ q[i].view = v
  /\ \A j \in DOMAIN q : j > i => ~(q[j].do \in dos /\ q[j].view = v)

None(q, dos, v) == \A i \in DOMAIN q : ~(q[i].do \in dos /\ q[i].view = v)

\* Nothing of the kinds is posted: none comes up.
LEMMA NoneMoved ==
  ASSUME NEW w, NEW d, NEW p, NEW w2, Moved(w, d, p, w2), NEW dos, NEW v,
         None(p, dos, v), \A i \in DOMAIN w : i > d => ~(w[i].do \in dos /\ w[i].view = v)
  PROVE  None(w2, dos, v)
<1> SUFFICES ASSUME NEW i \in DOMAIN w2 PROVE ~(w2[i].do \in dos /\ w2[i].view = v)
  BY DEF None
<1>1. \/ i \in 1..(Len(w) - d) /\ i + d \in DOMAIN w /\ i + d > d /\ w2[i] = w[i + d]
      \/ \E k \in DOMAIN p : i = Len(w) - d + k /\ w2[i] = p[k]
  BY MovedFrom
<1> QED  BY <1>1 DEF None

\* The last one stays the last.
LEMMA LastMoved ==
  ASSUME NEW w, NEW d, NEW p, NEW w2, Moved(w, d, p, w2), NEW dos, NEW v,
         None(p, dos, v), NEW i, LastAt(w, dos, v, i), i > d
  PROVE  LastAt(w2, dos, v, i - d) /\ w2[i - d] = w[i]
<1>1. /\ DOMAIN w = 1..Len(w) /\ DOMAIN p = 1..Len(p) /\ DOMAIN w2 = 1..Len(w2)
      /\ Len(w) \in Nat /\ d \in {0, 1}
      /\ i \in DOMAIN w /\ i - d \in DOMAIN w2 /\ w2[i - d] = w[i]
  BY MovedKeeps DEF LastAt
<1>2. ASSUME NEW j \in DOMAIN w2, j > i - d PROVE ~(w2[j].do \in dos /\ w2[j].view = v)
  <2>1. CASE j \in 1..(Len(w) - d) /\ j + d \in DOMAIN w /\ j + d > d /\ w2[j] = w[j + d]
    <3>1. j + d > i
      BY <1>1, <1>2, <2>1
    <3> QED  BY <2>1, <3>1 DEF LastAt
  <2>2. CASE \E k \in DOMAIN p : j = Len(w) - d + k /\ w2[j] = p[k]
    BY <2>2 DEF None
  <2> QED  BY <2>1, <2>2, MovedFrom
<1> QED  BY <1>1, <1>2 DEF LastAt

\* A last one that is posted is the last.
LEMMA LastPosted ==
  ASSUME NEW w, NEW d, NEW p, NEW w2, Moved(w, d, p, w2), NEW dos, NEW v,
         NEW k, LastAt(p, dos, v, k)
  PROVE  LastAt(w2, dos, v, Len(w) - d + k) /\ w2[Len(w) - d + k] = p[k]
<1>1. /\ DOMAIN w = 1..Len(w) /\ DOMAIN p = 1..Len(p) /\ DOMAIN w2 = 1..Len(w2)
      /\ Len(w) \in Nat /\ d \in {0, 1}
      /\ k \in DOMAIN p /\ Len(w) - d + k \in DOMAIN w2 /\ w2[Len(w) - d + k] = p[k]
  BY MovedKeeps DEF LastAt
<1>2. ASSUME NEW j \in DOMAIN w2, j > Len(w) - d + k PROVE ~(w2[j].do \in dos /\ w2[j].view = v)
  <2>1. CASE j \in 1..(Len(w) - d)
    BY <1>1, <1>2, <2>1
  <2>2. CASE \E l \in DOMAIN p : j = Len(w) - d + l /\ w2[j] = p[l]
    <3>1. PICK l \in DOMAIN p : j = Len(w) - d + l /\ w2[j] = p[l]
      BY <2>2
    <3>2. l > k
      BY <1>1, <1>2, <3>1
    <3> QED  BY <3>1, <3>2 DEF LastAt
  <2> QED  BY <2>1, <2>2, MovedFrom
<1> QED  BY <1>1, <1>2 DEF LastAt

\* Being there.
LEMMA HasMoved ==
  ASSUME NEW w, NEW d, NEW p, NEW w2, Moved(w, d, p, w2), NEW do, NEW v,
         Has(w, do, v), d = 1 => ~(w[1].do = do /\ w[1].view = v)
  PROVE  Has(w2, do, v)
<1>1. PICK i \in DOMAIN w : w[i].do = do /\ w[i].view = v
  BY DEF Has
<1>2. d \in {0, 1} /\ DOMAIN w = 1..Len(w) /\ Len(w) \in Nat
  BY MovedKeeps
<1>3. i > d
  BY <1>1, <1>2
<1>4. i - d \in DOMAIN w2 /\ w2[i - d] = w[i]
  BY <1>3, MovedKeeps
<1> QED  BY <1>1, <1>4 DEF Has

\* What is posted waits.
LEMMA HasPosted ==
  ASSUME NEW w, NEW d, NEW p, NEW w2, Moved(w, d, p, w2), NEW do, NEW v, Has(p, do, v)
  PROVE  Has(w2, do, v)
<1>1. PICK k \in DOMAIN p : p[k].do = do /\ p[k].view = v
  BY DEF Has
<1>2. Len(w) - d + k \in DOMAIN w2 /\ w2[Len(w) - d + k] = p[k]
  BY MovedKeeps
<1> QED  BY <1>1, <1>2 DEF Has

Fresh(e, n, l) == e.from = n /\ e.level = l
Lists == {"list", "clear"}
Asking(w, j, v) == Has(w, "reload", v) \/ Has(w, "jreload", v) \/ Has(j, "reload", v)
Replying(w, v, n, l) == \E i : LastAt(w, {"reply"}, v, i) /\ Fresh(w[i], n, l)
Listing(q, x, v, n, l) ==
  \/ \E i : LastAt(q, Lists, v, i) /\ q[i].do = "list" /\ Fresh(q[i], n, l)
  \/ None(q, Lists, v) /\ Fresh(x, n, l)
\* The queue with the lists of a view.
ShownIn(w, j, v) == IF v = "jlocals" THEN j ELSE w

\* A view x is up to date or will be: a reload waits, which will be asked for after all else;
\* or, of the answers that wait, the last is of this pause and level; or of the lists.
Coming(w, j, x, v, n, l) ==
  \/ Asking(w, j, v)
  \/ Replying(w, v, n, l)
  \/ None(w, {"reply"}, v) /\ Listing(ShownIn(w, j, v), x, v, n, l)

\* What the head of a queue must not be for the view to stay as it is.
Idle(q, d, v) == d = 1 => ~(q[1].do \in {"reload", "jreload", "reply", "list", "clear"} /\ q[1].view = v)

\* Who asked still does, unless it is handled.
LEMMA AskingKept ==
  ASSUME NEW w, NEW d, NEW p, NEW w2, Moved(w, d, p, w2),
         NEW j, NEW c, NEW r, NEW j2, Moved(j, c, r, j2), NEW v, Asking(w, j, v),
         d = 1 => ~(w[1].do \in {"reload", "jreload"} /\ w[1].view = v),
         c = 1 => ~(j[1].do = "reload" /\ j[1].view = v)
  PROVE  Asking(w2, j2, v)
<1>1. CASE Has(w, "reload", v)
  <2>1. Has(w2, "reload", v)
    BY <1>1, HasMoved
  <2> QED  BY <2>1 DEF Asking
<1>2. CASE Has(w, "jreload", v)
  <2>1. Has(w2, "jreload", v)
    BY <1>2, HasMoved
  <2> QED  BY <2>1 DEF Asking
<1>3. CASE Has(j, "reload", v)
  <2>1. Has(j2, "reload", v)
    BY <1>3, HasMoved
  <2> QED  BY <2>1 DEF Asking
<1> QED  BY <1>1, <1>2, <1>3 DEF Asking

\* An answer still waits, unless it is handled.
LEMMA ReplyingKept ==
  ASSUME NEW w, NEW d, NEW p, NEW w2, Moved(w, d, p, w2), NEW v, NEW n, NEW l,
         Replying(w, v, n, l), None(p, {"reply"}, v),
         d = 1 => ~(w[1].do = "reply" /\ w[1].view = v)
  PROVE  Replying(w2, v, n, l)
<1>1. PICK i : LastAt(w, {"reply"}, v, i) /\ Fresh(w[i], n, l)
  BY DEF Replying
<1>2. i > d
  <2>1. DOMAIN w = 1..Len(w) /\ Len(w) \in Nat /\ d \in {0, 1}
    BY MovedKeeps
  <2>2. i \in DOMAIN w /\ w[i].do = "reply" /\ w[i].view = v
    BY <1>1 DEF LastAt
  <2> QED  BY <2>1, <2>2
<1>3. LastAt(w2, {"reply"}, v, i - d) /\ w2[i - d] = w[i]
  BY <1>1, <1>2, LastMoved
<1> QED  BY <1>1, <1>3 DEF Replying

\* A list still waits, unless it is handled.
LEMMA ListingKept ==
  ASSUME NEW q, NEW d, NEW p, NEW q2, Moved(q, d, p, q2), NEW v, NEW n, NEW l, NEW x, NEW x2,
         Listing(q, x, v, n, l), None(p, Lists, v),
         d = 1 => ~(q[1].do \in Lists /\ q[1].view = v),
         Fresh(x, n, l) => Fresh(x2, n, l)
  PROVE  Listing(q2, x2, v, n, l)
<1>0. DOMAIN q = 1..Len(q) /\ Len(q) \in Nat /\ d \in {0, 1}
  BY MovedKeeps
<1>1. CASE \E i : LastAt(q, Lists, v, i) /\ q[i].do = "list" /\ Fresh(q[i], n, l)
  <2>1. PICK i : LastAt(q, Lists, v, i) /\ q[i].do = "list" /\ Fresh(q[i], n, l)
    BY <1>1
  <2>2. i > d
    <3>1. i \in DOMAIN q /\ q[i].do \in Lists /\ q[i].view = v
      BY <2>1 DEF LastAt
    <3> QED  BY <1>0, <3>1
  <2>3. LastAt(q2, Lists, v, i - d) /\ q2[i - d] = q[i]
    BY <2>1, <2>2, LastMoved
  <2> QED  BY <2>1, <2>3 DEF Listing
<1>2. CASE None(q, Lists, v) /\ Fresh(x, n, l)
  <2>1. \A i \in DOMAIN q : i > d => ~(q[i].do \in Lists /\ q[i].view = v)
    BY <1>2 DEF None
  <2>2. None(q2, Lists, v)
    BY <2>1, NoneMoved
  <2> QED  BY <1>2, <2>2 DEF Listing
<1> QED  BY <1>1, <1>2 DEF Listing

\* Nothing that concerns the view is handled or posted, but for reloads.
LEMMA ComingKept ==
  ASSUME NEW w, NEW d, NEW p, NEW w2, Moved(w, d, p, w2),
         NEW j, NEW c, NEW r, NEW j2, Moved(j, c, r, j2),
         NEW v, NEW n, NEW l, NEW x, NEW x2, Coming(w, j, x, v, n, l),
         Idle(w, d, v), Idle(j, c, v), None(p, {"reply", "list", "clear"}, v), None(r, Lists, v),
         Fresh(x, n, l) => Fresh(x2, n, l)
  PROVE  Coming(w2, j2, x2, v, n, l)
<1>0. None(p, {"reply"}, v) /\ None(p, Lists, v)
  BY DEF None, Lists
<1>1. CASE Asking(w, j, v)
  <2>1. Asking(w2, j2, v)
    BY <1>1, AskingKept DEF Idle
  <2> QED  BY <2>1 DEF Coming
<1>2. CASE Replying(w, v, n, l)
  <2>1. d = 1 => ~(w[1].do = "reply" /\ w[1].view = v)
    BY DEF Idle
  <2>2. Replying(w2, v, n, l)
    BY <1>0, <1>2, <2>1, ReplyingKept
  <2> QED  BY <2>2 DEF Coming
<1>3. CASE None(w, {"reply"}, v) /\ Listing(ShownIn(w, j, v), x, v, n, l)
  <2>1. None(w2, {"reply"}, v)
    <3>1. \A i \in DOMAIN w : i > d => ~(w[i].do \in {"reply"} /\ w[i].view = v)
      BY <1>3 DEF None
    <3> QED  BY <1>0, <3>1, NoneMoved
  <2>2. Listing(ShownIn(w2, j2, v), x2, v, n, l)
    <3>0. /\ d = 1 => ~(w[1].do \in Lists /\ w[1].view = v)
          /\ c = 1 => ~(j[1].do \in Lists /\ j[1].view = v)
      BY DEF Idle, Lists
    <3>1. CASE v = "jlocals"
      <4>1. Listing(j, x, v, n, l)
        BY <1>3, <3>1 DEF ShownIn
      <4>2. Listing(j2, x2, v, n, l)
        BY <3>0, <4>1, ListingKept
      <4> QED  BY <3>1, <4>2 DEF ShownIn
    <3>2. CASE v # "jlocals"
      <4>1. Listing(w, x, v, n, l)
        BY <1>3, <3>2 DEF ShownIn
      <4>2. Listing(w2, x2, v, n, l)
        BY <1>0, <3>0, <4>1, ListingKept
      <4> QED  BY <3>2, <4>2 DEF ShownIn
    <3> QED  BY <3>1, <3>2
  <2> QED  BY <2>1, <2>2 DEF Coming
<1> QED  BY <1>1, <1>2, <1>3 DEF Coming

\* A reload or an answer of this pause and level is posted.
LEMMA ComingAsked ==
  ASSUME NEW w, NEW d, NEW p, NEW w2, Moved(w, d, p, w2), NEW j, NEW x, NEW v, NEW n, NEW l,
         \/ Has(p, "reload", v) \/ Has(p, "jreload", v)
         \/ \E k : LastAt(p, {"reply"}, v, k) /\ Fresh(p[k], n, l)
  PROVE  Coming(w2, j, x, v, n, l)
<1>1. CASE Has(p, "reload", v) \/ Has(p, "jreload", v)
  <2>1. Has(w2, "reload", v) \/ Has(w2, "jreload", v)
    BY <1>1, HasPosted
  <2> QED  BY <2>1 DEF Coming, Asking
<1>2. CASE \E k : LastAt(p, {"reply"}, v, k) /\ Fresh(p[k], n, l)
  <2>1. PICK k : LastAt(p, {"reply"}, v, k) /\ Fresh(p[k], n, l)
    BY <1>2
  <2>2. LastAt(w2, {"reply"}, v, Len(w) - d + k) /\ w2[Len(w) - d + k] = p[k]
    BY <2>1, LastPosted
  <2> QED  BY <2>1, <2>2 DEF Coming, Replying
<1> QED  BY <1>1, <1>2

\* The answer to the view is handled: it becomes a list behind all others.
LEMMA ComingReplied ==
  ASSUME NEW w, NEW p, NEW w2, Moved(w, 1, p, w2),
         NEW j, NEW r, NEW j2, Moved(j, 0, r, j2),
         NEW v, NEW n, NEW l, NEW x, Coming(w, j, x, v, n, l),
         w[1].do = "reply", w[1].view = v, w # << >>,
         None(p, {"reply"}, v), 
         LET q == IF v = "jlocals" THEN r ELSE p
         IN \E k : LastAt(q, Lists, v, k) /\ q[k].do = "list" /\ q[k].from = w[1].from /\ q[k].level = w[1].level
  PROVE  Coming(w2, j2, x, v, n, l)
<1>0. DOMAIN w = 1..Len(w) /\ Len(w) \in Nat /\ 1 \in DOMAIN w
  <2>1. DOMAIN w = 1..Len(w) /\ Len(w) \in Nat /\ 1 <= Len(w)
    BY MovedKeeps DEF Moved
  <2> QED  BY <2>1
<1>1. CASE Asking(w, j, v)
  <2>1. ~(w[1].do \in {"reload", "jreload"} /\ w[1].view = v)
    OBVIOUS
  <2>2. Asking(w2, j2, v)
    BY <1>1, <2>1, AskingKept
  <2> QED  BY <2>2 DEF Coming
<1>2. CASE Replying(w, v, n, l)
  <2>1. PICK i : LastAt(w, {"reply"}, v, i) /\ Fresh(w[i], n, l)
    BY <1>2 DEF Replying
  <2>2. CASE i > 1
    <3>1. LastAt(w2, {"reply"}, v, i - 1) /\ w2[i - 1] = w[i]
      BY <2>1, <2>2, LastMoved
    <3> QED  BY <2>1, <3>1 DEF Coming, Replying
  <2>3. CASE ~(i > 1)
    <3>1. i = 1
      BY <1>0, <2>1, <2>3 DEF LastAt
    <3>2. None(w2, {"reply"}, v)
      <4>1. \A k \in DOMAIN w : k > 1 => ~(w[k].do \in {"reply"} /\ w[k].view = v)
        BY <2>1, <3>1 DEF LastAt
      <4> QED  BY <4>1, NoneMoved
    <3>3. Listing(ShownIn(w2, j2, v), x, v, n, l)
      <4>1. CASE v = "jlocals"
        <5>1. PICK k : LastAt(r, Lists, v, k) /\ r[k].do = "list" /\ r[k].from = w[1].from /\ r[k].level = w[1].level
          BY <4>1
        <5>2. LastAt(j2, Lists, v, Len(j) - 0 + k) /\ j2[Len(j) - 0 + k] = r[k]
          BY <5>1, LastPosted
        <5>3. Fresh(j2[Len(j) - 0 + k], n, l)
          BY <2>1, <3>1, <5>1, <5>2 DEF Fresh
        <5> QED  BY <4>1, <5>1, <5>2, <5>3 DEF ShownIn, Listing
      <4>2. CASE v # "jlocals"
        <5>1. PICK k : LastAt(p, Lists, v, k) /\ p[k].do = "list" /\ p[k].from = w[1].from /\ p[k].level = w[1].level
          BY <4>2
        <5>2. LastAt(w2, Lists, v, Len(w) - 1 + k) /\ w2[Len(w) - 1 + k] = p[k]
          BY <5>1, LastPosted
        <5>3. Fresh(w2[Len(w) - 1 + k], n, l)
          BY <2>1, <3>1, <5>1, <5>2 DEF Fresh
        <5> QED  BY <4>2, <5>1, <5>2, <5>3 DEF ShownIn, Listing
      <4> QED  BY <4>1, <4>2
    <3> QED  BY <3>2, <3>3 DEF Coming
  <2> QED  BY <2>2, <2>3
<1>3. CASE None(w, {"reply"}, v)
  BY <1>0, <1>3 DEF None
<1> QED  BY <1>1, <1>2, <1>3 DEF Coming

\* The head of the view's queue fills or empties it.
LEMMA ListingHandled ==
  ASSUME NEW q, NEW p, NEW q2, Moved(q, 1, p, q2), NEW v, NEW n, NEW l, NEW x, NEW x2,
         Listing(q, x, v, n, l), None(p, Lists, v), q[1].do \in Lists, q[1].view = v,
         q[1].do = "list" => x2.from = q[1].from /\ x2.level = q[1].level
  PROVE  Listing(q2, x2, v, n, l)
<1>0. DOMAIN q = 1..Len(q) /\ Len(q) \in Nat /\ 1 \in DOMAIN q
  <2>1. DOMAIN q = 1..Len(q) /\ Len(q) \in Nat /\ 1 <= Len(q)
    BY MovedKeeps DEF Moved
  <2> QED  BY <2>1
<1>1. CASE \E i : LastAt(q, Lists, v, i) /\ q[i].do = "list" /\ Fresh(q[i], n, l)
  <2>1. PICK i : LastAt(q, Lists, v, i) /\ q[i].do = "list" /\ Fresh(q[i], n, l)
    BY <1>1
  <2>2. CASE i > 1
    <3>1. LastAt(q2, Lists, v, i - 1) /\ q2[i - 1] = q[i]
      BY <2>1, <2>2, LastMoved
    <3> QED  BY <2>1, <3>1 DEF Listing
  <2>3. CASE ~(i > 1)
    <3>1. i = 1
      BY <1>0, <2>1, <2>3 DEF LastAt
    <3>2. \A k \in DOMAIN q : k > 1 => ~(q[k].do \in Lists /\ q[k].view = v)
      BY <2>1, <3>1 DEF LastAt
    <3>3. None(q2, Lists, v)
      BY <3>2, NoneMoved
    <3>4. Fresh(x2, n, l)
      BY <2>1, <3>1 DEF Fresh
    <3> QED  BY <3>3, <3>4 DEF Listing
  <2> QED  BY <2>2, <2>3
<1>2. CASE None(q, Lists, v)
  BY <1>0, <1>2 DEF None
<1> QED  BY <1>1, <1>2 DEF Listing

\* A list that comes is of this pause.
LEMMA ComingListed ==
  ASSUME NEW w, NEW d, NEW p, NEW w2, Moved(w, d, p, w2),
         NEW j, NEW c, NEW r, NEW j2, Moved(j, c, r, j2),
         NEW v, NEW n, NEW l, NEW x, NEW x2, Coming(w, j, x, v, n, l),
         None(p, {"reply"}, v), None(IF v = "jlocals" THEN r ELSE p, Lists, v),
         LET q == ShownIn(w, j, v)
         IN /\ q[1].do \in Lists /\ q[1].view = v
            /\ q[1].do = "list" => x2.from = q[1].from /\ x2.level = q[1].level,
         IF v = "jlocals" THEN d = 0 /\ c = 1 ELSE d = 1 /\ c = 0
  PROVE  Coming(w2, j2, x2, v, n, l)
<1>0. /\ d = 1 => w[1].do \in Lists
      /\ c = 1 => j[1].do \in Lists
  BY DEF ShownIn
<1>1. CASE Asking(w, j, v)
  <2>1. /\ d = 1 => ~(w[1].do \in {"reload", "jreload"} /\ w[1].view = v)
        /\ c = 1 => ~(j[1].do = "reload" /\ j[1].view = v)
    BY <1>0 DEF Lists
  <2>2. Asking(w2, j2, v)
    BY <1>1, <2>1, AskingKept
  <2> QED  BY <2>2 DEF Coming
<1>2. CASE Replying(w, v, n, l)
  <2>1. d = 1 => ~(w[1].do = "reply" /\ w[1].view = v)
    BY <1>0 DEF Lists
  <2>2. Replying(w2, v, n, l)
    BY <1>2, <2>1, ReplyingKept
  <2> QED  BY <2>2 DEF Coming
<1>3. CASE None(w, {"reply"}, v) /\ Listing(ShownIn(w, j, v), x, v, n, l)
  <2>1. None(w2, {"reply"}, v)
    <3>1. \A i \in DOMAIN w : i > d => ~(w[i].do \in {"reply"} /\ w[i].view = v)
      BY <1>3 DEF None
    <3> QED  BY <3>1, NoneMoved
  <2>2. CASE v = "jlocals"
    <3>1. Listing(j, x, v, n, l) /\ j[1].do \in Lists /\ j[1].view = v /\ c = 1 /\ None(r, Lists, v)
          /\ (j[1].do = "list" => x2.from = j[1].from /\ x2.level = j[1].level)
      BY <1>3, <2>2 DEF ShownIn
    <3>2. Listing(j2, x2, v, n, l)
      BY <3>1, ListingHandled
    <3> QED  BY <2>1, <2>2, <3>2 DEF Coming, ShownIn
  <2>3. CASE v # "jlocals"
    <3>1. Listing(w, x, v, n, l) /\ w[1].do \in Lists /\ w[1].view = v /\ d = 1 /\ None(p, Lists, v)
          /\ (w[1].do = "list" => x2.from = w[1].from /\ x2.level = w[1].level)
      BY <1>3, <2>3 DEF ShownIn
    <3>2. Listing(w2, x2, v, n, l)
      BY <3>1, ListingHandled
    <3> QED  BY <2>1, <2>3, <3>2 DEF Coming, ShownIn
  <2> QED  BY <2>2, <2>3
<1> QED  BY <1>1, <1>2, <1>3 DEF Coming

-----------------------------------------------------------------------------
(* Signals.                                                                 *)

\* The list of a finite set holds its elements, each of them.
LEMMA SetToSeqIs ==
  ASSUME NEW S, IsFiniteSet(S)
  PROVE  /\ IsSeq(SetToSeq(S)) /\ \A i \in DOMAIN SetToSeq(S) : SetToSeq(S)[i] \in S
         /\ \A e \in S : \E i \in DOMAIN SetToSeq(S) : SetToSeq(S)[i] = e
<1> DEFINE n == Cardinality(S)
<1> DEFINE f == SetToSeq(S)
<1>1. n \in Nat /\ ExistsBijection(1..n, S)
  BY FS_CardinalityType
<1>2. \E g \in [1..n -> S] : IsInjective(g)
  <2>1. PICK g : g \in Bijection(1..n, S)
    BY <1>1 DEF ExistsBijection
  <2>2. g \in [1..n -> S] /\ IsInjective(g)
    BY <2>1 DEF Bijection, Injection
  <2> QED  BY <2>2
<1>3. f \in [1..n -> S] /\ IsInjective(f)
  BY <1>2 DEF SetToSeq
<1> HIDE DEF f
<1>4. f \in Seq(S)
  BY <1>1, <1>3
<1>5. IsSeq(f) /\ \A i \in DOMAIN f : f[i] \in S
  BY <1>3, <1>4, SeqIs
<1>6. \A e \in S : \E i \in DOMAIN f : f[i] = e
  <2>1. IsFiniteSet(1..n) /\ Cardinality(1..n) = n
    BY <1>1, FS_Interval
  <2>2. f \in Injection(1..n, S)
    BY <1>3 DEF Injection
  <2>3. f \in Surjection(1..n, S)
    BY <2>1, <2>2, FS_Injection
  <2> QED  BY <1>3, <2>3 DEF Surjection
<1> QED  BY <1>5, <1>6 DEF f

\* One event for each of some pages.
LEMMA EachIs ==
  ASSUME NEW do, NEW ps, IsFiniteSet(ps)
  PROVE  /\ IsSeq(Each(do, ps))
         /\ \A i \in DOMAIN Each(do, ps) : \E p \in ps : Each(do, ps)[i] = Event(do, p)
         /\ \A p \in ps : Has(Each(do, ps), do, p)
<1> DEFINE vs == SetToSeq(ps)
<1>1. /\ IsSeq(vs) /\ \A i \in DOMAIN vs : vs[i] \in ps
      /\ \A e \in ps : \E i \in DOMAIN vs : vs[i] = e
  BY SetToSeqIs
<1>2. Len(vs) \in Nat /\ DOMAIN vs = 1..Len(vs)
  BY <1>1, SeqHas
<1>3. Each(do, ps) = [i \in 1..Len(vs) |-> Event(do, vs[i])]
  BY <1>2 DEF Each
<1> HIDE DEF vs
<1> DEFINE s == [i \in 1..Len(vs) |-> Event(do, vs[i])]
<1>4. IsSeq(s) /\ DOMAIN s = 1..Len(vs)
  <2> DEFINE R == {Event(do, vs[i]) : i \in 1..Len(vs)}
  <2>1. s \in [1..Len(vs) -> R]
    OBVIOUS
  <2>2. DOMAIN s = 1..Len(vs)
    OBVIOUS
  <2> HIDE DEF R, s
  <2>3. s \in Seq(R)
    BY <1>2, <2>1
  <2> QED  BY <2>2, <2>3, SeqIs
<1>5. \A i \in DOMAIN s : \E p \in ps : s[i] = Event(do, p)
  BY <1>1, <1>2
<1>6. \A p \in ps : Has(s, do, p)
  <2> SUFFICES ASSUME NEW p \in ps PROVE Has(s, do, p)
    OBVIOUS
  <2>1. PICK i \in DOMAIN vs : vs[i] = p
    BY <1>1
  <2>2. i \in DOMAIN s /\ s[i].do = do /\ s[i].view = p
    BY <1>2, <2>1 DEF Event
  <2> QED  BY <2>2 DEF Has
<1> QED  BY <1>3, <1>4, <1>5, <1>6

\* There are six panes at most.
LEMMA PanesFinite ==
  ASSUME NEW ps, ps \subseteq Views \cup {"stack", "memory"}
  PROVE  IsFiniteSet(ps)
<1>1. IsFiniteSet({"locals", "globals"}) /\ IsFiniteSet({"watches", "jlocals"}) /\ IsFiniteSet({"stack", "memory"})
  <2>1. ASSUME NEW a, NEW b PROVE IsFiniteSet({a, b})
    <3>1. IsFiniteSet({a}) /\ {a, b} = {a} \cup {b}
      BY FS_Singleton
    <3> QED  BY <3>1, FS_AddElement
  <2> QED  BY <2>1
<1>2. IsFiniteSet({"locals", "globals"} \cup {"watches", "jlocals"})
  BY <1>1, FS_Union
<1>3. IsFiniteSet(({"locals", "globals"} \cup {"watches", "jlocals"}) \cup {"stack", "memory"})
  BY <1>1, <1>2, FS_Union
<1>4. ps \in SUBSET (({"locals", "globals"} \cup {"watches", "jlocals"}) \cup {"stack", "memory"})
  BY DEF Views, WxViews
<1> QED  BY <1>3, <1>4, FS_Subset

\* A signal of panes: who of them listens is told.
LEMMA SignalIs ==
  ASSUME NEW do, NEW ps, ps \subseteq Views \cup {"stack", "memory"}
  PROVE  /\ IsSeq(ToWx(do, ps)) /\ IsSeq(ToJuce(do, ps))
         /\ \A i \in DOMAIN ToWx(do, ps) :
              \E p \in ps \cap (WxViews \cup {"stack"}) : ToWx(do, ps)[i] = Event(do, p)
         /\ \A i \in DOMAIN ToJuce(do, ps) : ToJuce(do, ps)[i] = Event(do, "jlocals")
         /\ \A p \in ps \cap (WxViews \cup {"stack"}) : Has(ToWx(do, ps), do, p)
         /\ "jlocals" \in ps => Has(ToJuce(do, ps), do, "jlocals")
<1>1. IsFiniteSet(ps \cap (WxViews \cup {"stack"})) /\ IsFiniteSet(ps \cap {"jlocals"})
  <2>1. /\ ps \cap (WxViews \cup {"stack"}) \subseteq Views \cup {"stack", "memory"}
        /\ ps \cap {"jlocals"} \subseteq Views \cup {"stack", "memory"}
    OBVIOUS
  <2> QED  BY <2>1, PanesFinite
<1>2. /\ IsSeq(ToWx(do, ps))
      /\ \A i \in DOMAIN ToWx(do, ps) :
           \E p \in ps \cap (WxViews \cup {"stack"}) : ToWx(do, ps)[i] = Event(do, p)
      /\ \A p \in ps \cap (WxViews \cup {"stack"}) : Has(ToWx(do, ps), do, p)
  BY <1>1, EachIs DEF ToWx
<1>3. /\ IsSeq(ToJuce(do, ps))
      /\ \A i \in DOMAIN ToJuce(do, ps) : \E p \in ps \cap {"jlocals"} : ToJuce(do, ps)[i] = Event(do, p)
      /\ \A p \in ps \cap {"jlocals"} : Has(ToJuce(do, ps), do, p)
  BY <1>1, EachIs DEF ToJuce
<1>4. \A i \in DOMAIN ToJuce(do, ps) : ToJuce(do, ps)[i] = Event(do, "jlocals")
  BY <1>3
<1>5. "jlocals" \in ps => Has(ToJuce(do, ps), do, "jlocals")
  BY <1>3
<1> QED  BY <1>2, <1>3, <1>4, <1>5

-----------------------------------------------------------------------------
(* The invariant.                                                           *)

\* An event of the wx thread says whose it is.
WxOk(e) ==
  /\ e.do = "reply" =>
       /\ e.view \in Views
       /\ e = [do |-> e.do, view |-> e.view, rows |-> e.rows, from |-> e.from, level |-> e.level]
  /\ e.do = "list" => e.view \in WxViews
  /\ e.do = "jreload" => e.view = "jlocals"
  /\ e.do \in {"memory", "jmemory"} => "memory" \in Panes
  /\ e.do = "jmemory" => e = [do |-> e.do, view |-> e.view, row |-> e.row]

ViewsFormed ==
  /\ DOMAIN views = Views
  /\ \A v \in Views :
       views[v] = [rows |-> views[v].rows, from |-> views[v].from, level |-> views[v].level,
                   expanded |-> views[v].expanded, last |-> views[v].last, auto |-> views[v].auto]

Formed ==
  /\ IsSeq(wx) /\ IsSeq(juce)
  /\ \A i \in DOMAIN wx : WxOk(wx[i])
  /\ \A i \in DOMAIN juce : juce[i].view = "jlocals"
  /\ front \subseteq Panes
  /\ ViewsFormed
  /\ stack = [levels |-> stack.levels, rows |-> stack.rows]
  /\ hover = [cache |-> hover.cache, asked |-> hover.asked, tick |-> hover.tick, tip |-> hover.tip]
  /\ now = [starts |-> now.starts, pause |-> now.pause, breaks |-> now.breaks]
  /\ now.breaks \in Nat /\ tick \in Nat /\ hover.tick \in Int

\* The client listens only while the daemon has a program stopped; its pause, once told,
\* is not yet taken in and nothing is asked of it; the levels are those of the program,
\* and no pane is about to be emptied.
Told ==
  /\ listening => Stopped
  /\ \A i \in DOMAIN wx : wx[i].do = "suspended" =>
       /\ Stopped /\ ~listening
       /\ \A j \in DOMAIN wx : j > i => wx[j].do \notin {"suspended", "solved"}
  /\ Stopped => stack.levels = ToClientStack(prog) /\ \A i \in DOMAIN wx : wx[i].do # "clear"

\* Every view in front is current or will be, and so is the call stack.
Showing ==
  listening =>
    /\ \A v \in front \cap Views : Coming(wx, juce, views[v], v, now, level)
    /\ "stack" \in front => Has(wx, "reload", "stack") \/ stack.rows = Traced(ToClientStack(prog))

\* A value in the cache is of this pause if the tick is; one that comes is, if it is taken
\* in while the tick is or while the program waits.
Kept(from, h, t, l, n) ==
  /\ from.breaks \in Nat /\ from.breaks <= n.breaks
  /\ from.breaks = n.breaks => h <= t /\ (h = t => l /\ from = n)
Arriving(from, h, t, l, n) ==
  /\ from.breaks \in Nat /\ from.breaks <= n.breaks
  /\ from.breaks = n.breaks => h <= t /\ (l \/ h = t => l /\ from = n)
Hovering ==
  /\ \A w \in DOMAIN hover.cache : Kept(hover.cache[w].from, hover.tick, tick, listening, now)
  /\ \A i \in DOMAIN wx :
       wx[i].do = "solved" => Arriving(wx[i].from, hover.tick, tick, listening, now)

InspectInv == Formed /\ Told /\ Showing /\ Hovering

\* The initial state has it.
LEMMA InspectStarts == InspectInit => InspectInv
<1> SUFFICES ASSUME InspectInit PROVE InspectInv
  OBVIOUS
<1>1. IsSeq(<< >>) /\ \A i \in DOMAIN << >> : FALSE
  <2>1. << >> \in Seq({})
    OBVIOUS
  <2>2. IsSeq(<< >>) /\ DOMAIN << >> = 1..Len(<< >>) /\ Len(<< >>) = 0
    BY <2>1, SeqIs
  <2> QED  BY <2>2
<1>2. front \subseteq Panes
  BY PanesAssumption DEF InspectInit
<1>3. Formed
  <2>1. /\ IsSeq(wx) /\ IsSeq(juce)
        /\ \A i \in DOMAIN wx : WxOk(wx[i])
        /\ \A i \in DOMAIN juce : juce[i].view = "jlocals"
    BY <1>1 DEF InspectInit
  <2>2. ViewsFormed
    BY DEF InspectInit, EmptyView, ViewsFormed
  <2>3. /\ stack = [levels |-> stack.levels, rows |-> stack.rows]
        /\ hover = [cache |-> hover.cache, asked |-> hover.asked, tick |-> hover.tick, tip |-> hover.tip]
        /\ tick \in Nat
    BY DEF InspectInit
  <2>5. hover.tick \in Int
    <3>1. -1 \in Int
      OBVIOUS
    <3>2. \E k \in Int : hover = [cache |-> << >>, asked |-> {}, tick |-> k, tip |-> NoTip]
      BY <3>1, Zenon DEF InspectInit
    <3> QED  BY <3>2
  <2>4. now = [starts |-> now.starts, pause |-> now.pause, breaks |-> now.breaks] /\ now.breaks \in Nat
    BY DEF InspectInit, Never
  <2> QED  BY <1>2, <2>1, <2>2, <2>3, <2>4, <2>5 DEF Formed
<1>4. Told
  BY <1>1 DEF InspectInit, Told, Stopped
<1>5. Showing
  BY DEF InspectInit, Showing
<1>6. Hovering
  <2>1. hover.cache = << >> /\ wx = << >>
    BY DEF InspectInit
  <2> QED  BY <1>1, <2>1 DEF Hovering
<1> QED  BY <1>3, <1>4, <1>5, <1>6 DEF InspectInv

\* What waits has its form, if what is posted has.
LEMMA FormMoved ==
  ASSUME NEW d, NEW p, Moved(wx, d, p, wx'), NEW c, NEW r, Moved(juce, c, r, juce'), Formed,
         \A i \in DOMAIN p : WxOk(p[i]), \A i \in DOMAIN r : r[i].view = "jlocals"
  PROVE  /\ IsSeq(wx') /\ IsSeq(juce')
         /\ \A i \in DOMAIN wx' : WxOk(wx'[i])
         /\ \A i \in DOMAIN juce' : juce'[i].view = "jlocals"
<1>1. IsSeq(wx') /\ IsSeq(juce')
  BY DEF Moved
<1>2. ASSUME NEW i \in DOMAIN wx' PROVE WxOk(wx'[i])
  <2>1. \/ i \in 1..(Len(wx) - d) /\ i + d \in DOMAIN wx /\ i + d > d /\ wx'[i] = wx[i + d]
        \/ \E k \in DOMAIN p : i = Len(wx) - d + k /\ wx'[i] = p[k]
    BY MovedFrom
  <2> QED  BY <2>1 DEF Formed
<1>3. ASSUME NEW i \in DOMAIN juce' PROVE juce'[i].view = "jlocals"
  <2>1. \/ i \in 1..(Len(juce) - c) /\ i + c \in DOMAIN juce /\ i + c > c /\ juce'[i] = juce[i + c]
        \/ \E k \in DOMAIN r : i = Len(juce) - c + k /\ juce'[i] = r[k]
    BY MovedFrom
  <2> QED  BY <2>1 DEF Formed
<1> QED  BY <1>1, <1>2, <1>3

\* No step of the daemon, the call stack's levels as they were, no pause posted: what was
\* told stays.
LEMMA ToldKept ==
  ASSUME NEW d, NEW p, Moved(wx, d, p, wx'), Told, UNCHANGED <<prog, listening>>,
         Stopped => stack'.levels = stack.levels,
         \A i \in DOMAIN p : p[i].do \notin {"suspended", "clear"} /\ (p[i].do = "solved" => listening)
  PROVE  Told'
<1>0. /\ DOMAIN wx = 1..Len(wx) /\ DOMAIN p = 1..Len(p) /\ DOMAIN wx' = 1..Len(wx')
      /\ Len(wx) \in Nat /\ d \in {0, 1}
  BY MovedKeeps
<1>1. Stopped' <=> Stopped
  BY DEF Stopped
<1>2. ASSUME NEW i \in DOMAIN wx', wx'[i].do = "suspended"
      PROVE  /\ Stopped' /\ ~listening'
             /\ \A j \in DOMAIN wx' : j > i => wx'[j].do \notin {"suspended", "solved"}
  <2>1. i \in 1..(Len(wx) - d) /\ i + d \in DOMAIN wx /\ wx'[i] = wx[i + d]
    BY <1>2, MovedFrom
  <2>2. /\ Stopped /\ ~listening
        /\ \A j \in DOMAIN wx : j > i + d => wx[j].do \notin {"suspended", "solved"}
    BY <1>2, <2>1 DEF Told
  <2>3. ASSUME NEW j \in DOMAIN wx', j > i PROVE wx'[j].do \notin {"suspended", "solved"}
    <3>1. CASE j \in 1..(Len(wx) - d) /\ j + d \in DOMAIN wx /\ wx'[j] = wx[j + d]
      <4>1. j + d > i + d
        BY <1>0, <2>1, <2>3, <3>1
      <4> QED  BY <2>2, <3>1, <4>1
    <3>2. CASE \E k \in DOMAIN p : j = Len(wx) - d + k /\ wx'[j] = p[k]
      BY <2>2, <3>2
    <3> QED  BY <2>3, <3>1, <3>2, MovedFrom
  <2> QED  BY <1>1, <2>2, <2>3
<1>3. ASSUME Stopped' PROVE stack'.levels = ToClientStack(prog') /\ \A i \in DOMAIN wx' : wx'[i].do # "clear"
  <2>1. stack'.levels = ToClientStack(prog')
    BY <1>1, <1>3 DEF Told
  <2>2. ASSUME NEW i \in DOMAIN wx' PROVE wx'[i].do # "clear"
    <3>1. \/ i \in 1..(Len(wx) - d) /\ i + d \in DOMAIN wx /\ i + d > d /\ wx'[i] = wx[i + d]
          \/ \E k \in DOMAIN p : i = Len(wx) - d + k /\ wx'[i] = p[k]
      BY MovedFrom
    <3> QED  BY <1>1, <1>3, <3>1 DEF Told
  <2> QED  BY <2>1, <2>2
<1>4. listening' => Stopped'
  BY <1>1 DEF Told
<1> QED  BY <1>2, <1>3, <1>4 DEF Told

\* The cache is left alone and nothing solved is posted, but for this pause.
LEMMA HoveringKept ==
  ASSUME NEW d, NEW p, Moved(wx, d, p, wx'), Hovering, UNCHANGED <<now, tick, listening>>,
         hover'.cache = hover.cache, hover'.tick = hover.tick,
         \A i \in DOMAIN p : p[i].do # "solved"
  PROVE  Hovering'
<1>1. ASSUME NEW w \in DOMAIN hover'.cache
      PROVE  Kept(hover'.cache[w].from, hover'.tick, tick', listening', now')
  BY DEF Hovering
<1>2. ASSUME NEW i \in DOMAIN wx', wx'[i].do = "solved"
      PROVE  Arriving(wx'[i].from, hover'.tick, tick', listening', now')
  <2>1. \/ i \in 1..(Len(wx) - d) /\ i + d \in DOMAIN wx /\ i + d > d /\ wx'[i] = wx[i + d]
        \/ \E k \in DOMAIN p : i = Len(wx) - d + k /\ wx'[i] = p[k]
    BY MovedFrom
  <2> QED  BY <1>2, <2>1 DEF Hovering
<1> QED  BY <1>1, <1>2 DEF Hovering

-----------------------------------------------------------------------------
(* Steps that leave what is shown, and what it is of, alone.                *)

\* Posted by what the user does to a view or the memory.
Posted(p) ==
  \A i \in DOMAIN p :
    WxOk(p[i]) /\ p[i].do \in {"reload", "jreload", "memory", "jmemory", "redraw"}

\* The lists shown are of the pause and level they were of.
SameViews ==
  ViewsFormed' /\ \A v \in Views : views'[v].from = views[v].from /\ views'[v].level = views[v].level

Quiet(d, p, c, r) ==
  /\ Moved(wx, d, p, wx') /\ Moved(juce, c, r, juce')
  /\ UNCHANGED <<prog, now, listening, tick, level, stack>> /\ SameViews
  /\ hover' = [cache |-> hover.cache, asked |-> hover'.asked, tick |-> hover.tick, tip |-> hover'.tip]
  /\ front' \subseteq Panes /\ front' \subseteq front \cup {"memory"}
  /\ Posted(p) /\ \A i \in DOMAIN r : r[i].view = "jlocals" /\ r[i].do \in {"reload", "update"}
  /\ d = 1 => wx[1].do \in {"memory", "jmemory", "redraw"}
  /\ c = 1 => juce[1].do = "update"

\* A quiet step keeps the invariant.
LEMMA QuietKeeps ==
  ASSUME InspectInv, NEW d, NEW p, NEW c, NEW r, Quiet(d, p, c, r)
  PROVE  InspectInv'
<1>0. Formed /\ Told /\ Showing /\ Hovering
  BY DEF InspectInv
<1>1. Moved(wx, d, p, wx') /\ Moved(juce, c, r, juce')
  BY DEF Quiet
<1>2. hover'.cache = hover.cache /\ hover'.tick = hover.tick
  BY DEF Quiet
<1>3. Formed'
  <2>1. \A i \in DOMAIN p : WxOk(p[i])
    BY DEF Quiet, Posted
  <2>2. /\ IsSeq(wx') /\ IsSeq(juce')
        /\ \A i \in DOMAIN wx' : WxOk(wx'[i])
        /\ \A i \in DOMAIN juce' : juce'[i].view = "jlocals"
    BY <1>0, <1>1, <2>1, FormMoved DEF Quiet
  <2>3. hover' = [cache |-> hover'.cache, asked |-> hover'.asked, tick |-> hover'.tick, tip |-> hover'.tip]
    BY DEF Quiet
  <2> QED  BY <1>0, <1>2, <2>2, <2>3 DEF Formed, Quiet, SameViews
<1>4. Told'
  <2>1. \A i \in DOMAIN p : p[i].do \notin {"suspended", "clear"} /\ (p[i].do = "solved" => listening)
    BY DEF Quiet, Posted
  <2> QED  BY <1>0, <1>1, <2>1, ToldKept DEF Quiet
<1>5. Hovering'
  <2>1. \A i \in DOMAIN p : p[i].do # "solved"
    BY DEF Quiet, Posted
  <2> QED  BY <1>0, <1>1, <1>2, <2>1, HoveringKept DEF Quiet
<1>6. ASSUME listening', NEW v \in front' \cap Views
      PROVE  Coming(wx', juce', views'[v], v, now', level')
  <2>1. listening /\ v \in front \cap Views
    BY <1>6 DEF Quiet, Views, WxViews
  <2>2. Coming(wx, juce, views[v], v, now, level)
    BY <1>0, <2>1 DEF Showing
  <2>3. Idle(wx, d, v) /\ Idle(juce, c, v)
    BY DEF Idle, Quiet
  <2>4. None(p, {"reply", "list", "clear"}, v) /\ None(r, Lists, v)
    BY DEF None, Lists, Quiet, Posted
  <2>5. Fresh(views[v], now, level) => Fresh(views'[v], now, level)
    BY DEF Fresh, Quiet, SameViews
  <2>6. Coming(wx', juce', views'[v], v, now, level)
    BY <1>1, <2>2, <2>3, <2>4, <2>5, ComingKept
  <2> QED  BY <2>6 DEF Quiet
<1>7. ASSUME listening', "stack" \in front'
      PROVE  Has(wx', "reload", "stack") \/ stack'.rows = Traced(ToClientStack(prog))'
  <2>1. Has(wx, "reload", "stack") \/ stack.rows = Traced(ToClientStack(prog))
    BY <1>0, <1>7 DEF Showing, Quiet
  <2>2. CASE Has(wx, "reload", "stack")
    <3>1. d = 1 => ~(wx[1].do = "reload" /\ wx[1].view = "stack")
      BY DEF Quiet
    <3> QED  BY <1>1, <2>2, <3>1, HasMoved
  <2>3. CASE stack.rows = Traced(ToClientStack(prog))
    BY <2>3 DEF Quiet, Traced
  <2> QED  BY <2>1, <2>2, <2>3
<1>8. Showing'
  BY <1>6, <1>7 DEF Showing
<1> QED  BY <1>3, <1>4, <1>5, <1>8 DEF InspectInv

\* Nothing has happened to the views.
LEMMA SameViewsStay ==
  ASSUME Formed, UNCHANGED views
  PROVE  SameViews
BY DEF Formed, SameViews, ViewsFormed

\* What the user posts to the wx thread.
LEMMA QuietPosts ==
  ASSUME InspectInv, NEW p, IsSeq(p), Posted(p), wx' = wx \o p,
         UNCHANGED <<prog, now, listening, tick, level, front, stack, hover, juce>>, SameViews
  PROVE  InspectInv'
<1>0. Formed
  BY DEF InspectInv
<1>1. Moved(wx, 0, p, wx')
  BY <1>0, PostedMoves DEF Formed
<1>2. Moved(juce, 0, << >>, juce') /\ \A i \in DOMAIN << >> : FALSE
  <2>1. Moved(juce, 0, << >>, juce')
    BY <1>0, NothingMoves DEF Formed
  <2> QED  BY <2>1
<1>3. Quiet(0, p, 0, << >>)
  BY <1>0, <1>1, <1>2 DEF Quiet, Formed
<1> QED  BY <1>3, QuietKeeps

\* Nothing is posted.
LEMMA QuietStays ==
  ASSUME InspectInv, UNCHANGED <<prog, now, listening, tick, level, front, stack, views, wx, juce>>,
         hover' = [cache |-> hover.cache, asked |-> hover'.asked, tick |-> hover.tick, tip |-> hover'.tip]
  PROVE  InspectInv'
<1>0. Formed
  BY DEF InspectInv
<1>1. Moved(wx, 0, << >>, wx') /\ Moved(juce, 0, << >>, juce')
  BY <1>0, NothingMoves DEF Formed
<1>2. \A i \in DOMAIN << >> : FALSE
  OBVIOUS
<1>3. SameViews
  BY <1>0, SameViewsStay
<1>4. Quiet(0, << >>, 0, << >>)
  BY <1>0, <1>1, <1>2, <1>3 DEF Quiet, Formed, Posted
<1> QED  BY <1>4, QuietKeeps

-----------------------------------------------------------------------------
(* The user.                                                                *)

\* One event of those is posted.
LEMMA PostsOne ==
  ASSUME NEW e, WxOk(e), e.do \in {"reload", "jreload", "memory", "jmemory", "redraw"}
  PROVE  IsSeq(<<e>>) /\ Posted(<<e>>)
<1>1. IsSeq(<<e>>) /\ Len(<<e>>) = 1 /\ << e >>[1] = e
  BY OneIs
<1>2. DOMAIN <<e>> = 1..Len(<<e>>)
  BY <1>1, SeqHas
<1>3. ASSUME NEW i \in DOMAIN <<e>> PROVE << e >>[i] = e
  <2>1. i = 1
    BY <1>1, <1>2
  <2> QED  BY <1>1, <2>1
<1> QED  BY <1>1, <1>3 DEF Posted

\* Appended to what waits in the wx thread.
LEMMA QuietAppends ==
  ASSUME InspectInv, NEW e, WxOk(e), e.do \in {"reload", "jreload", "memory", "jmemory", "redraw"},
         wx' = Append(wx, e),
         UNCHANGED <<prog, now, listening, tick, level, front, stack, hover, juce>>, SameViews
  PROVE  InspectInv'
<1>1. wx' = wx \o <<e>>
  BY AppendIs DEF InspectInv, Formed
<1>2. IsSeq(<<e>>) /\ Posted(<<e>>)
  BY PostsOne
<1> QED  BY <1>1, <1>2, QuietPosts

\* DoReload() posts a request if a program is stopped.
LEMMA DoReloadIs ==
  ASSUME NEW v
  PROVE  IsSeq(DoReload(v)) /\ Posted(DoReload(v))
<1>1. CASE listening
  <2>1. WxOk(Event("reload", v)) /\ Event("reload", v).do = "reload"
    BY DEF WxOk, Event
  <2>2. IsSeq(<<Event("reload", v)>>) /\ Posted(<<Event("reload", v)>>)
    BY <2>1, PostsOne
  <2> QED  BY <1>1, <2>2 DEF DoReload
<1>2. CASE ~listening
  <2>1. IsSeq(<< >>) /\ Posted(<< >>)
    <3>1. << >> \in Seq({})
      OBVIOUS
    <3>2. \A i \in DOMAIN << >> : FALSE
      OBVIOUS
    <3> QED  BY <3>1, <3>2, SeqIs DEF Posted
  <2> QED  BY <1>2, <2>1 DEF DoReload
<1> QED  BY <1>1, <1>2

\* Other tables of a view are expanded.
LEMMA SameViewsExpand ==
  ASSUME Formed, NEW v \in Views, NEW x, views' = [views EXCEPT ![v].expanded = x]
  PROVE  SameViews
<1>1. views' = [u \in Views |-> IF u = v THEN [views[v] EXCEPT !.expanded = x] ELSE views[u]]
  BY DEF Formed, ViewsFormed
<1>2. views[v] = [rows |-> views[v].rows, from |-> views[v].from, level |-> views[v].level,
                  expanded |-> views[v].expanded, last |-> views[v].last, auto |-> views[v].auto]
  BY DEF Formed, ViewsFormed
<1>3. [views[v] EXCEPT !.expanded = x]
        = [rows |-> views[v].rows, from |-> views[v].from, level |-> views[v].level,
           expanded |-> x, last |-> views[v].last, auto |-> views[v].auto]
  BY <1>2
<1> QED  BY <1>1, <1>3 DEF Formed, SameViews, ViewsFormed

\* A table is expanded or collapsed.
LEMMA ToggleTableKeeps ==
  ASSUME InspectInv, NEW v, NEW i, ToggleTable(v, i)
  PROVE  InspectInv'
<1>1. SameViews
  <2>1. v \in Views /\ Formed
    BY DEF ToggleTable, InspectInv, Views
  <2>2. \E x : views' = [views EXCEPT ![v].expanded = x]
    BY DEF ToggleTable
  <2> QED  BY <2>1, <2>2, SameViewsExpand
<1>2. IsSeq(DoReload(v)) /\ Posted(DoReload(v))
  BY DoReloadIs
<1> QED  BY <1>1, <1>2, QuietPosts DEF ToggleTable, daemon, user, aside

\* All tables are collapsed.
LEMMA CollapseAllKeeps ==
  ASSUME InspectInv, NEW v, CollapseAll(v)
  PROVE  InspectInv'
<1>1. SameViews
  <2>1. v \in Views /\ Formed /\ views' = [views EXCEPT ![v].expanded = {}]
    BY DEF CollapseAll, InspectInv, Views
  <2> QED  BY <2>1, SameViewsExpand
<1>2. IsSeq(DoReload(v)) /\ Posted(DoReload(v))
  BY DoReloadIs
<1> QED  BY <1>1, <1>2, QuietPosts DEF CollapseAll, daemon, user, aside

\* The button of the sorting is pressed.
LEMMA AutoButtonKeeps ==
  ASSUME InspectInv, NEW v, OnAutoButtonToggled(v)
  PROVE  InspectInv'
<1>1. SameViews
  BY DEF OnAutoButtonToggled, InspectInv, Formed, SameViews, ViewsFormed
<1>2. IsSeq(DoReload(v)) /\ Posted(DoReload(v))
  BY DoReloadIs
<1> QED  BY <1>1, <1>2, QuietPosts DEF OnAutoButtonToggled, daemon, user, aside

\* A button of a type is pressed.
LEMMA VarToggleKeeps ==
  ASSUME InspectInv, NEW v, NEW t, OnVarToggleButton(v, t)
  PROVE  InspectInv'
<1>1. SameViews
  BY SameViewsStay DEF OnVarToggleButton, InspectInv
<1>2. IsSeq(DoReload(v)) /\ Posted(DoReload(v))
  BY DoReloadIs
<1> QED  BY <1>1, <1>2, QuietPosts DEF OnVarToggleButton, daemon, user, aside

\* A table is toggled in the other thread.
LEMMA JuceToggleKeeps ==
  ASSUME InspectInv, NEW i, JuceToggle(i)
  PROVE  InspectInv'
<1>1. SameViews
  BY SameViewsStay DEF JuceToggle, InspectInv, daemon, user, aside
<1>2. \E x : wx' = Append(wx, [do |-> "jreload", view |-> "jlocals", expanded |-> x])
  BY DEF JuceToggle
<1>3. PICK x : wx' = Append(wx, [do |-> "jreload", view |-> "jlocals", expanded |-> x])
  BY <1>2
<1>4. WxOk([do |-> "jreload", view |-> "jlocals", expanded |-> x])
  BY DEF WxOk
<1> QED  BY <1>1, <1>3, <1>4, QuietAppends DEF JuceToggle, daemon, user, aside

\* A watch is about to be edited.
LEMMA BeginEditKeeps ==
  ASSUME InspectInv, NEW i, BeginEdit(i)
  PROVE  InspectInv'
<1>1. hover' = [cache |-> hover.cache, asked |-> hover'.asked, tick |-> hover.tick, tip |-> hover'.tip]
  BY DEF BeginEdit, InspectInv, Formed
<1> QED  BY <1>1, QuietStays DEF BeginEdit, daemon, user

\* A watch was edited.
LEMMA EndEditKeeps ==
  ASSUME InspectInv, NEW word, EndEdit(word)
  PROVE  InspectInv'
<1>1. CASE wx' = wx \o DoReload("watches")
  <2>1. SameViews
    BY SameViewsStay DEF EndEdit, InspectInv
  <2>2. IsSeq(DoReload("watches")) /\ Posted(DoReload("watches"))
    BY DoReloadIs
  <2> QED  BY <1>1, <2>1, <2>2, QuietPosts DEF EndEdit, daemon
<1>2. CASE UNCHANGED wx
  <2>1. hover' = [cache |-> hover.cache, asked |-> hover'.asked, tick |-> hover.tick, tip |-> hover'.tip]
    BY DEF EndEdit, InspectInv, Formed
  <2> QED  BY <1>2, <2>1, QuietStays DEF EndEdit, daemon
<1> QED  BY <1>1, <1>2 DEF EndEdit

\* The right button is pressed on a row.
LEMMA RightDownKeeps ==
  ASSUME InspectInv, NEW i, OnRightDown(i)
  PROVE  InspectInv'
<1>1. hover' = [cache |-> hover.cache, asked |-> hover'.asked, tick |-> hover.tick, tip |-> hover'.tip]
  BY DEF OnRightDown, InspectInv, Formed, aside
<1> QED  BY <1>1, QuietStays DEF OnRightDown, daemon, aside

\* A row is to be shown in the memory view.
LEMMA ShowMemoryKeeps ==
  ASSUME InspectInv, NEW v, NEW i, ShowMemory(v, i)
  PROVE  InspectInv'
<1>0. "memory" \in Panes
  BY DEF ShowMemory
<1>1. SameViews
  BY SameViewsStay DEF ShowMemory, InspectInv
<1> DEFINE R == views[v].rows[i]
<1>2. CASE wx' = Append(wx, [do |-> "jmemory", view |-> v, row |-> R])
  <2> HIDE DEF R
  <2>1. WxOk([do |-> "jmemory", view |-> v, row |-> R])
    BY <1>0 DEF WxOk
  <2> QED  BY <1>1, <1>2, <2>1, QuietAppends DEF ShowMemory, daemon, user, aside
<1>3. CASE wx' = Append(wx, [do |-> "memory", view |-> v, row |-> R])
  <2> HIDE DEF R
  <2>1. WxOk([do |-> "memory", view |-> v, row |-> R])
    BY <1>0 DEF WxOk
  <2> QED  BY <1>1, <1>3, <2>1, QuietAppends DEF ShowMemory, daemon, user, aside
<1> QED  BY <1>2, <1>3 DEF ShowMemory, SetMemoryWatch

\* The tip goes away.
LEMMA CancelTipKeeps ==
  ASSUME InspectInv, CancelToolTip
  PROVE  InspectInv'
<1>1. hover' = [cache |-> hover.cache, asked |-> hover'.asked, tick |-> hover.tick, tip |-> hover'.tip]
  BY DEF CancelToolTip, InspectInv, Formed
<1> QED  BY <1>1, QuietStays DEF CancelToolTip, daemon, user

\* The memory view is told to draw again.
LEMMA RefreshMemoryKeeps ==
  ASSUME InspectInv, OnRefreshMemoryView
  PROVE  InspectInv'
<1>1. hover' = [cache |-> hover.cache, asked |-> hover'.asked, tick |-> hover.tick, tip |-> hover'.tip]
  BY DEF OnRefreshMemoryView, InspectInv, Formed
<1> QED  BY <1>1, QuietStays DEF OnRefreshMemoryView, daemon, user

\* The width of a line of the dump is changed.
LEMMA SpinKeeps ==
  ASSUME InspectInv, NEW k, OnSpinRangeEvent(k)
  PROVE  InspectInv'
<1>1. SameViews
  BY SameViewsStay DEF OnSpinRangeEvent, InspectInv
<1>2. WxOk(Event("redraw", "memory")) /\ Event("redraw", "memory").do = "redraw"
  BY DEF WxOk, Event
<1> QED  BY <1>1, <1>2, QuietAppends DEF OnSpinRangeEvent, daemon, user

\* The memory view is resized.
LEMMA ResizeKeeps ==
  ASSUME InspectInv, NEW w, OnResizeEvent(w)
  PROVE  InspectInv'
<1>1. SameViews
  BY SameViewsStay DEF OnResizeEvent, InspectInv
<1>2. WxOk(Event("redraw", "memory")) /\ Event("redraw", "memory").do = "redraw"
  BY DEF WxOk, Event
<1> QED  BY <1>1, <1>2, QuietAppends DEF OnResizeEvent, daemon, user

\* A cell of the other thread is painted.
LEMMA PaintCellKeeps ==
  ASSUME InspectInv, paintCell
  PROVE  InspectInv'
<1>1. hover' = [cache |-> hover.cache, asked |-> hover'.asked, tick |-> hover.tick, tip |-> hover'.tip]
  BY DEF paintCell, InspectInv, Formed, aside
<1> QED  BY <1>1, QuietStays DEF paintCell, daemon, user, aside

\* Panes are told to reload: those that come to the front, and of another level all.
LEMMA ReloadsKeep ==
  ASSUME InspectInv, NEW ps, ps \subseteq Views \cup {"stack", "memory"}, Signal("reload", ps),
         UNCHANGED <<prog, now, listening, tick, stack, views, hover>>,
         front' \subseteq Panes, front' \subseteq front \cup ps, level' = level \/ front' \subseteq ps
  PROVE  InspectInv'
<1>0. Formed /\ Told /\ Showing /\ Hovering
  BY DEF InspectInv
<1> DEFINE p == ToWx("reload", ps)
<1> DEFINE r == ToJuce("reload", ps)
<1>1. /\ IsSeq(p) /\ IsSeq(r)
      /\ \A i \in DOMAIN p : \E q \in ps \cap (WxViews \cup {"stack"}) : p[i] = Event("reload", q)
      /\ \A i \in DOMAIN r : r[i] = Event("reload", "jlocals")
      /\ \A q \in ps \cap (WxViews \cup {"stack"}) : Has(p, "reload", q)
      /\ "jlocals" \in ps => Has(r, "reload", "jlocals")
  BY SignalIs
<1>2. wx' = wx \o p /\ juce' = juce \o r
  BY DEF Signal
<1> HIDE DEF p, r
<1>3. Moved(wx, 0, p, wx') /\ Moved(juce, 0, r, juce')
  BY <1>0, <1>1, <1>2, PostedMoves DEF Formed
<1>4. \A i \in DOMAIN p : WxOk(p[i]) /\ p[i].do = "reload"
  BY <1>1 DEF WxOk, Event
<1>5. \A i \in DOMAIN r : r[i].view = "jlocals" /\ r[i].do = "reload"
  BY <1>1 DEF Event
<1>6. Formed'
  <2>1. /\ IsSeq(wx') /\ IsSeq(juce')
        /\ \A i \in DOMAIN wx' : WxOk(wx'[i])
        /\ \A i \in DOMAIN juce' : juce'[i].view = "jlocals"
    BY <1>0, <1>3, <1>4, <1>5, FormMoved
  <2> QED  BY <1>0, <2>1 DEF Formed, ViewsFormed
<1>7. Told'
  BY <1>0, <1>3, <1>4, ToldKept
<1>8. Hovering'
  BY <1>0, <1>3, <1>4, HoveringKept
<1>9. ASSUME listening', NEW v \in front' \cap Views
      PROVE  Coming(wx', juce', views'[v], v, now', level')
  <2>1. CASE v \in ps
    <3>1. Has(p, "reload", v) \/ (v = "jlocals" /\ Has(r, "reload", v))
      BY <1>1, <1>9, <2>1 DEF Views
    <3>2. Has(wx', "reload", v) \/ Has(juce', "reload", v)
      BY <1>3, <3>1, HasPosted
    <3> QED  BY <3>2 DEF Coming, Asking
  <2>2. CASE v \notin ps
    <3>1. v \in front \cap Views /\ level' = level
      BY <1>9, <2>2
    <3>2. Coming(wx, juce, views[v], v, now, level)
      BY <1>0, <1>9, <3>1 DEF Showing
    <3>3. Idle(wx, 0, v) /\ Idle(juce, 0, v)
      BY DEF Idle
    <3>4. None(p, {"reply", "list", "clear"}, v) /\ None(r, Lists, v)
      BY <1>4, <1>5 DEF None, Lists
    <3>5. Coming(wx', juce', views[v], v, now, level)
      BY <1>3, <3>2, <3>3, <3>4, ComingKept
    <3> QED  BY <3>1, <3>5
  <2> QED  BY <2>1, <2>2
<1>10. ASSUME listening', "stack" \in front'
       PROVE  Has(wx', "reload", "stack") \/ stack'.rows = Traced(ToClientStack(prog))'
  <2>1. CASE "stack" \in ps
    <3>1. Has(p, "reload", "stack")
      BY <1>1, <2>1
    <3> QED  BY <1>3, <3>1, HasPosted
  <2>2. CASE "stack" \notin ps
    <3>1. "stack" \in front /\ level' = level
      BY <1>10, <2>2
    <3>2. Has(wx, "reload", "stack") \/ stack.rows = Traced(ToClientStack(prog))
      BY <1>0, <1>10, <3>1 DEF Showing
    <3>3. CASE Has(wx, "reload", "stack")
      BY <1>3, <3>3, HasMoved
    <3>4. CASE stack.rows = Traced(ToClientStack(prog))
      BY <3>1, <3>4 DEF Traced
    <3> QED  BY <3>2, <3>3, <3>4
  <2> QED  BY <2>1, <2>2
<1>11. Showing'
  BY <1>9, <1>10 DEF Showing
<1> QED  BY <1>6, <1>7, <1>8, <1>11 DEF InspectInv

\* Another page comes to the front.
LEMMA SelectPaneKeeps ==
  ASSUME InspectInv, NEW p \in Panes, SelectPane(p)
  PROVE  InspectInv'
<1>1. {p} \subseteq Views \cup {"stack", "memory"}
  BY PanesAssumption
<1>2. front' \subseteq Panes /\ front' \subseteq front \cup {p}
  BY DEF SelectPane, InspectInv, Formed
<1> QED  BY <1>1, <1>2, ReloadsKeep DEF SelectPane, OnChildPageEmerged, aside, daemon

\* The mouse hovers a variable.
LEMMA ShowVarPathsKeeps ==
  ASSUME InspectInv, OnShowVarPaths
  PROVE  InspectInv'
<1>1. Views \cap Panes \subseteq Views \cup {"stack", "memory"}
  OBVIOUS
<1>2. front' = front /\ front \subseteq Panes
  BY DEF OnShowVarPaths, InspectInv, Formed, user
<1> QED  BY <1>1, <1>2, ReloadsKeep DEF OnShowVarPaths, ResetColumns, daemon, aside

\* A level of the stack is chosen.
LEMMA ItemActivatedKeeps ==
  ASSUME InspectInv, NEW i, OnItemActivated(i)
  PROVE  InspectInv'
<1>0. Formed
  BY DEF InspectInv
<1>1. front' = front /\ front \subseteq Panes /\ front \subseteq Views \cup {"stack", "memory"}
  BY <1>0, PanesAssumption DEF OnItemActivated, Formed, user
<1>2. CASE Signal("reload", ShownPages)
  BY <1>1, <1>2, ReloadsKeep DEF OnItemActivated, ShownPages, daemon, aside
<1>3. CASE UNCHANGED <<level, wx, juce>>
  <2>1. hover' = [cache |-> hover.cache, asked |-> hover'.asked, tick |-> hover.tick, tip |-> hover'.tip]
    BY <1>0 DEF OnItemActivated, Formed, aside
  <2> QED  BY <1>1, <1>3, <2>1, QuietStays DEF OnItemActivated, daemon, aside
<1> QED  BY <1>2, <1>3 DEF OnItemActivated

\* A view is answered, or no one listens.
LEMMA AnswersKeep ==
  ASSUME InspectInv, NEW d, NEW p, Moved(wx, d, p, wx'), NEW v \in Views,
         UNCHANGED <<prog, now, listening, tick, level, front, stack, views, hover, juce>>,
         d = 1 => wx[1].do \in {"reload", "jreload"} /\ wx[1].view = v,
         (p = << >> /\ ~listening) \/ \E rows : p = <<Answer("reply", v, rows)>>
  PROVE  InspectInv'
<1>0. Formed /\ Told /\ Showing /\ Hovering
  BY DEF InspectInv
<1>1. Moved(juce, 0, << >>, juce') /\ \A i \in DOMAIN << >> : FALSE
  <2>1. Moved(juce, 0, << >>, juce')
    BY <1>0, NothingMoves DEF Formed
  <2> QED  BY <2>1
<1>2. ASSUME NEW rows, p = <<Answer("reply", v, rows)>>
      PROVE  /\ DOMAIN p = {1} /\ p[1].do = "reply" /\ p[1].view = v /\ WxOk(p[1])
             /\ Fresh(p[1], now, level)
  <2> DEFINE e == Answer("reply", v, rows)
  <2>1. e.do = "reply" /\ e.view = v /\ WxOk(e) /\ Fresh(e, now, level)
    BY DEF WxOk, Fresh, Answer, Views
  <2> HIDE DEF e
  <2>2. Len(<<e>>) = 1 /\ << e >>[1] = e /\ DOMAIN <<e>> = 1..Len(<<e>>)
    BY OneIs, SeqHas
  <2>3. p = <<e>>
    BY <1>2 DEF e
  <2> QED  BY <2>1, <2>2, <2>3
<1>3. \A i \in DOMAIN p : WxOk(p[i]) /\ p[i].do = "reply" /\ p[i].view = v
  BY <1>1, <1>2
<1>4. Formed'
  <2>1. /\ IsSeq(wx') /\ IsSeq(juce')
        /\ \A i \in DOMAIN wx' : WxOk(wx'[i])
        /\ \A i \in DOMAIN juce' : juce'[i].view = "jlocals"
    BY <1>0, <1>1, <1>3, FormMoved
  <2> QED  BY <1>0, <2>1 DEF Formed, ViewsFormed
<1>5. Told'
  BY <1>0, <1>3, ToldKept
<1>6. Hovering'
  BY <1>0, <1>3, HoveringKept
<1>7. ASSUME listening', NEW u \in front' \cap Views
      PROVE  Coming(wx', juce', views'[u], u, now', level')
  <2>1. CASE u = v
    <3>1. LastAt(p, {"reply"}, v, 1) /\ Fresh(p[1], now, level)
      BY <1>2, <1>7 DEF LastAt
    <3>2. Coming(wx', juce', views[v], v, now, level)
      BY <3>1, ComingAsked
    <3> QED  BY <2>1, <3>2
  <2>2. CASE u # v
    <3>1. Coming(wx, juce, views[u], u, now, level)
      BY <1>0, <1>7 DEF Showing
    <3>2. Idle(wx, d, u) /\ Idle(juce, 0, u)
      BY <2>2 DEF Idle
    <3>3. None(p, {"reply", "list", "clear"}, u) /\ None(<< >>, Lists, u)
      BY <1>1, <1>3, <2>2 DEF None
    <3>4. Coming(wx', juce', views[u], u, now, level)
      BY <1>1, <3>1, <3>2, <3>3, ComingKept
    <3> QED  BY <3>4
  <2> QED  BY <2>1, <2>2
<1>8. ASSUME listening', "stack" \in front'
      PROVE  Has(wx', "reload", "stack") \/ stack'.rows = Traced(ToClientStack(prog))'
  <2>1. Has(wx, "reload", "stack") \/ stack.rows = Traced(ToClientStack(prog))
    BY <1>0, <1>8 DEF Showing
  <2>2. CASE Has(wx, "reload", "stack")
    <3>1. d = 1 => ~(wx[1].do = "reload" /\ wx[1].view = "stack")
      BY DEF Views, WxViews
    <3> QED  BY <2>2, <3>1, HasMoved
  <2>3. CASE stack.rows = Traced(ToClientStack(prog))
    BY <2>3 DEF Traced
  <2> QED  BY <2>1, <2>2, <2>3
<1>9. Showing'
  BY <1>7, <1>8 DEF Showing
<1> QED  BY <1>4, <1>5, <1>6, <1>9 DEF InspectInv

\* A watch is deleted.
LEMMA ListItemDeleteKeeps ==
  ASSUME InspectInv, NEW i, OnListItemDelete(i)
  PROVE  InspectInv'
<1>0. Formed /\ Told /\ "watches" \in Views
  BY DEF InspectInv, Views, WxViews
<1>1. CASE listening /\ Stopped
  <2>1. \E rows : wx' = wx \o <<Answer("reply", "watches", rows)>>
    BY <1>1 DEF OnListItemDelete
  <2>2. PICK rows : wx' = wx \o <<Answer("reply", "watches", rows)>>
    BY <2>1
  <2> DEFINE p == <<Answer("reply", "watches", rows)>>
  <2>3. IsSeq(p)
    BY OneIs
  <2>4. (p = << >> /\ ~listening) \/ \E x : p = <<Answer("reply", "watches", x)>>
    OBVIOUS
  <2> HIDE DEF p
  <2>5. Moved(wx, 0, p, wx')
    BY <1>0, <2>2, <2>3, PostedMoves DEF Formed, p
  <2>6. UNCHANGED <<prog, now, listening, tick, level, front, stack, views, hover, juce>>
    BY DEF OnListItemDelete, daemon, aside
  <2> QED  BY <1>0, <2>4, <2>5, <2>6, AnswersKeep
<1>2. CASE ~(listening /\ Stopped)
  <2>1. wx' = wx \o << >> /\ ~listening
    BY <1>0, <1>2 DEF OnListItemDelete, Told
  <2>2. IsSeq(<< >>)
    <3>1. << >> \in Seq({})
      OBVIOUS
    <3> QED  BY <3>1, SeqIs
  <2>3. Moved(wx, 0, << >>, wx')
    BY <1>0, <2>1, <2>2, PostedMoves DEF Formed
  <2> QED  BY <1>0, <2>1, <2>3, AnswersKeep DEF OnListItemDelete, daemon, aside
<1> QED  BY <1>1, <1>2

\* The rows of the call stack stay, or are listed anew.
LEMMA StackKept ==
  ASSUME NEW d, NEW p, Moved(wx, d, p, wx'), UNCHANGED <<prog, level>>, stack'.rows = stack.rows,
         d = 1 => ~(wx[1].do = "reload" /\ wx[1].view = "stack"),
         Has(wx, "reload", "stack") \/ stack.rows = Traced(ToClientStack(prog))
  PROVE  Has(wx', "reload", "stack") \/ stack'.rows = Traced(ToClientStack(prog))'
<1>1. CASE Has(wx, "reload", "stack")
  BY <1>1, HasMoved
<1>2. CASE stack.rows = Traced(ToClientStack(prog))
  BY <1>2 DEF Traced
<1> QED  BY <1>1, <1>2

\* A step that tells nothing about the pause: it is enough to follow the views.
LEMMA CalmKeeps ==
  ASSUME InspectInv, NEW d, NEW p, NEW c, NEW r, Moved(wx, d, p, wx'), Moved(juce, c, r, juce'),
         UNCHANGED <<prog, now, listening, tick, level, front, stack, hover>>, ViewsFormed',
         \A i \in DOMAIN p : WxOk(p[i]) /\ p[i].do \notin {"suspended", "clear", "solved"},
         \A i \in DOMAIN r : r[i].view = "jlocals",
         d = 1 => ~(wx[1].do = "reload" /\ wx[1].view = "stack"),
         \A v \in Views : Coming(wx, juce, views[v], v, now, level)
                            => Coming(wx', juce', views'[v], v, now, level)
  PROVE  InspectInv'
<1>0. Formed /\ Told /\ Showing /\ Hovering
  BY DEF InspectInv
<1>1. Formed'
  <2>1. /\ IsSeq(wx') /\ IsSeq(juce')
        /\ \A i \in DOMAIN wx' : WxOk(wx'[i])
        /\ \A i \in DOMAIN juce' : juce'[i].view = "jlocals"
    BY <1>0, FormMoved
  <2> QED  BY <1>0, <2>1 DEF Formed
<1>2. Told'
  BY <1>0, ToldKept
<1>3. Hovering'
  BY <1>0, HoveringKept
<1>4. ASSUME listening', NEW v \in front' \cap Views
      PROVE  Coming(wx', juce', views'[v], v, now', level')
  <2>1. Coming(wx, juce, views[v], v, now, level)
    BY <1>0, <1>4 DEF Showing
  <2> QED  BY <2>1
<1>5. ASSUME listening', "stack" \in front'
      PROVE  Has(wx', "reload", "stack") \/ stack'.rows = Traced(ToClientStack(prog))'
  BY <1>0, <1>5, StackKept DEF Showing
<1>6. Showing'
  BY <1>4, <1>5 DEF Showing
<1> QED  BY <1>1, <1>2, <1>3, <1>6 DEF InspectInv

\* The mouse is over a word.
LEMMA MouseMoveKeeps ==
  ASSUME InspectInv, NEW i, OnMouseMove(i)
  PROVE  InspectInv'
<1>0. Formed /\ Told /\ Showing /\ Hovering /\ listening
  BY DEF InspectInv, OnMouseMove, CanQueryDaemon
<1> DEFINE word  == GetToolTipWord[i]
<1> DEFINE old   == hover.tick # tick
<1> DEFINE cache == IF old THEN << >> ELSE hover.cache
<1>1. \E asked, tip : hover' = [cache |-> cache, asked |-> asked, tick |-> tick, tip |-> tip]
  BY DEF OnMouseMove
<1>2. \E p : /\ Moved(wx, 0, p, wx')
             /\ p = << >> \/ \E rows : p = <<Answer("solved", "", rows)>>
  <2>1. CASE UNCHANGED wx
    BY <1>0, <2>1, NothingMoves DEF Formed
  <2>2. CASE ~UNCHANGED wx
    <3>1. \E a \in BOOLEAN : wx' = wx \o (IF a THEN << >> ELSE Solved(word))
      BY <2>2 DEF OnMouseMove
    <3>2. IsSeq(<< >>)
      <4>1. << >> \in Seq({})
        OBVIOUS
      <4> QED  BY <4>1, SeqIs
    <3>3. CASE wx' = wx \o << >>
      BY <1>0, <3>2, <3>3, PostedMoves DEF Formed
    <3>4. CASE wx' = wx \o Solved(word)
      <4>1. \E rows : Solved(word) = <<Answer("solved", "", rows)>>
        BY DEF Solved
      <4>2. PICK rows : Solved(word) = <<Answer("solved", "", rows)>>
        BY <4>1
      <4>3. IsSeq(Solved(word))
        BY <4>2, OneIs
      <4> HIDE DEF word
      <4> QED  BY <1>0, <3>4, <4>2, <4>3, PostedMoves DEF Formed
    <3> QED  BY <3>1, <3>3, <3>4
  <2> QED  BY <2>1, <2>2
<1>3. PICK p : /\ Moved(wx, 0, p, wx')
               /\ p = << >> \/ \E rows : p = <<Answer("solved", "", rows)>>
  BY <1>2
<1>4. \A k \in DOMAIN p : WxOk(p[k]) /\ p[k].do = "solved" /\ p[k].from = now
  <2>1. CASE p = << >>
    BY <2>1
  <2>2. ASSUME NEW rows, p = <<Answer("solved", "", rows)>>
        PROVE  \A k \in DOMAIN p : WxOk(p[k]) /\ p[k].do = "solved" /\ p[k].from = now
    <3> DEFINE e == Answer("solved", "", rows)
    <3>1. WxOk(e) /\ e.do = "solved" /\ e.from = now
      BY DEF WxOk, Answer
    <3>2. p = <<e>>
      BY <2>2
    <3> HIDE DEF e
    <3>3. Len(<<e>>) = 1 /\ << e >>[1] = e /\ DOMAIN <<e>> = 1..Len(<<e>>)
      BY OneIs, SeqHas
    <3>4. \A k \in DOMAIN p : p[k] = e
      BY <3>2, <3>3
    <3> QED  BY <3>1, <3>4
  <2> QED  BY <1>3, <2>1, <2>2
<1>5. Moved(juce, 0, << >>, juce') /\ \A k \in DOMAIN << >> : FALSE
  <2>1. juce' = juce
    BY DEF OnMouseMove
  <2>2. Moved(juce, 0, << >>, juce')
    BY <1>0, <2>1, NothingMoves DEF Formed
  <2> QED  BY <2>2
<1>6. PICK asked, tip : hover' = [cache |-> cache, asked |-> asked, tick |-> tick, tip |-> tip]
  BY <1>1
<1>7. UNCHANGED <<prog, now, listening, tick, level, front, stack, views>>
  BY DEF OnMouseMove, daemon, user
<1>8. hover'.cache = cache /\ hover'.tick = tick
  BY <1>6
<1>9. Formed'
  <2>1. /\ IsSeq(wx') /\ IsSeq(juce')
        /\ \A k \in DOMAIN wx' : WxOk(wx'[k])
        /\ \A k \in DOMAIN juce' : juce'[k].view = "jlocals"
    BY <1>0, <1>3, <1>4, <1>5, FormMoved
  <2>2. hover' = [cache |-> hover'.cache, asked |-> hover'.asked, tick |-> hover'.tick, tip |-> hover'.tip]
    BY <1>6
  <2>3. tick \in Nat /\ tick \in Int
    BY <1>0 DEF Formed
  <2> QED  BY <1>0, <1>7, <1>8, <2>1, <2>2, <2>3 DEF Formed, ViewsFormed
<1>10. Told'
  BY <1>0, <1>3, <1>4, <1>7, ToldKept
<1>11. Hovering'
  <2>1. ASSUME NEW w \in DOMAIN hover'.cache
        PROVE  Kept(hover'.cache[w].from, hover'.tick, tick', listening', now')
    <3>1. CASE old
      <4>1. hover'.cache = << >> /\ DOMAIN << >> = {}
        BY <1>8, <3>1
      <4> QED  BY <2>1, <4>1
    <3>2. CASE ~old
      <4>1. hover'.cache = hover.cache /\ hover'.tick = hover.tick
        BY <1>8, <3>2
      <4> QED  BY <1>0, <1>7, <2>1, <4>1 DEF Hovering
    <3> QED  BY <3>1, <3>2
  <2>2. ASSUME NEW m \in DOMAIN wx', wx'[m].do = "solved"
        PROVE  Arriving(wx'[m].from, hover'.tick, tick', listening', now')
    <3>1. CASE \E l \in DOMAIN wx : l > 0 /\ wx'[m] = wx[l]
      <4>1. Arriving(wx'[m].from, hover.tick, tick, listening, now)
        BY <1>0, <2>2, <3>1 DEF Hovering
      <4>2. tick \in Nat
        BY <1>0 DEF Formed
      <4> QED  BY <1>0, <1>7, <1>8, <4>1, <4>2 DEF Arriving
    <3>2. CASE \E l \in DOMAIN p : wx'[m] = p[l]
      <4>1. wx'[m].from = now
        BY <1>4, <3>2
      <4>2. tick \in Nat /\ now.breaks \in Nat
        BY <1>0 DEF Formed
      <4> QED  BY <1>0, <1>7, <1>8, <4>1, <4>2 DEF Arriving
    <3>3. (\E l \in DOMAIN wx : l > 0 /\ wx'[m] = wx[l]) \/ \E l \in DOMAIN p : wx'[m] = p[l]
      <4>1. Moved(wx, 0, p, wx')
        BY <1>3
      <4>2. m \in DOMAIN wx'
        BY <2>2
      <4> HIDE DEF old, cache
      <4> QED  BY ONLY <4>1, <4>2, MovedBack
    <3> QED  BY <3>1, <3>2, <3>3
  <2> QED  BY <2>1, <2>2 DEF Hovering
<1>12. ASSUME NEW v \in front' \cap Views
       PROVE  Coming(wx', juce', views'[v], v, now', level')
  <2>1. Coming(wx, juce, views[v], v, now, level)
    BY <1>0, <1>7, <1>12 DEF Showing
  <2>2. Idle(wx, 0, v) /\ Idle(juce, 0, v)
    BY DEF Idle
  <2>3. None(p, {"reply", "list", "clear"}, v) /\ None(<< >>, Lists, v)
    BY <1>4, <1>5 DEF None
  <2>4. Coming(wx', juce', views[v], v, now, level)
    BY <1>3, <1>5, <2>1, <2>2, <2>3, ComingKept
  <2> QED  BY <1>7, <2>4
<1>13. ASSUME "stack" \in front'
       PROVE  Has(wx', "reload", "stack") \/ stack'.rows = Traced(ToClientStack(prog))'
  <2>1. Has(wx, "reload", "stack") \/ stack.rows = Traced(ToClientStack(prog))
    BY <1>0, <1>7, <1>13 DEF Showing
  <2>2. UNCHANGED <<prog, level>> /\ stack'.rows = stack.rows
    BY <1>7
  <2>3. Moved(wx, 0, p, wx')
    BY <1>3
  <2> HIDE DEF cache
  <2> QED  BY <2>1, <2>2, <2>3, StackKept
<1>14. Showing'
  BY <1>12, <1>13 DEF Showing
<1> QED  BY <1>9, <1>10, <1>11, <1>14 DEF InspectInv

-----------------------------------------------------------------------------
(* Events handled.                                                          *)

\* The head is taken from a queue.
LEMMA HandledIs ==
  ASSUME Formed, wx # << >>, NEW p, IsSeq(p), Handled(p)
  PROVE  Moved(wx, 1, p, wx')
BY HandledMoves DEF Formed, Handled

\* The first entry of a queue.
LEMMA HeadIs ==
  ASSUME Formed
  PROVE  /\ wx # << >> => 1 \in DOMAIN wx /\ Head(wx) = wx[1] /\ WxOk(wx[1])
         /\ juce # << >> => 1 \in DOMAIN juce /\ Head(juce) = juce[1] /\ juce[1].view = "jlocals"
<1>1. ASSUME wx # << >> PROVE 1 \in DOMAIN wx /\ Head(wx) = wx[1] /\ WxOk(wx[1])
  <2>1. IsSeq(wx)
    BY DEF Formed
  <2>2. Len(wx) \in Nat /\ DOMAIN wx = 1..Len(wx) /\ Len(wx) # 0
    BY <1>1, <2>1, SeqHas
  <2>3. 1 \in DOMAIN wx
    BY <2>2
  <2>4. Head(wx) = wx[1]
    BY <1>1, <2>1, TailIs
  <2> QED  BY <2>3, <2>4 DEF Formed
<1>2. ASSUME juce # << >> PROVE 1 \in DOMAIN juce /\ Head(juce) = juce[1] /\ juce[1].view = "jlocals"
  <2>1. IsSeq(juce)
    BY DEF Formed
  <2>2. Len(juce) \in Nat /\ DOMAIN juce = 1..Len(juce) /\ Len(juce) # 0
    BY <1>2, <2>1, SeqHas
  <2>3. 1 \in DOMAIN juce
    BY <2>2
  <2>4. Head(juce) = juce[1]
    BY <1>2, <2>1, TailIs
  <2> QED  BY <2>3, <2>4 DEF Formed
<1> QED  BY <1>1, <1>2

\* None and one to post.
LEMMA NonePosted == IsSeq(<< >>) /\ \A i \in DOMAIN << >> : FALSE
<1>1. << >> \in Seq({})
  OBVIOUS
<1>2. IsSeq(<< >>)
  BY <1>1, SeqIs
<1> QED  BY <1>2

\* A queue of one event.
LEMMA OnePosted ==
  ASSUME NEW e
  PROVE  IsSeq(<<e>>) /\ DOMAIN <<e>> = {1} /\ << e >>[1] = e
<1>1. IsSeq(<<e>>) /\ Len(<<e>>) = 1 /\ << e >>[1] = e
  BY OneIs
<1>2. DOMAIN <<e>> = 1..1
  BY <1>1, SeqHas
<1> QED  BY <1>1, <1>2

\* The pause is taken in: the top frame is selected, and the panes in front reload.
LEMMA OnLuaSuspendedKeeps ==
  ASSUME InspectInv, wx # << >>, OnLuaSuspended
  PROVE  InspectInv'
<1>0. Formed /\ Told /\ Hovering
  BY DEF InspectInv
<1> DEFINE p == ToWx("reload", front)
<1> DEFINE r == ToJuce("reload", front)
<1>1. /\ IsSeq(p) /\ IsSeq(r)
      /\ \A i \in DOMAIN p : \E q \in front \cap (WxViews \cup {"stack"}) : p[i] = Event("reload", q)
      /\ \A i \in DOMAIN r : r[i] = Event("reload", "jlocals")
      /\ \A q \in front \cap (WxViews \cup {"stack"}) : Has(p, "reload", q)
      /\ "jlocals" \in front => Has(r, "reload", "jlocals")
  <2>1. front \subseteq Views \cup {"stack", "memory"}
    BY <1>0, PanesAssumption DEF Formed
  <2> QED  BY <2>1, SignalIs
<1>2. Handled(p) /\ juce' = juce \o r
  BY DEF OnLuaSuspended, ShownPages
<1> HIDE DEF p, r
<1>3. Moved(wx, 1, p, wx') /\ Moved(juce, 0, r, juce')
  BY <1>0, <1>1, <1>2, HandledIs, PostedMoves DEF Formed
<1>4. \A i \in DOMAIN p : WxOk(p[i]) /\ p[i].do = "reload"
  BY <1>1 DEF WxOk, Event
<1>5. \A i \in DOMAIN r : r[i].view = "jlocals"
  BY <1>1 DEF Event
<1>6. UNCHANGED <<prog, now, tick, front, stack, views, hover>> /\ listening' = TRUE /\ level' = 0
  BY DEF OnLuaSuspended, daemon, user, aside
<1>7. Formed'
  <2>1. /\ IsSeq(wx') /\ IsSeq(juce')
        /\ \A i \in DOMAIN wx' : WxOk(wx'[i])
        /\ \A i \in DOMAIN juce' : juce'[i].view = "jlocals"
    BY <1>0, <1>3, <1>4, <1>5, FormMoved
  <2> QED  BY <1>0, <1>6, <2>1 DEF Formed, ViewsFormed
<1>8. Stopped /\ \A i \in DOMAIN wx : i > 1 => wx[i].do \notin {"suspended", "solved"}
  <2>1. 1 \in DOMAIN wx /\ wx[1].do = "suspended"
    BY <1>0, HeadIs DEF OnLuaSuspended
  <2> QED  BY <1>0, <2>1 DEF Told
<1>9. \A i \in DOMAIN wx' :
        /\ wx'[i].do \notin {"suspended", "solved"}
        /\ wx'[i].do = "clear" => \E j \in DOMAIN wx : wx[j].do = "clear"
  <2> SUFFICES ASSUME NEW i \in DOMAIN wx'
               PROVE  /\ wx'[i].do \notin {"suspended", "solved"}
                      /\ wx'[i].do = "clear" => \E j \in DOMAIN wx : wx[j].do = "clear"
    OBVIOUS
  <2>1. (\E k \in DOMAIN wx : k > 1 /\ wx'[i] = wx[k]) \/ \E k \in DOMAIN p : wx'[i] = p[k]
    BY <1>3, MovedBack
  <2> QED  BY <1>4, <1>8, <2>1
<1>10. Told'
  <2>1. Stopped'
    BY <1>6, <1>8 DEF Stopped
  <2>2. stack.levels = ToClientStack(prog) /\ \A i \in DOMAIN wx' : wx'[i].do # "clear"
    BY <1>0, <1>8, <1>9 DEF Told
  <2> QED  BY <1>6, <1>9, <2>1, <2>2 DEF Told
<1>11. Hovering'
  <2>1. ASSUME NEW w \in DOMAIN hover'.cache
        PROVE  Kept(hover'.cache[w].from, hover'.tick, tick', listening', now')
    BY <1>0, <1>6 DEF Hovering, Kept
  <2> QED  BY <1>9, <2>1 DEF Hovering
<1>12. ASSUME NEW v \in front' \cap Views
       PROVE  Coming(wx', juce', views'[v], v, now', level')
  <2>1. Has(p, "reload", v) \/ (v = "jlocals" /\ Has(r, "reload", v))
    BY <1>1, <1>6 DEF Views
  <2>2. Has(wx', "reload", v) \/ Has(juce', "reload", v)
    BY <1>3, <2>1, HasPosted
  <2> QED  BY <2>2 DEF Coming, Asking
<1>13. ASSUME "stack" \in front' PROVE Has(wx', "reload", "stack")
  <2>1. Has(p, "reload", "stack")
    BY <1>1, <1>6, <1>13
  <2> QED  BY <1>3, <2>1, HasPosted
<1>14. Showing'
  BY <1>12, <1>13 DEF Showing
<1> QED  BY <1>7, <1>10, <1>11, <1>14 DEF InspectInv

\* What a view asks for.
LEMMA AskedIs ==
  ASSUME Told, NEW v, NEW x
  PROVE  /\ IsSeq(Asked(v, x))
         /\ (Asked(v, x) = << >> /\ ~listening) \/ \E rows : Asked(v, x) = <<Answer("reply", v, rows)>>
<1>1. CASE listening
  <2>1. \E rows : Asked(v, x) = <<Answer("reply", v, rows)>>
    BY <1>1 DEF Asked, Told
  <2> QED  BY <2>1, OneIs
<1>2. CASE ~listening
  <2>1. Asked(v, x) = << >>
    BY <1>2 DEF Asked
  <2> QED  BY <1>2, <2>1, NonePosted
<1> QED  BY <1>1, <1>2

\* A view asks for its variables.
LEMMA RequestVarReloadKeeps ==
  ASSUME InspectInv, wx # << >>, RequestVarReload
  PROVE  InspectInv'
<1>0. Formed /\ Told
  BY DEF InspectInv
<1> DEFINE v == Head(wx).view
<1> DEFINE p == Asked(v, views[v].expanded)
<1>1. IsSeq(p) /\ ((p = << >> /\ ~listening) \/ \E rows : p = <<Answer("reply", v, rows)>>)
  BY <1>0, AskedIs
<1>2. Handled(p) /\ wx[1].do = "reload" /\ wx[1].view = v /\ v \in Views
  BY <1>0, HeadIs DEF RequestVarReload, Views
<1>3. UNCHANGED <<prog, now, listening, tick, level, front, stack, views, hover, juce>>
  BY DEF RequestVarReload, daemon, user, aside
<1> HIDE DEF v, p
<1>4. Moved(wx, 1, p, wx')
  BY <1>0, <1>1, <1>2, HandledIs
<1> QED  BY <1>1, <1>2, <1>3, <1>4, AnswersKeep

\* The answer for the other thread is passed on.
LEMMA OnWxThreadKeeps ==
  ASSUME InspectInv, wx # << >>, OnWxThread
  PROVE  InspectInv'
<1>0. Formed /\ Told
  BY DEF InspectInv
<1> DEFINE p == Asked("jlocals", Head(wx).expanded)
<1>1. IsSeq(p) /\ ((p = << >> /\ ~listening) \/ \E rows : p = <<Answer("reply", "jlocals", rows)>>)
  BY <1>0, AskedIs
<1>2. Handled(p) /\ wx[1].do = "jreload" /\ wx[1].view = "jlocals" /\ "jlocals" \in Views
  BY <1>0, HeadIs DEF OnWxThread, Views, WxOk
<1>3. UNCHANGED <<prog, now, listening, tick, level, front, stack, views, hover, juce>>
  BY DEF OnWxThread, daemon, user, aside
<1> HIDE DEF p
<1>4. Moved(wx, 1, p, wx')
  BY <1>0, <1>1, <1>2, HandledIs
<1> QED  BY <1>1, <1>2, <1>3, <1>4, AnswersKeep

\* The call stack lists its levels, which are those of the program.
LEMMA ReloadStackKeeps ==
  ASSUME InspectInv, wx # << >>, ReloadStack
  PROVE  InspectInv'
<1>0. Formed /\ Told /\ Showing /\ Hovering
  BY DEF InspectInv
<1>1. Handled(<< >>) /\ wx[1].do = "reload" /\ wx[1].view = "stack"
  BY <1>0, HeadIs DEF ReloadStack, Event
<1>2. Moved(wx, 1, << >>, wx')
  BY <1>0, <1>1, HandledIs, NonePosted
<1>3. Moved(juce, 0, << >>, juce')
  BY <1>0, NothingMoves DEF Formed, ReloadStack
<1>4. UNCHANGED <<prog, now, listening, tick, level, front, views, hover>>
  BY DEF ReloadStack, daemon, user
<1>5. stack' = [levels |-> stack.levels, rows |-> Traced(stack.levels)]
  BY <1>0 DEF ReloadStack, Formed
<1>6. Formed'
  <2>1. /\ IsSeq(wx') /\ IsSeq(juce')
        /\ \A i \in DOMAIN wx' : WxOk(wx'[i])
        /\ \A i \in DOMAIN juce' : juce'[i].view = "jlocals"
    BY <1>0, <1>2, <1>3, NonePosted, FormMoved
  <2> QED  BY <1>0, <1>4, <1>5, <2>1 DEF Formed, ViewsFormed
<1>7. Told'
  BY <1>0, <1>2, <1>4, <1>5, NonePosted, ToldKept
<1>8. Hovering'
  BY <1>0, <1>2, <1>4, NonePosted, HoveringKept
<1>9. ASSUME listening', NEW v \in front' \cap Views
      PROVE  Coming(wx', juce', views'[v], v, now', level')
  <2>1. Coming(wx, juce, views[v], v, now, level)
    BY <1>0, <1>4, <1>9 DEF Showing
  <2>2. Idle(wx, 1, v) /\ Idle(juce, 0, v)
    BY <1>1 DEF Idle, Views, WxViews
  <2>3. None(<< >>, {"reply", "list", "clear"}, v) /\ None(<< >>, Lists, v)
    BY NonePosted DEF None
  <2>4. Coming(wx', juce', views[v], v, now, level)
    BY <1>2, <1>3, <2>1, <2>2, <2>3, ComingKept
  <2> QED  BY <1>4, <2>4
<1>10. ASSUME listening' PROVE stack'.rows = Traced(ToClientStack(prog))'
  <2>1. stack.levels = ToClientStack(prog)
    BY <1>0, <1>4, <1>10 DEF Told
  <2> QED  BY <1>4, <1>5, <2>1 DEF Traced
<1>11. Showing'
  BY <1>9, <1>10 DEF Showing
<1> QED  BY <1>6, <1>7, <1>8, <1>11 DEF InspectInv

\* An answer becomes a list, behind all other lists.
LEMMA DispatchReplyKeeps ==
  ASSUME InspectInv, wx # << >>, DispatchReply
  PROVE  InspectInv'
<1>0. Formed /\ Told
  BY DEF InspectInv
<1>1. wx[1].do = "reply" /\ Head(wx) = wx[1] /\ WxOk(wx[1])
  BY <1>0, HeadIs DEF DispatchReply
<1> DEFINE list == [wx[1] EXCEPT !.do = "list"]
<1>2. /\ list.do = "list" /\ list.view = wx[1].view /\ list.view \in Views
      /\ list.from = wx[1].from /\ list.level = wx[1].level
  BY <1>1 DEF WxOk
<1>3. UNCHANGED <<prog, now, listening, tick, level, front, stack, hover, views>>
  BY DEF DispatchReply, daemon, user, aside
<1>4. ViewsFormed'
  BY <1>0, <1>3 DEF Formed, ViewsFormed
<1>5. IF list.view = "jlocals" THEN Handled(<< >>) /\ juce' = Append(juce, list)
      ELSE Handled(<<list>>) /\ UNCHANGED juce
  BY <1>1 DEF DispatchReply
<1> HIDE DEF list
<1>6. IsSeq(<<list>>) /\ DOMAIN <<list>> = {1} /\ << list >>[1] = list
  BY OnePosted
<1>7. CASE list.view = "jlocals"
  <2>1. Moved(wx, 1, << >>, wx')
    BY <1>0, <1>5, <1>7, HandledIs, NonePosted
  <2>2. Moved(juce, 0, <<list>>, juce')
    <3>1. juce' = juce \o <<list>>
      BY <1>0, <1>5, <1>7, AppendIs DEF Formed
    <3> QED  BY <1>0, <1>6, <3>1, PostedMoves DEF Formed
  <2>3. ASSUME NEW v \in Views, Coming(wx, juce, views[v], v, now, level)
        PROVE  Coming(wx', juce', views'[v], v, now, level)
    <3>1. CASE v = "jlocals"
      <4>1. None(<< >>, {"reply"}, v)
        BY NonePosted DEF None
      <4>2. /\ LastAt(<<list>>, Lists, v, 1) /\ << list >>[1].do = "list"
            /\ << list >>[1].from = wx[1].from /\ << list >>[1].level = wx[1].level
        BY <1>2, <1>6, <1>7, <3>1 DEF LastAt, Lists
      <4>3. Coming(wx', juce', views[v], v, now, level)
        BY <1>1, <1>2, <1>7, <2>1, <2>2, <2>3, <3>1, <4>1, <4>2, ComingReplied
      <4> QED  BY <1>3, <4>3
    <3>2. CASE v # "jlocals"
      <4>1. Idle(wx, 1, v) /\ Idle(juce, 0, v)
        BY <1>2, <1>7, <3>2 DEF Idle
      <4>2. None(<< >>, {"reply", "list", "clear"}, v) /\ None(<<list>>, Lists, v)
        BY <1>6, <1>7, <3>2, NonePosted DEF None
      <4>3. Coming(wx', juce', views[v], v, now, level)
        BY <2>1, <2>2, <2>3, <4>1, <4>2, ComingKept
      <4> QED  BY <1>3, <4>3
    <3> QED  BY <3>1, <3>2
  <2>4. \A i \in DOMAIN <<list>> : << list >>[i].view = "jlocals"
    BY <1>6, <1>7
  <2>5. \A i \in DOMAIN << >> : WxOk(<< >>[i]) /\ << >>[i].do \notin {"suspended", "clear", "solved"}
    BY NonePosted
  <2> QED  BY <1>1, <1>3, <1>4, <2>1, <2>2, <2>3, <2>4, <2>5, CalmKeeps
<1>8. CASE list.view # "jlocals"
  <2>1. Moved(wx, 1, <<list>>, wx')
    BY <1>0, <1>5, <1>6, <1>8, HandledIs
  <2>2. Moved(juce, 0, << >>, juce')
    BY <1>0, <1>5, <1>8, NothingMoves DEF Formed
  <2>3. ASSUME NEW v \in Views, Coming(wx, juce, views[v], v, now, level)
        PROVE  Coming(wx', juce', views'[v], v, now, level)
    <3>1. CASE v = list.view
      <4>1. None(<<list>>, {"reply"}, v)
        BY <1>2, <1>6 DEF None
      <4>2. /\ LastAt(<<list>>, Lists, v, 1) /\ << list >>[1].do = "list"
            /\ << list >>[1].from = wx[1].from /\ << list >>[1].level = wx[1].level
        BY <1>2, <1>6, <3>1 DEF LastAt, Lists
      <4>3. wx[1].view = v /\ v # "jlocals"
        BY <1>2, <1>8, <3>1
      <4>4. Coming(wx', juce', views[v], v, now, level)
        BY <1>1, <2>1, <2>2, <2>3, <4>1, <4>2, <4>3, ComingReplied
      <4> QED  BY <1>3, <4>4
    <3>2. CASE v # list.view
      <4>1. Idle(wx, 1, v) /\ Idle(juce, 0, v)
        BY <1>2, <3>2 DEF Idle
      <4>2. None(<<list>>, {"reply", "list", "clear"}, v) /\ None(<< >>, Lists, v)
        BY <1>6, <3>2, NonePosted DEF None
      <4>3. Coming(wx', juce', views[v], v, now, level)
        BY <2>1, <2>2, <2>3, <4>1, <4>2, ComingKept
      <4> QED  BY <1>3, <4>3
    <3> QED  BY <3>1, <3>2
  <2>4. WxOk(list)
    BY <1>2, <1>8 DEF WxOk, Views
  <2>5. \A i \in DOMAIN <<list>> : /\ WxOk(<< list >>[i])
                                   /\ << list >>[i].do \notin {"suspended", "clear", "solved"}
    BY <1>2, <1>6, <2>4
  <2>6. \A i \in DOMAIN << >> : << >>[i].view = "jlocals"
    BY NonePosted
  <2> QED  BY <1>1, <1>3, <1>4, <2>1, <2>2, <2>3, <2>5, <2>6, CalmKeeps
<1> QED  BY <1>7, <1>8

\* A view is filled: the others stay.
LEMMA ViewsSet ==
  ASSUME Formed, NEW v \in Views, NEW e, SetVariables(v, e)
  PROVE  /\ ViewsFormed' /\ views'[v].from = e.from /\ views'[v].level = e.level
         /\ \A u \in Views : u # v => views'[u] = views[u]
<1>1. \E rows, last : views' = [views EXCEPT ![v] =
        [rows |-> rows, from |-> e.from, level |-> e.level, expanded |-> Expanded(rows),
         last |-> last, auto |-> views[v].auto]]
  <2> DEFINE R == IF views[v].auto THEN AutoSorted(views[v], e.rows) ELSE e.rows
  <2> DEFINE L == IF v \in WxViews THEN LastValues(R) ELSE << >>
  <2>1. views' = [views EXCEPT ![v] =
          [rows |-> R, from |-> e.from, level |-> e.level, expanded |-> Expanded(R),
           last |-> L, auto |-> views[v].auto]]
    BY DEF SetVariables
  <2> HIDE DEF R, L
  <2> QED  BY <2>1
<1>2. PICK rows, last : views' = [views EXCEPT ![v] =
        [rows |-> rows, from |-> e.from, level |-> e.level, expanded |-> Expanded(rows),
         last |-> last, auto |-> views[v].auto]]
  BY <1>1
<1>3. DOMAIN views = Views
  BY DEF Formed, ViewsFormed
<1>4. DOMAIN views' = Views /\ \A u \in Views : u # v => views'[u] = views[u]
  BY <1>2, <1>3
<1>5. views'[v] = [rows |-> rows, from |-> e.from, level |-> e.level, expanded |-> Expanded(rows),
                   last |-> last, auto |-> views[v].auto]
  BY <1>2, <1>3
<1>6. ViewsFormed'
  <2>1. ASSUME NEW u \in Views
        PROVE  views'[u] = [rows |-> views'[u].rows, from |-> views'[u].from, level |-> views'[u].level,
                 expanded |-> views'[u].expanded, last |-> views'[u].last, auto |-> views'[u].auto]
    <3>1. CASE u = v
      BY <1>5, <3>1
    <3>2. CASE u # v
      BY <1>4, <3>2 DEF Formed, ViewsFormed
    <3> QED  BY <3>1, <3>2
  <2> QED  BY <1>4, <2>1 DEF ViewsFormed
<1> QED  BY <1>4, <1>5, <1>6

\* A view is emptied.
LEMMA ViewsCleared ==
  ASSUME Formed, NEW v, ClearVariables(v)
  PROVE  ViewsFormed' /\ \A u \in Views : u # v => views'[u] = views[u]
<1>1. \E x : views' = [views EXCEPT ![v] = [rows |-> << >>, from |-> Never, level |-> 0,
                         expanded |-> x, last |-> << >>, auto |-> views[v].auto]]
  <2> DEFINE x == IF v = "jlocals" THEN views[v].expanded ELSE {}
  <2>1. views' = [views EXCEPT ![v] = [EmptyView EXCEPT !.auto = views[v].auto, !.expanded = x]]
    BY DEF ClearVariables
  <2> HIDE DEF x
  <2>2. [EmptyView EXCEPT !.auto = views[v].auto, !.expanded = x]
          = [rows |-> << >>, from |-> Never, level |-> 0,
             expanded |-> x, last |-> << >>, auto |-> views[v].auto]
    <3>1. [EmptyView EXCEPT !.auto = views[v].auto]
            = [rows |-> << >>, from |-> Never, level |-> 0,
               expanded |-> {}, last |-> << >>, auto |-> views[v].auto]
      <4>1. EmptyView = [rows |-> << >>, from |-> Never, level |-> 0,
                         expanded |-> {}, last |-> << >>, auto |-> FALSE]
        BY Zenon DEF EmptyView
      <4>2. \A e, f, b : e = [rows |-> << >>, from |-> f, level |-> 0, expanded |-> {}, last |-> << >>, auto |-> FALSE]
              => [e EXCEPT !.auto = b] = [rows |-> << >>, from |-> f, level |-> 0,
                                          expanded |-> {}, last |-> << >>, auto |-> b]
        BY SMTT(30)
      <4> QED  BY <4>1, <4>2
    <3>2. [EmptyView EXCEPT !.auto = views[v].auto, !.expanded = x]
            = [[EmptyView EXCEPT !.auto = views[v].auto] EXCEPT !.expanded = x]
      OBVIOUS
    <3>3. \A a, y : [[rows |-> << >>, from |-> Never, level |-> 0, expanded |-> {}, last |-> << >>,
                      auto |-> a] EXCEPT !.expanded = y]
                      = [rows |-> << >>, from |-> Never, level |-> 0, expanded |-> y, last |-> << >>,
                         auto |-> a]
      OBVIOUS
    <3> QED  BY <3>1, <3>2, <3>3, Zenon
  <2> QED  BY <2>1, <2>2
<1>2. PICK x : views' = [views EXCEPT ![v] = [rows |-> << >>, from |-> Never, level |-> 0,
                           expanded |-> x, last |-> << >>, auto |-> views[v].auto]]
  BY <1>1
<1>3. DOMAIN views = Views
  BY DEF Formed, ViewsFormed
<1>4. DOMAIN views' = Views /\ \A u \in Views : u # v => views'[u] = views[u]
  BY <1>2, <1>3
<1>5. ASSUME NEW u \in Views
      PROVE  views'[u] = [rows |-> views'[u].rows, from |-> views'[u].from, level |-> views'[u].level,
               expanded |-> views'[u].expanded, last |-> views'[u].last, auto |-> views'[u].auto]
  <2>1. CASE u = v
    <3>1. views'[u] = [rows |-> << >>, from |-> Never, level |-> 0,
                       expanded |-> x, last |-> << >>, auto |-> views[v].auto]
      BY <1>2, <1>3, <2>1
    <3> QED  BY <3>1
  <2>2. CASE u # v
    BY <1>4, <2>2 DEF Formed, ViewsFormed
  <2> QED  BY <2>1, <2>2
<1> QED  BY <1>4, <1>5 DEF ViewsFormed

\* Each posted event but a request and an answer.
LEMMA OnPostedKeeps ==
  ASSUME InspectInv, wx # << >>, OnPostedCollectedMessage
  PROVE  InspectInv'
<1>0. Formed
  BY DEF InspectInv
<1>1. wx[1].do = "list" /\ Head(wx) = wx[1] /\ wx[1].view \in WxViews
  BY <1>0, HeadIs DEF OnPostedCollectedMessage, WxOk
<1> DEFINE v == wx[1].view
<1>2. v \in Views /\ v # "jlocals"
  BY <1>1 DEF Views, WxViews
<1>3. Handled(<< >>) /\ SetVariables(v, wx[1])
  BY <1>1 DEF OnPostedCollectedMessage
<1>4. UNCHANGED <<prog, now, listening, tick, level, front, stack, hover, juce>>
  BY DEF OnPostedCollectedMessage, daemon, user, aside
<1>5. /\ ViewsFormed' /\ views'[v].from = wx[1].from /\ views'[v].level = wx[1].level
      /\ \A u \in Views : u # v => views'[u] = views[u]
  BY <1>0, <1>2, <1>3, ViewsSet
<1>6. Moved(wx, 1, << >>, wx') /\ Moved(juce, 0, << >>, juce')
  BY <1>0, <1>3, <1>4, HandledIs, NonePosted, NothingMoves DEF Formed
<1>7. ASSUME NEW u \in Views, Coming(wx, juce, views[u], u, now, level)
      PROVE  Coming(wx', juce', views'[u], u, now, level)
  <2>1. /\ None(<< >>, {"reply", "list", "clear"}, u) /\ None(<< >>, {"reply"}, u)
        /\ None(<< >>, Lists, u)
    BY NonePosted DEF None
  <2>2. CASE u = v
    <3>1. /\ ShownIn(wx, juce, u)[1].do \in Lists /\ ShownIn(wx, juce, u)[1].view = u
          /\ views'[u].from = ShownIn(wx, juce, u)[1].from
          /\ views'[u].level = ShownIn(wx, juce, u)[1].level /\ u # "jlocals"
      BY <1>1, <1>2, <1>5, <2>2 DEF ShownIn, Lists
    <3> QED  BY <1>6, <1>7, <2>1, <3>1, ComingListed
  <2>3. CASE u # v
    <3>1. Idle(wx, 1, u) /\ Idle(juce, 0, u)
      BY <2>3 DEF Idle
    <3>2. Fresh(views[u], now, level) => Fresh(views'[u], now, level)
      BY <1>5, <2>3
    <3> QED  BY <1>6, <1>7, <2>1, <3>1, <3>2, ComingKept
  <2> QED  BY <2>2, <2>3
<1> HIDE DEF v
<1>8. \A i \in DOMAIN << >> : /\ WxOk(<< >>[i]) /\ << >>[i].do \notin {"suspended", "clear", "solved"}
                              /\ << >>[i].view = "jlocals"
  BY NonePosted
<1> QED  BY <1>1, <1>4, <1>5, <1>6, <1>7, <1>8, CalmKeeps

\* Panes are emptied while no one listens.
LEMMA OnClearKeeps ==
  ASSUME InspectInv, wx # << >>, OnClear
  PROVE  InspectInv'
<1>0. Formed /\ Told /\ Hovering
  BY DEF InspectInv
<1>1. wx[1].do = "clear" /\ Head(wx) = wx[1] /\ 1 \in DOMAIN wx /\ Handled(<< >>)
  BY <1>0, HeadIs DEF OnClear
<1>2. ~Stopped /\ ~listening
  BY <1>0, <1>1 DEF Told
<1>3. UNCHANGED <<prog, now, listening, tick, level, front, hover, juce>>
  BY DEF OnClear, daemon, user
<1>4. Moved(wx, 1, << >>, wx') /\ Moved(juce, 0, << >>, juce')
  BY <1>0, <1>1, <1>3, HandledIs, NonePosted, NothingMoves DEF Formed
<1>5. ViewsFormed' /\ stack' = [levels |-> stack'.levels, rows |-> stack'.rows]
  <2>1. CASE wx[1].view = "stack"
    <3>1. UNCHANGED views /\ stack' = [levels |-> << >>, rows |-> << >>]
      BY <1>1, <2>1 DEF OnClear
    <3> QED  BY <1>0, <3>1 DEF Formed, ViewsFormed
  <2>2. CASE wx[1].view # "stack"
    <3>1. ClearVariables(wx[1].view) /\ UNCHANGED stack
      BY <1>1, <2>2 DEF OnClear
    <3>2. ViewsFormed'
      BY <1>0, <3>1, ViewsCleared
    <3> QED  BY <1>0, <3>1, <3>2 DEF Formed
  <2> QED  BY <2>1, <2>2
<1>6. Formed'
  <2>1. /\ IsSeq(wx') /\ IsSeq(juce')
        /\ \A i \in DOMAIN wx' : WxOk(wx'[i])
        /\ \A i \in DOMAIN juce' : juce'[i].view = "jlocals"
    BY <1>0, <1>4, NonePosted, FormMoved
  <2> QED  BY <1>0, <1>3, <1>5, <2>1 DEF Formed
<1>7. Told'
  BY <1>0, <1>2, <1>3, <1>4, NonePosted, ToldKept
<1>8. Hovering'
  BY <1>0, <1>3, <1>4, NonePosted, HoveringKept
<1>9. Showing'
  BY <1>2, <1>3 DEF Showing
<1> QED  BY <1>6, <1>7, <1>8, <1>9 DEF InspectInv

\* A value comes: it is cached.
LEMMA SetSolvedKeeps ==
  ASSUME InspectInv, wx # << >>, SetSolvedVariable
  PROVE  InspectInv'
<1>0. Formed /\ Told /\ Showing /\ Hovering
  BY DEF InspectInv
<1>1. wx[1].do = "solved" /\ Head(wx) = wx[1] /\ 1 \in DOMAIN wx /\ Handled(<< >>)
  BY <1>0, HeadIs DEF SetSolvedVariable
<1>2. UNCHANGED <<prog, now, listening, tick, level, front, stack, views, juce>>
  BY DEF SetSolvedVariable, daemon, user
<1>3. Moved(wx, 1, << >>, wx') /\ Moved(juce, 0, << >>, juce')
  BY <1>0, <1>1, <1>2, HandledIs, NonePosted, NothingMoves DEF Formed
<1> DEFINE row  == wx[1].rows[1]
<1> DEFINE word == row.path[1]
<1> DEFINE val  == [val |-> row.val, from |-> wx[1].from]
<1> DEFINE cache == [w \in DOMAIN hover.cache \cup {word} |-> IF w = word THEN val ELSE hover.cache[w]]
<1> DEFINE asked == hover.asked \ {word}
<1>4. hover' = [hover EXCEPT !.asked = asked, !.cache = cache]
  BY <1>1 DEF SetSolvedVariable
<1>5. hover' = [cache |-> cache, asked |-> asked, tick |-> hover.tick, tip |-> hover.tip]
  <2> HIDE DEF cache, asked
  <2>1. hover = [cache |-> hover.cache, asked |-> hover.asked, tick |-> hover.tick, tip |-> hover.tip]
    BY <1>0 DEF Formed
  <2>2. hover' = [[hover EXCEPT !.asked = asked] EXCEPT !.cache = cache]
    BY <1>4
  <2>3. [hover EXCEPT !.asked = asked]
          = [cache |-> hover.cache, asked |-> asked, tick |-> hover.tick, tip |-> hover.tip]
    BY <2>1
  <2> QED  BY <2>2, <2>3
<1>6. hover'.tick = hover.tick /\ hover'.cache = cache
  BY <1>5
<1>7. \A u \in DOMAIN hover'.cache :
        \/ hover'.cache[u].from = wx[1].from
        \/ u \in DOMAIN hover.cache /\ hover'.cache[u] = hover.cache[u]
  <2> HIDE DEF word
  <2>1. val.from = wx[1].from
    OBVIOUS
  <2> HIDE DEF val
  <2> QED  BY <1>6, <2>1
<1> HIDE DEF row, word, val, cache, asked
<1>8. Formed'
  <2>1. /\ IsSeq(wx') /\ IsSeq(juce')
        /\ \A i \in DOMAIN wx' : WxOk(wx'[i])
        /\ \A i \in DOMAIN juce' : juce'[i].view = "jlocals"
    BY <1>0, <1>3, NonePosted, FormMoved
  <2>2. hover' = [cache |-> hover'.cache, asked |-> hover'.asked, tick |-> hover'.tick, tip |-> hover'.tip]
    BY <1>5
  <2> QED  BY <1>0, <1>2, <1>6, <2>1, <2>2 DEF Formed, ViewsFormed
<1>9. Told'
  BY <1>0, <1>2, <1>3, NonePosted, ToldKept
<1>10. Hovering'
  <2>1. ASSUME NEW u \in DOMAIN hover'.cache
        PROVE  Kept(hover'.cache[u].from, hover'.tick, tick', listening', now')
    <3>1. CASE hover'.cache[u].from = wx[1].from
      <4>1. Arriving(wx[1].from, hover.tick, tick, listening, now)
        BY <1>0, <1>1 DEF Hovering
      <4>2. Kept(wx[1].from, hover.tick, tick, listening, now)
        BY <4>1 DEF Kept, Arriving
      <4> QED  BY <1>2, <1>6, <3>1, <4>2
    <3>2. CASE u \in DOMAIN hover.cache /\ hover'.cache[u] = hover.cache[u]
      <4>1. Kept(hover.cache[u].from, hover.tick, tick, listening, now)
        BY <1>0, <3>2 DEF Hovering
      <4> QED  BY <1>2, <1>6, <3>2, <4>1
    <3> QED  BY <1>7, <2>1, <3>1, <3>2
  <2>2. ASSUME NEW i \in DOMAIN wx', wx'[i].do = "solved"
        PROVE  Arriving(wx'[i].from, hover'.tick, tick', listening', now')
    <3>1. \E m \in DOMAIN wx : wx'[i] = wx[m]
      <4>1. (\E k \in DOMAIN wx : k > 1 /\ wx'[i] = wx[k]) \/ \E k \in DOMAIN << >> : wx'[i] = << >>[k]
        BY <1>3, <2>2, MovedBack
      <4> QED  BY <4>1, NonePosted
    <3>2. Arriving(wx'[i].from, hover.tick, tick, listening, now)
      BY <1>0, <2>2, <3>1 DEF Hovering
    <3> QED  BY <1>2, <1>6, <3>2
  <2> QED  BY <2>1, <2>2 DEF Hovering
<1>11. ASSUME listening', NEW v \in front' \cap Views
       PROVE  Coming(wx', juce', views'[v], v, now', level')
  <2>1. Coming(wx, juce, views[v], v, now, level)
    BY <1>0, <1>2, <1>11 DEF Showing
  <2>2. Idle(wx, 1, v) /\ Idle(juce, 0, v)
    BY <1>1 DEF Idle
  <2>3. None(<< >>, {"reply", "list", "clear"}, v) /\ None(<< >>, Lists, v)
    BY NonePosted DEF None
  <2>4. Coming(wx', juce', views[v], v, now, level)
    BY <1>3, <2>1, <2>2, <2>3, ComingKept
  <2> QED  BY <1>2, <2>4
<1>12. ASSUME listening', "stack" \in front'
       PROVE  Has(wx', "reload", "stack") \/ stack'.rows = Traced(ToClientStack(prog))'
  <2>1. Has(wx, "reload", "stack") \/ stack.rows = Traced(ToClientStack(prog))
    BY <1>0, <1>2, <1>12 DEF Showing
  <2>2. UNCHANGED <<prog, level>> /\ stack'.rows = stack.rows
    BY <1>2
  <2>3. ~(wx[1].do = "reload" /\ wx[1].view = "stack")
    BY <1>1
  <2> QED  BY <1>3, <2>1, <2>2, <2>3, StackKept
<1>13. Showing'
  BY <1>11, <1>12 DEF Showing
<1> QED  BY <1>8, <1>9, <1>10, <1>13 DEF InspectInv

\* The memory view is filled and raised.
LEMMA OnShowMemoryKeeps ==
  ASSUME InspectInv, wx # << >>, OnShowMemory
  PROVE  InspectInv'
<1>0. Formed
  BY DEF InspectInv
<1>1. wx[1].do = "memory" /\ Handled(<< >>) /\ "memory" \in Panes
  BY <1>0, HeadIs DEF OnShowMemory, WxOk
<1>2. UNCHANGED <<prog, now, listening, tick, level, stack, views, juce, hover>>
  BY DEF OnShowMemory, daemon
<1>3. front' \subseteq front \cup {"memory"} /\ front' \subseteq Panes
  BY <1>0, <1>1 DEF OnShowMemory, Formed
<1>4. Moved(wx, 1, << >>, wx') /\ Moved(juce, 0, << >>, juce')
  BY <1>0, <1>1, <1>2, HandledIs, NonePosted, NothingMoves DEF Formed
<1>5. SameViews
  BY <1>0, <1>2, SameViewsStay
<1>6. hover' = [cache |-> hover.cache, asked |-> hover'.asked, tick |-> hover.tick, tip |-> hover'.tip]
  BY <1>0, <1>2 DEF Formed
<1>7. Quiet(1, << >>, 0, << >>)
  BY <1>1, <1>2, <1>3, <1>4, <1>5, <1>6, NonePosted DEF Quiet, Posted
<1> QED  BY <1>7, QuietKeeps

\* The memory view comes to the front.
LEMMA PassShowMemoryKeeps ==
  ASSUME InspectInv, wx # << >>, PassShowMemory
  PROVE  InspectInv'
<1>0. Formed
  BY DEF InspectInv
<1> DEFINE e == [wx[1] EXCEPT !.do = "memory"]
<1>1. wx[1].do = "jmemory" /\ WxOk(wx[1]) /\ Handled(<<e>>)
  BY <1>0, HeadIs DEF PassShowMemory
<1>2. e.do = "memory" /\ WxOk(e)
  BY <1>1 DEF WxOk
<1> HIDE DEF e
<1>3. UNCHANGED <<prog, now, listening, tick, level, front, stack, views, juce, hover>>
  BY DEF PassShowMemory, daemon, user, aside
<1>4. IsSeq(<<e>>) /\ Posted(<<e>>)
  BY <1>2, PostsOne
<1>5. Moved(wx, 1, <<e>>, wx') /\ Moved(juce, 0, << >>, juce')
  BY <1>0, <1>1, <1>3, <1>4, HandledIs, NothingMoves DEF Formed
<1>6. SameViews
  BY <1>0, <1>3, SameViewsStay
<1>7. /\ hover' = [cache |-> hover.cache, asked |-> hover'.asked, tick |-> hover.tick, tip |-> hover'.tip]
      /\ front' \subseteq Panes /\ front' \subseteq front \cup {"memory"}
  BY <1>0, <1>3 DEF Formed
<1>8. Quiet(1, <<e>>, 0, << >>)
  BY <1>1, <1>3, <1>4, <1>5, <1>6, <1>7, NonePosted DEF Quiet
<1> QED  BY <1>8, QuietKeeps

\* The dump is drawn.
LEMMA OnRedrawKeeps ==
  ASSUME InspectInv, wx # << >>, OnRedraw
  PROVE  InspectInv'
<1>0. Formed
  BY DEF InspectInv
<1>1. wx[1].do = "redraw" /\ Handled(<< >>)
  BY <1>0, HeadIs DEF OnRedraw
<1>2. UNCHANGED <<prog, now, listening, tick, level, front, stack, views, juce, hover>>
  BY DEF OnRedraw, daemon, user
<1>3. Moved(wx, 1, << >>, wx') /\ Moved(juce, 0, << >>, juce')
  BY <1>0, <1>1, <1>2, HandledIs, NonePosted, NothingMoves DEF Formed
<1>4. SameViews
  BY <1>0, <1>2, SameViewsStay
<1>5. /\ hover' = [cache |-> hover.cache, asked |-> hover'.asked, tick |-> hover.tick, tip |-> hover'.tip]
      /\ front' \subseteq Panes /\ front' \subseteq front \cup {"memory"}
  BY <1>0, <1>2 DEF Formed
<1>6. Quiet(1, << >>, 0, << >>)
  BY <1>1, <1>2, <1>3, <1>4, <1>5, NonePosted DEF Quiet, Posted
<1> QED  BY <1>6, QuietKeeps

-----------------------------------------------------------------------------
(* The juce thread.                                                         *)

\* The other thread asks for its variables.
LEMMA JuceReloadKeeps ==
  ASSUME InspectInv, juce # << >>, JuceReload
  PROVE  InspectInv'
<1>0. Formed
  BY DEF InspectInv
<1>1. juce[1].view = "jlocals" /\ juce' = Tail(juce)
  BY <1>0, HeadIs DEF JuceReload
<1> DEFINE e == [do |-> "jreload", view |-> "jlocals", expanded |-> views["jlocals"].expanded]
<1>2. e.do = "jreload" /\ e.view = "jlocals" /\ WxOk(e)
  BY DEF WxOk
<1>3. wx' = Append(wx, e)
  BY DEF JuceReload
<1> HIDE DEF e
<1>4. UNCHANGED <<prog, now, listening, tick, level, front, stack, hover, views>>
  BY DEF JuceReload, daemon, user, aside
<1>5. IsSeq(<<e>>) /\ DOMAIN <<e>> = {1} /\ << e >>[1] = e
  BY OnePosted
<1>6. Moved(wx, 0, <<e>>, wx')
  <2>1. wx' = wx \o <<e>>
    BY <1>0, <1>3, AppendIs DEF Formed
  <2> QED  BY <1>0, <1>5, <2>1, PostedMoves DEF Formed
<1>7. Moved(juce, 1, << >>, juce')
  BY <1>0, <1>1, DroppedMoves DEF Formed
<1>8. ASSUME NEW v \in Views, Coming(wx, juce, views[v], v, now, level)
      PROVE  Coming(wx', juce', views'[v], v, now, level)
  <2>1. CASE v = "jlocals"
    <3>1. Has(<<e>>, "jreload", v)
      BY <1>2, <1>5, <2>1 DEF Has
    <3> QED  BY <1>6, <3>1, ComingAsked
  <2>2. CASE v # "jlocals"
    <3>1. Idle(wx, 0, v) /\ Idle(juce, 1, v)
      BY <1>1, <2>2 DEF Idle
    <3>2. None(<<e>>, {"reply", "list", "clear"}, v) /\ None(<< >>, Lists, v)
      BY <1>2, <1>5, NonePosted DEF None
    <3>3. Coming(wx', juce', views[v], v, now, level)
      BY <1>6, <1>7, <1>8, <3>1, <3>2, ComingKept
    <3> QED  BY <1>4, <3>3
  <2> QED  BY <2>1, <2>2
<1>9. \A i \in DOMAIN <<e>> : WxOk(<< e >>[i]) /\ << e >>[i].do \notin {"suspended", "clear", "solved"}
  BY <1>2, <1>5
<1>10. \A i \in DOMAIN << >> : << >>[i].view = "jlocals"
  BY NonePosted
<1>11. ViewsFormed'
  BY <1>0, <1>4 DEF Formed, ViewsFormed
<1> QED  BY <1>4, <1>6, <1>7, <1>8, <1>9, <1>10, <1>11, CalmKeeps

\* The list is told to paint.
LEMMA SetEntriesIs ==
  ASSUME Formed, juce # << >>, SetEntries
  PROVE  \E r : /\ Moved(juce, 1, r, juce')
                /\ \A i \in DOMAIN r : r[i] = Event("update", "jlocals")
<1> DEFINE e == Event("update", "jlocals")
<1>1. IsSeq(juce) /\ IsSeq(Tail(juce))
  BY TailIs DEF Formed
<1>2. CASE juce' = Tail(juce)
  <2>1. Moved(juce, 1, << >>, juce')
    BY <1>1, <1>2, DroppedMoves
  <2> QED  BY <2>1, NonePosted
<1>3. CASE juce' = Append(Tail(juce), e)
  <2> HIDE DEF e
  <2>1. juce' = Tail(juce) \o <<e>>
    BY <1>1, <1>3, AppendIs
  <2>2. IsSeq(<<e>>) /\ DOMAIN <<e>> = {1} /\ << e >>[1] = e
    BY OnePosted
  <2>3. Moved(juce, 1, <<e>>, juce')
    BY <1>1, <2>1, <2>2, HandledMoves
  <2>4. \A i \in DOMAIN <<e>> : << e >>[i] = e
    BY <2>2
  <2> QED  BY <2>3, <2>4 DEF e
<1> QED  BY <1>2, <1>3 DEF SetEntries

\* The juce view is filled or emptied.
LEMMA JuceListKeeps ==
  ASSUME InspectInv, juce # << >>, juce[1].do \in Lists, juce[1].view = "jlocals", SetEntries, ViewsFormed',
         \A u \in Views : u # "jlocals" => views'[u] = views[u],
         juce[1].do = "list" =>
           views'["jlocals"].from = juce[1].from /\ views'["jlocals"].level = juce[1].level,
         UNCHANGED <<prog, now, listening, tick, level, front, stack, hover, wx>>
  PROVE  InspectInv'
<1>0. Formed
  BY DEF InspectInv
<1>1. PICK r : /\ Moved(juce, 1, r, juce')
               /\ \A i \in DOMAIN r : r[i] = Event("update", "jlocals")
  BY <1>0, SetEntriesIs
<1>2. Moved(wx, 0, << >>, wx') /\ Moved(juce, 1, r, juce')
  BY <1>0, <1>1, NothingMoves DEF Formed
<1>3. \A i \in DOMAIN r : r[i].do = "update" /\ r[i].view = "jlocals"
  BY <1>1 DEF Event
<1>4. ASSUME NEW v \in Views, Coming(wx, juce, views[v], v, now, level)
      PROVE  Coming(wx', juce', views'[v], v, now, level)
  <2>1. /\ None(<< >>, {"reply", "list", "clear"}, v) /\ None(<< >>, {"reply"}, v)
        /\ None(<< >>, Lists, v) /\ None(r, Lists, v)
    BY <1>3, NonePosted DEF None, Lists
  <2>2. CASE v = "jlocals"
    <3>1. /\ ShownIn(wx, juce, v)[1].do \in Lists /\ ShownIn(wx, juce, v)[1].view = v
          /\ ShownIn(wx, juce, v)[1].do = "list" =>
               /\ views'[v].from = ShownIn(wx, juce, v)[1].from
               /\ views'[v].level = ShownIn(wx, juce, v)[1].level
      BY <2>2 DEF ShownIn
    <3> QED  BY <1>2, <1>4, <2>1, <2>2, <3>1, ComingListed
  <2>3. CASE v # "jlocals"
    <3>1. Idle(wx, 0, v) /\ Idle(juce, 1, v)
      BY <2>3 DEF Idle
    <3>2. Fresh(views[v], now, level) => Fresh(views'[v], now, level)
      BY <2>3
    <3> QED  BY <1>2, <1>4, <2>1, <3>1, <3>2, ComingKept
  <2> QED  BY <2>2, <2>3
<1>5. \A i \in DOMAIN << >> : WxOk(<< >>[i]) /\ << >>[i].do \notin {"suspended", "clear", "solved"}
  BY NonePosted
<1> QED  BY <1>2, <1>3, <1>4, <1>5, CalmKeeps

\* The other thread gets its variables.
LEMMA JuceSetKeeps ==
  ASSUME InspectInv, juce # << >>, JuceSet
  PROVE  InspectInv'
<1>0. Formed
  BY DEF InspectInv
<1>1. juce[1].do = "list" /\ juce[1].view = "jlocals" /\ Head(juce) = juce[1]
  BY <1>0, HeadIs DEF JuceSet
<1>2. SetVariables("jlocals", juce[1]) /\ SetEntries /\ "jlocals" \in Views
  BY <1>1 DEF JuceSet, Views
<1>3. /\ ViewsFormed' /\ views'["jlocals"].from = juce[1].from /\ views'["jlocals"].level = juce[1].level
      /\ \A u \in Views : u # "jlocals" => views'[u] = views[u]
  BY <1>0, <1>2, ViewsSet
<1>4. UNCHANGED <<prog, now, listening, tick, level, front, stack, hover, wx>>
  BY DEF JuceSet, daemon, user, aside
<1> QED  BY <1>1, <1>2, <1>3, <1>4, JuceListKeeps DEF Lists

\* The other thread empties its view.
LEMMA JuceClearKeeps ==
  ASSUME InspectInv, juce # << >>, JuceClear
  PROVE  InspectInv'
<1>0. Formed
  BY DEF InspectInv
<1>1. juce[1].do = "clear" /\ juce[1].view = "jlocals"
  BY <1>0, HeadIs DEF JuceClear
<1>2. ClearVariables("jlocals") /\ SetEntries
  BY DEF JuceClear
<1>3. ViewsFormed' /\ \A u \in Views : u # "jlocals" => views'[u] = views[u]
  BY <1>0, <1>2, ViewsCleared
<1>4. UNCHANGED <<prog, now, listening, tick, level, front, stack, hover, wx>>
  BY DEF JuceClear, daemon, user, aside
<1> QED  BY <1>1, <1>2, <1>3, <1>4, JuceListKeeps DEF Lists

\* The other thread draws its view.
LEMMA AsyncUpdateKeeps ==
  ASSUME InspectInv, juce # << >>, handleAsyncUpdate
  PROVE  InspectInv'
<1>0. Formed
  BY DEF InspectInv
<1>1. juce[1].do = "update" /\ juce' = Tail(juce)
  BY <1>0, HeadIs DEF handleAsyncUpdate
<1>2. UNCHANGED <<prog, now, listening, tick, level, front, stack, views, wx, hover>>
  BY DEF handleAsyncUpdate, daemon, user
<1>3. Moved(wx, 0, << >>, wx') /\ Moved(juce, 1, << >>, juce')
  BY <1>0, <1>1, <1>2, DroppedMoves, NothingMoves DEF Formed
<1>4. SameViews
  BY <1>0, <1>2, SameViewsStay
<1>5. /\ hover' = [cache |-> hover.cache, asked |-> hover'.asked, tick |-> hover.tick, tip |-> hover'.tip]
      /\ front' \subseteq Panes /\ front' \subseteq front \cup {"memory"}
  BY <1>0, <1>2 DEF Formed
<1>6. Quiet(0, << >>, 1, << >>)
  BY <1>1, <1>2, <1>3, <1>4, <1>5, NonePosted DEF Quiet, Posted
<1> QED  BY <1>6, QuietKeeps

-----------------------------------------------------------------------------
(* The daemon and the connection.                                          *)

\* Of another pause, tick or connection no value is current, until the next pause is told.
LEMMA HoveringAside ==
  ASSUME Formed, Hovering, ~listening', NEW p, Moved(wx, 0, p, wx'), UNCHANGED hover,
         \A i \in DOMAIN p : p[i].do # "solved",
         \/ now'.breaks = now.breaks + 1
         \/ now'.breaks = now.breaks /\ tick' = tick /\ ~listening
         \/ now'.breaks = now.breaks /\ tick' = tick + 1
  PROVE  Hovering'
<1>1. now.breaks \in Nat /\ tick \in Nat /\ hover.tick \in Int
  BY DEF Formed
<1>2. ASSUME NEW w \in DOMAIN hover'.cache
      PROVE  Kept(hover'.cache[w].from, hover'.tick, tick', listening', now')
  <2>1. Kept(hover.cache[w].from, hover.tick, tick, listening, now)
    BY <1>2 DEF Hovering
  <2> QED  BY <1>1, <2>1 DEF Kept
<1>3. ASSUME NEW m \in DOMAIN wx', wx'[m].do = "solved"
      PROVE  Arriving(wx'[m].from, hover'.tick, tick', listening', now')
  <2>1. (\E l \in DOMAIN wx : l > 0 /\ wx'[m] = wx[l]) \/ \E l \in DOMAIN p : wx'[m] = p[l]
    BY <1>3, MovedBack
  <2>2. Arriving(wx'[m].from, hover.tick, tick, listening, now)
    BY <1>3, <2>1 DEF Hovering
  <2> QED  BY <1>1, <2>2 DEF Arriving
<1> QED  BY <1>2, <1>3 DEF Hovering

\* The program runs on, ends or is lost.
LEMMA AwayKeeps ==
  ASSUME InspectInv, NEW p, NEW r, Moved(wx, 0, p, wx'), Moved(juce, 0, r, juce'),
         \A i \in DOMAIN p : WxOk(p[i]) /\ p[i].do \notin {"suspended", "solved"},
         \A i \in DOMAIN r : r[i].view = "jlocals",
         \A i \in DOMAIN wx : wx[i].do # "suspended",
         ~Stopped', ~listening', UNCHANGED <<front, views, stack, hover>>,
         now' = [starts |-> now'.starts, pause |-> now'.pause, breaks |-> now'.breaks], tick' \in Nat,
         \/ now'.breaks = now.breaks + 1
         \/ now'.breaks = now.breaks /\ tick' = tick /\ ~listening
         \/ now'.breaks = now.breaks /\ tick' = tick + 1
  PROVE  InspectInv'
<1>0. Formed /\ Hovering
  BY DEF InspectInv
<1>1. Formed'
  <2>1. /\ IsSeq(wx') /\ IsSeq(juce')
        /\ \A i \in DOMAIN wx' : WxOk(wx'[i])
        /\ \A i \in DOMAIN juce' : juce'[i].view = "jlocals"
    BY <1>0, FormMoved
  <2>2. now'.breaks \in Nat
    BY <1>0 DEF Formed
  <2> QED  BY <1>0, <2>1, <2>2 DEF Formed, ViewsFormed
<1>2. Told'
  <2>1. ASSUME NEW m \in DOMAIN wx' PROVE wx'[m].do # "suspended"
    <3>1. (\E l \in DOMAIN wx : l > 0 /\ wx'[m] = wx[l]) \/ \E l \in DOMAIN p : wx'[m] = p[l]
      BY <2>1, MovedBack
    <3> QED  BY <3>1
  <2> QED  BY <2>1 DEF Told
<1>3. Hovering'
  BY <1>0, HoveringAside
<1>4. Showing'
  BY DEF Showing
<1> QED  BY <1>1, <1>2, <1>3, <1>4 DEF InspectInv

\* The pause that waits to be taken in is told by a stopped program to a client that does
\* not yet listen.
LEMMA NoneSuspended ==
  ASSUME Told, ~Stopped \/ listening
  PROVE  \A i \in DOMAIN wx : wx[i].do # "suspended"
BY DEF Told

\* Nothing is posted.
LEMMA AwayStays ==
  ASSUME InspectInv, UNCHANGED <<wx, juce, front, views, stack, hover>>, ~Stopped \/ listening,
         ~Stopped', ~listening',
         now' = [starts |-> now'.starts, pause |-> now'.pause, breaks |-> now'.breaks], tick' \in Nat,
         \/ now'.breaks = now.breaks + 1
         \/ now'.breaks = now.breaks /\ tick' = tick /\ ~listening
         \/ now'.breaks = now.breaks /\ tick' = tick + 1
  PROVE  InspectInv'
<1>0. Formed /\ Told
  BY DEF InspectInv
<1>1. Moved(wx, 0, << >>, wx') /\ Moved(juce, 0, << >>, juce')
  BY <1>0, NothingMoves DEF Formed
<1>2. \A i \in DOMAIN wx : wx[i].do # "suspended"
  BY <1>0, NoneSuspended
<1>3. /\ \A i \in DOMAIN << >> : WxOk(<< >>[i]) /\ << >>[i].do \notin {"suspended", "solved"}
      /\ \A i \in DOMAIN << >> : << >>[i].view = "jlocals"
  BY NonePosted
<1> QED  BY <1>1, <1>2, <1>3, AwayKeeps

\* The panes in front are told to empty themselves.
LEMMA AwayClears ==
  ASSUME InspectInv, ClearVarViews, UNCHANGED <<front, views, stack, hover>>, ~Stopped \/ listening,
         ~Stopped', ~listening',
         now' = [starts |-> now'.starts, pause |-> now'.pause, breaks |-> now'.breaks], tick' \in Nat,
         \/ now'.breaks = now.breaks + 1
         \/ now'.breaks = now.breaks /\ tick' = tick /\ ~listening
  PROVE  InspectInv'
<1>0. Formed /\ Told
  BY DEF InspectInv
<1> DEFINE p == ToWx("clear", front)
<1> DEFINE r == ToJuce("clear", front)
<1>1. /\ IsSeq(p) /\ IsSeq(r)
      /\ \A i \in DOMAIN p : \E q \in front \cap (WxViews \cup {"stack"}) : p[i] = Event("clear", q)
      /\ \A i \in DOMAIN r : r[i] = Event("clear", "jlocals")
  <2>1. front \subseteq Views \cup {"stack", "memory"}
    BY <1>0, PanesAssumption DEF Formed
  <2> QED  BY <2>1, SignalIs
<1>2. wx' = wx \o p /\ juce' = juce \o r
  BY DEF ClearVarViews, Signal, ShownPages
<1> HIDE DEF p, r
<1>3. Moved(wx, 0, p, wx') /\ Moved(juce, 0, r, juce')
  BY <1>0, <1>1, <1>2, PostedMoves DEF Formed
<1>4. \A i \in DOMAIN p : WxOk(p[i]) /\ p[i].do \notin {"suspended", "solved"}
  BY <1>1 DEF WxOk, Event
<1>5. \A i \in DOMAIN r : r[i].view = "jlocals"
  BY <1>1 DEF Event
<1>6. \A i \in DOMAIN wx : wx[i].do # "suspended"
  BY <1>0, NoneSuspended
<1> QED  BY <1>3, <1>4, <1>5, <1>6, AwayKeeps

\* A session starts.
LEMMA StartKeeps ==
  ASSUME InspectInv, Start
  PROVE  InspectInv'
<1>0. Formed
  BY DEF InspectInv
<1>1. UNCHANGED <<wx, juce, front, views, stack, hover, tick, listening>> /\ ~listening
  BY DEF Start, user, aside
<1>2. ~Stopped /\ ~Stopped'
  BY DEF Start, Stopped
<1>3. now' = [now EXCEPT !.starts = now.starts + 1]
  BY DEF Start
<1>4. now' = [starts |-> now.starts + 1, pause |-> now.pause, breaks |-> now.breaks]
  BY <1>0, <1>3 DEF Formed
<1>5. /\ now' = [starts |-> now'.starts, pause |-> now'.pause, breaks |-> now'.breaks]
      /\ now'.breaks = now.breaks /\ tick' = tick /\ tick' \in Nat
  BY <1>0, <1>1, <1>4 DEF Formed
<1> QED  BY <1>1, <1>2, <1>5, AwayStays

\* The daemon dies at a pause.
LEMMA DaemonDiesKeeps ==
  ASSUME InspectInv, NEW p, DaemonDies(p)
  PROVE  InspectInv'
<1>0. Formed /\ Told
  BY DEF InspectInv
<1>1. UNCHANGED <<now, wx, juce, front, views, stack, hover, tick, listening>>
  BY DEF DaemonDies, user, aside
<1>2. ~Stopped /\ ~Stopped'
  BY DEF DaemonDies, Stopped
<1>3. ~listening
  BY <1>0, <1>2 DEF Told
<1>4. now' = [starts |-> now'.starts, pause |-> now'.pause, breaks |-> now'.breaks] /\ tick' \in Nat
  BY <1>0, <1>1 DEF Formed
<1> QED  BY <1>1, <1>2, <1>3, <1>4, AwayStays

\* The program runs on.
LEMMA ResumeKeeps ==
  ASSUME InspectInv, ResumeExecution
  PROVE  InspectInv'
<1>0. Formed
  BY DEF InspectInv
<1>1. UNCHANGED <<now, wx, juce, front, views, stack, hover>> /\ listening /\ ~listening'
  BY DEF ResumeExecution, user, aside
<1>2. ~Stopped'
  BY DEF ResumeExecution, Stopped
<1>3. tick' = tick + 1
  BY DEF ResumeExecution, StepDaemonTick
<1>4. now' = [starts |-> now'.starts, pause |-> now'.pause, breaks |-> now'.breaks] /\ tick' \in Nat
  BY <1>0, <1>1, <1>3 DEF Formed
<1> QED  BY <1>1, <1>2, <1>3, <1>4, AwayStays

\* The program has ended.
LEMMA SessionEndsKeeps ==
  ASSUME InspectInv, SessionEnds
  PROVE  InspectInv'
<1>0. Formed /\ Told
  BY DEF InspectInv
<1>1. UNCHANGED <<now, front, views, stack, hover, tick, listening>> /\ ClearVarViews
  BY DEF SessionEnds, user, aside
<1>2. ~Stopped /\ ~Stopped'
  BY DEF SessionEnds, Stopped
<1>3. ~listening
  BY <1>0, <1>2 DEF Told
<1>4. now' = [starts |-> now'.starts, pause |-> now'.pause, breaks |-> now'.breaks] /\ tick' \in Nat
  BY <1>0, <1>1 DEF Formed
<1> QED  BY <1>1, <1>2, <1>3, <1>4, AwayClears

\* The connection is lost.
LEMMA LostKeeps ==
  ASSUME InspectInv, LostConnection
  PROVE  InspectInv'
<1>0. Formed
  BY DEF InspectInv
<1>1. UNCHANGED <<front, views, stack, hover, tick>> /\ ClearVarViews /\ ~listening'
  BY DEF LostConnection, user, aside
<1>2. (~Stopped \/ listening) /\ ~Stopped'
  BY DEF LostConnection, Stopped
<1>3. now' = [now EXCEPT !.breaks = now.breaks + 1]
  BY DEF LostConnection
<1>4. now' = [starts |-> now.starts, pause |-> now.pause, breaks |-> now.breaks + 1]
  BY <1>0, <1>3 DEF Formed
<1>5. /\ now' = [starts |-> now'.starts, pause |-> now'.pause, breaks |-> now'.breaks]
      /\ now'.breaks = now.breaks + 1 /\ tick' \in Nat
  BY <1>0, <1>1, <1>4 DEF Formed
<1> QED  BY <1>1, <1>2, <1>5, AwayClears

\* The views are emptied.
LEMMA ResetKeeps ==
  ASSUME InspectInv, ResetProject
  PROVE  InspectInv'
<1>0. Formed /\ Told
  BY DEF InspectInv
<1>1. UNCHANGED <<prog, wx, juce, front, views, stack, hover, listening>> /\ tick' = 0
  BY DEF ResetProject, user, aside
<1>2. ~Stopped /\ ~Stopped'
  BY <1>1 DEF ResetProject, Stopped
<1>3. ~listening'
  BY <1>0, <1>1, <1>2 DEF Told
<1>4. now' = [now EXCEPT !.breaks = now.breaks + 1]
  BY DEF ResetProject
<1>5. now' = [starts |-> now.starts, pause |-> now.pause, breaks |-> now.breaks + 1]
  BY <1>0, <1>4 DEF Formed
<1>6. /\ now' = [starts |-> now'.starts, pause |-> now'.pause, breaks |-> now'.breaks]
      /\ now'.breaks = now.breaks + 1 /\ tick' \in Nat
  BY <1>1, <1>5
<1> QED  BY <1>1, <1>2, <1>3, <1>6, AwayStays

\* The pause is told last of all that waits.
LEMMA PauseKeeps ==
  ASSUME InspectInv, NEW p \in Programs, Pause(p)
  PROVE  InspectInv'
<1>0. Formed /\ Told /\ Hovering
  BY DEF InspectInv
<1> DEFINE e == Event("suspended", "")
<1>1. e.do = "suspended" /\ WxOk(e)
  BY DEF Event, WxOk
<1>2. wx' = Append(wx, e) /\ \A i \in DOMAIN wx : wx[i].do # "clear"
  BY DEF Pause
<1> HIDE DEF e
<1>3. UNCHANGED <<listening, tick, front, views, hover, juce>>
  BY DEF Pause, user
<1>4. ~Stopped /\ Stopped'
  BY ProgramsAssumption DEF Pause, Stopped
<1>5. ~listening /\ \A i \in DOMAIN wx : wx[i].do # "suspended"
  BY <1>0, <1>4 DEF Told
<1>6. stack' = [levels |-> ToClientStack(p), rows |-> stack.rows] /\ prog' = p
  BY <1>0 DEF Pause, Formed
<1>7. now' = [starts |-> now.starts, pause |-> now.pause + 1, breaks |-> now.breaks]
  <2>1. now' = [now EXCEPT !.pause = now.pause + 1]
    BY DEF Pause
  <2> QED  BY <1>0, <2>1 DEF Formed
<1>8. now' = [starts |-> now'.starts, pause |-> now'.pause, breaks |-> now'.breaks] /\ now'.breaks = now.breaks
  BY <1>7
<1>9. IsSeq(<<e>>) /\ DOMAIN <<e>> = {1} /\ << e >>[1] = e
  BY OnePosted
<1>10. Moved(wx, 0, <<e>>, wx') /\ Moved(juce, 0, << >>, juce')
  <2>1. wx' = wx \o <<e>>
    BY <1>0, <1>2, AppendIs DEF Formed
  <2>2. Moved(juce, 0, << >>, juce')
    BY <1>0, <1>3, NothingMoves DEF Formed
  <2> QED  BY <1>0, <1>9, <2>1, <2>2, PostedMoves DEF Formed
<1>11. Formed'
  <2>1. \A i \in DOMAIN <<e>> : WxOk(<< e >>[i])
    BY <1>1, <1>9
  <2>2. /\ IsSeq(wx') /\ IsSeq(juce')
        /\ \A i \in DOMAIN wx' : WxOk(wx'[i])
        /\ \A i \in DOMAIN juce' : juce'[i].view = "jlocals"
    BY <1>0, <1>10, <2>1, NonePosted, FormMoved
  <2>3. stack' = [levels |-> stack'.levels, rows |-> stack'.rows]
    BY <1>6
  <2> QED  BY <1>0, <1>3, <1>8, <2>2, <2>3 DEF Formed, ViewsFormed
<1>12. Told'
  <2>1. /\ DOMAIN wx = 1..Len(wx) /\ Len(wx) \in Nat /\ DOMAIN wx' = 1..Len(wx') /\ Len(wx') = Len(wx) + 1
        /\ \A i \in 1..Len(wx) : wx'[i] = wx[i]
        /\ wx'[Len(wx) + 1] = e
    <3>1. IsSeq(wx) /\ wx' = wx \o <<e>> /\ Len(<<e>>) = 1
      BY <1>0, <1>2, AppendIs, OneIs DEF Formed
    <3>2. /\ IsSeq(wx') /\ Len(wx') = Len(wx) + 1
          /\ \A i \in 1..Len(wx) : wx'[i] = wx[i]
          /\ wx'[Len(wx) + 1] = << e >>[1]
      BY <1>9, <3>1, CatIs
    <3> QED  BY <1>9, <3>1, <3>2, SeqHas
  <2>2. ASSUME NEW i \in DOMAIN wx', wx'[i].do = "suspended"
        PROVE  \A j \in DOMAIN wx' : j > i => wx'[j].do \notin {"suspended", "solved"}
    <3>1. i = Len(wx) + 1
      BY <1>5, <2>1, <2>2
    <3> QED  BY <2>1, <3>1
  <2>3. \A i \in DOMAIN wx' : wx'[i].do # "clear"
    BY <1>1, <1>2, <2>1
  <2>4. stack'.levels = ToClientStack(prog')
    BY <1>6
  <2> QED  BY <1>3, <1>4, <1>5, <2>2, <2>3, <2>4 DEF Told
<1>13. Hovering'
  <2>1. \A i \in DOMAIN <<e>> : << e >>[i].do # "solved"
    BY <1>1, <1>9
  <2> QED  BY <1>0, <1>3, <1>5, <1>8, <1>10, <2>1, HoveringAside
<1>14. Showing'
  BY <1>3, <1>5 DEF Showing
<1> QED  BY <1>11, <1>12, <1>13, <1>14 DEF InspectInv

-----------------------------------------------------------------------------
(* Theorems.                                                                *)

\* Every step keeps the invariant.
LEMMA InspectStep ==
  ASSUME InspectInv, [InspectNext]_inspectVars
  PROVE  InspectInv'
<1>1. CASE UNCHANGED inspectVars
  <2>1. hover' = [cache |-> hover.cache, asked |-> hover'.asked, tick |-> hover.tick, tip |-> hover'.tip]
    BY <1>1 DEF InspectInv, Formed, inspectVars, aside
  <2> QED  BY <1>1, <2>1, QuietStays DEF inspectVars, daemon, user, aside
<1>2. CASE Start \/ (\E p \in Programs : Pause(p)) \/ ResumeExecution \/ SessionEnds
           \/ LostConnection \/ ResetProject \/ (\E p \in Programs : DaemonDies(p))
  BY <1>2, StartKeeps, PauseKeeps, ResumeKeeps, SessionEndsKeeps, LostKeeps, ResetKeeps, DaemonDiesKeeps
<1>3. CASE Handle
  <2>1. ASSUME wx # << >>, \/ OnLuaSuspended \/ RequestVarReload \/ OnWxThread \/ ReloadStack \/ DispatchReply
                           \/ OnPostedCollectedMessage \/ OnClear \/ SetSolvedVariable
                           \/ OnShowMemory \/ PassShowMemory \/ OnRedraw
        PROVE  InspectInv'
    BY <2>1, OnLuaSuspendedKeeps, RequestVarReloadKeeps, OnWxThreadKeeps, ReloadStackKeeps,
       DispatchReplyKeeps, OnPostedKeeps, OnClearKeeps, SetSolvedKeeps, OnShowMemoryKeeps,
       PassShowMemoryKeeps, OnRedrawKeeps
  <2>2. ASSUME juce # << >>, JuceReload \/ JuceSet \/ JuceClear \/ handleAsyncUpdate
        PROVE  InspectInv'
    BY <2>2, JuceReloadKeeps, JuceSetKeeps, JuceClearKeeps, AsyncUpdateKeeps
  <2> QED  BY <1>3, <2>1, <2>2 DEF Handle
<1>4. CASE Use
  <2>1. ASSUME NEW v, OnGridEvent(v) PROVE InspectInv'
    BY <2>1, ToggleTableKeeps, ShowMemoryKeeps, CollapseAllKeeps, BeginEditKeeps, ListItemDeleteKeeps
       DEF OnGridEvent
  <2> QED  BY <1>4, <2>1, SelectPaneKeeps, AutoButtonKeeps, VarToggleKeeps, JuceToggleKeeps, ShowMemoryKeeps,
              SpinKeeps, ResizeKeeps, ShowVarPathsKeeps, RefreshMemoryKeeps, RightDownKeeps, MouseMoveKeeps
              DEF Use
<1>5. CASE CancelToolTip \/ paintCell \/ (\E word \in Words \cup {Named("")} : EndEdit(word))
           \/ (\E i \in DOMAIN stack.rows : OnItemActivated(i))
  BY <1>5, CancelTipKeeps, PaintCellKeeps, EndEditKeeps, ItemActivatedKeeps
<1> QED  BY <1>1, <1>2, <1>3, <1>4, <1>5 DEF InspectNext

\* The invariant always holds.
LEMMA InspectAlways == InspectSpec => []InspectInv
<1>1. InspectInit => InspectInv
  BY InspectStarts
<1>2. InspectInv /\ [InspectNext]_inspectVars => InspectInv'
  BY InspectStep
<1> QED  BY <1>1, <1>2, PTL DEF InspectSpec

\* Whatever was selected, resumed, lost or posted before, once nothing waits in the two
\* threads the panes in front show lists of this pause and of the selected frame, and
\* the call stack that of the daemon (the reload signals of TopFrame.cpp, the answers
\* of VarViewCtrl.cpp and VarViewComponent.cpp).
THEOREM ShownIsCurrentAlways == InspectSpec => []ShownIsCurrent
<1>1. ASSUME InspectInv PROVE ShownIsCurrent
  <2> SUFFICES ASSUME listening, wx = << >>, juce = << >>
               PROVE  /\ \A v \in front \cap Views : views[v].from = now /\ views[v].level = level
                      /\ "stack" \in front => stack.rows = Traced(ToClientStack(prog))
    BY DEF ShownIsCurrent
  <2>1. Showing
    BY <1>1 DEF InspectInv
  <2>2. \A i \in DOMAIN wx : FALSE
    BY NonePosted
  <2>3. \A i \in DOMAIN juce : FALSE
    BY NonePosted
  <2>4. ASSUME NEW v \in front \cap Views PROVE views[v].from = now /\ views[v].level = level
    <3>1. Coming(wx, juce, views[v], v, now, level)
      BY <2>1 DEF Showing
    <3>2. ~Asking(wx, juce, v) /\ ~Replying(wx, v, now, level)
      BY <2>2, <2>3 DEF Asking, Has, Replying, LastAt
    <3>3. Listing(ShownIn(wx, juce, v), views[v], v, now, level)
      BY <3>1, <3>2 DEF Coming
    <3>4. \A i \in DOMAIN ShownIn(wx, juce, v) : FALSE
      BY <2>2, <2>3 DEF ShownIn
    <3> QED  BY <3>3, <3>4 DEF Listing, LastAt, Fresh
  <2>5. ASSUME "stack" \in front PROVE stack.rows = Traced(ToClientStack(prog))
    BY <2>1, <2>2, <2>5 DEF Showing, Has
  <2> QED  BY <2>4, <2>5
<1> QED  BY <1>1, InspectAlways, PTL

\* A tip that comes up tells the value of this pause, unless a connection was lost or a
\* project reset since it was asked for: m_LastDaemonTick tells the pauses apart, and a
\* value that comes late finds its word forgotten or its tick gone (StyledSourceCtrl.cpp).
THEOREM TipsAreOfThisPauseAlways == InspectSpec => TipsAreOfThisPause
<1> DEFINE Tip == hover'.tip # hover.tip /\ hover'.tip # NoTip /\ hover'.tip.from.breaks = now.breaks
                    => hover'.tip.from = now
<1>1. ASSUME InspectInv, [InspectNext]_inspectVars PROVE Tip
  <2> SUFFICES ASSUME hover'.tip # hover.tip, hover'.tip # NoTip, hover'.tip.from.breaks = now.breaks
               PROVE  hover'.tip.from = now
    OBVIOUS
  <2>1. Formed /\ Hovering
    BY <1>1 DEF InspectInv
  <2>2. ASSUME hover' = [hover EXCEPT !.tip = NoTip] PROVE FALSE
    BY <2>1, <2>2 DEF Formed
  <2>3. ASSUME NEW i, OnMouseMove(i) PROVE hover'.tip.from = now
    <3> DEFINE word  == GetToolTipWord[i]
    <3> DEFINE cache == IF hover.tick # tick THEN << >> ELSE hover.cache
    <3>1. CASE word \in DOMAIN cache
      <4>1. \E asked : hover' = [cache |-> cache, asked |-> asked, tick |-> tick,
                         tip |-> [of |-> word, val |-> cache[word].val, from |-> cache[word].from]]
        BY <2>3, <3>1 DEF OnMouseMove
      <4>2. hover'.tip.from = cache[word].from
        BY <4>1
      <4>3. hover.tick = tick /\ cache = hover.cache
        BY <3>1
      <4>4. Kept(hover.cache[word].from, hover.tick, tick, listening, now)
        BY <2>1, <3>1, <4>3 DEF Hovering
      <4> QED  BY <4>2, <4>3, <4>4 DEF Kept
    <3>2. CASE word \notin DOMAIN cache
      <4>1. \E asked : hover' = [cache |-> cache, tick |-> tick, tip |-> hover.tip, asked |-> asked]
        BY <2>3, <3>2 DEF OnMouseMove
      <4> QED  BY <4>1
    <3> QED  BY <3>1, <3>2
  <2>4. CASE hover'.tip = hover.tip
    BY <2>4
  <2>5. CASE SetSolvedVariable
    <3>1. \E c, a : hover' = [hover EXCEPT !.asked = a, !.cache = c]
      BY <2>5 DEF SetSolvedVariable
    <3>2. PICK c, a : hover' = [hover EXCEPT !.asked = a, !.cache = c]
      BY <3>1
    <3>3. hover' = [[hover EXCEPT !.asked = a] EXCEPT !.cache = c]
      BY <3>2
    <3> QED  BY <2>1, <3>3 DEF Formed
  <2>6. (hover' = hover) \/ (hover' = [hover EXCEPT !.tip = NoTip]) \/ (\E i : OnMouseMove(i)) \/ SetSolvedVariable
    <3>1. CASE UNCHANGED inspectVars
      BY <3>1 DEF inspectVars, aside
    <3>2. CASE Start \/ (\E p \in Programs : Pause(p)) \/ ResumeExecution \/ SessionEnds
               \/ LostConnection \/ ResetProject \/ (\E p \in Programs : DaemonDies(p)) \/ paintCell
      BY <3>2 DEF Start, Pause, ResumeExecution, SessionEnds, LostConnection, ResetProject, DaemonDies,
                  paintCell, aside
    <3>3. CASE Handle
      BY <3>3 DEF Handle, OnLuaSuspended, RequestVarReload, OnWxThread, ReloadStack, DispatchReply,
                  OnPostedCollectedMessage, OnClear, OnShowMemory, PassShowMemory, OnRedraw,
                  JuceReload, JuceSet, JuceClear, handleAsyncUpdate, aside
    <3>4. CASE Use
      BY <3>4 DEF Use, OnGridEvent, SelectPane, ToggleTable, ShowMemory, CollapseAll, BeginEdit,
                  OnListItemDelete, OnAutoButtonToggled, OnVarToggleButton, JuceToggle, OnSpinRangeEvent,
                  OnResizeEvent, OnShowVarPaths, OnRefreshMemoryView, OnRightDown, aside
    <3>5. CASE CancelToolTip \/ (\E word \in Words \cup {Named("")} : EndEdit(word))
               \/ (\E i \in DOMAIN stack.rows : OnItemActivated(i))
      BY <3>5 DEF CancelToolTip, EndEdit, OnItemActivated, aside
    <3> QED  BY <1>1, <3>1, <3>2, <3>3, <3>4, <3>5 DEF InspectNext
  <2> QED  BY <2>2, <2>3, <2>4, <2>5, <2>6
<1>2. InspectInv /\ [InspectNext]_inspectVars => [Tip]_inspectVars
  BY <1>1
<1> QED  BY <1>2, InspectAlways, PTL DEF InspectSpec, TipsAreOfThisPause

-----------------------------------------------------------------------------
(* Lists put one behind the other.                                          *)

\* The lists up to each one, joined.
Joined(seqs, n, f) == f = [i \in 1..n |-> IF i = 1 THEN seqs[i] ELSE f[i - 1] \o seqs[i]]

\* There is such a function for every number of lists.
LEMMA JoinedExists ==
  ASSUME NEW seqs
  PROVE  \A n \in Nat : \E f : Joined(seqs, n, f)
<1> DEFINE Q == {n \in Nat : \E f : Joined(seqs, n, f)}
<1>1. 0 \in Q
  <2> DEFINE f == [i \in 1..0 |-> seqs[i]]
  <2>1. \A i \in 1..0 : FALSE
    OBVIOUS
  <2>2. f = [i \in 1..0 |-> IF i = 1 THEN seqs[i] ELSE f[i - 1] \o seqs[i]]
    BY Zenon, <2>1
  <2>3. Joined(seqs, 0, f)
    BY Zenon, <2>2 DEF Joined
  <2> QED  BY <2>3
<1>2. ASSUME NEW n \in Nat, n \in Q PROVE n + 1 \in Q
  <2>1. PICK f : Joined(seqs, n, f)
    BY <1>2
  <2> DEFINE g == [i \in 1..(n + 1) |-> IF i \in 1..n THEN f[i]
                                       ELSE IF i = 1 THEN seqs[i] ELSE f[i - 1] \o seqs[i]]
  <2>2. ASSUME NEW i \in 1..(n + 1)
        PROVE  g[i] = IF i = 1 THEN seqs[i] ELSE g[i - 1] \o seqs[i]
    <3>1. CASE i \in 1..n
      <4>1. f[i] = IF i = 1 THEN seqs[i] ELSE f[i - 1] \o seqs[i]
        BY Zenon, <2>1, <3>1 DEF Joined
      <4>2. CASE i = 1
        BY Zenon, <3>1, <4>1, <4>2
      <4>3. CASE i # 1
        <5>1. i - 1 \in 1..n /\ i - 1 \in 1..(n + 1)
          BY <3>1, <4>3
        <5>2. g[i - 1] = f[i - 1] /\ g[i] = f[i]
          BY Zenon, <3>1, <5>1
        <5> HIDE DEF g
        <5> QED  BY Zenon, <4>1, <4>3, <5>2
      <4> QED  BY <4>2, <4>3
    <3>2. CASE i \notin 1..n
      <4>1. CASE i = 1
        BY Zenon, <3>2, <4>1
      <4>2. CASE i # 1
        <5>1. i - 1 \in 1..n /\ i - 1 \in 1..(n + 1)
          BY <3>2, <4>2
        <5>2. g[i - 1] = f[i - 1] /\ g[i] = f[i - 1] \o seqs[i]
          BY Zenon, <3>2, <4>2, <5>1
        <5> HIDE DEF g
        <5> QED  BY Zenon, <4>2, <5>2
      <4> QED  BY <4>1, <4>2
    <3> QED  BY <3>1, <3>2
  <2>3. g = [i \in 1..(n + 1) |-> g[i]]
    BY Zenon
  <2> HIDE DEF g
  <2>4. g = [i \in 1..(n + 1) |-> IF i = 1 THEN seqs[i] ELSE g[i - 1] \o seqs[i]]
    BY Zenon, <2>2, <2>3
  <2>5. Joined(seqs, n + 1, g)
    BY Zenon, <2>4 DEF Joined
  <2> QED  BY <2>5
<1> HIDE DEF Q
<1>3. Nat \subseteq Q
  BY <1>1, <1>2, NaturalsAreReached
<1> QED  BY <1>3 DEF Q

\* FlattenSeq() is the last of them.
LEMMA FlattenIs ==
  ASSUME NEW seqs, NEW n \in Nat, n # 0, Len(seqs) = n
  PROVE  \E f : /\ FlattenSeq(seqs) = f[n] /\ f[1] = seqs[1]
                /\ \A i \in 1..(n - 1) : f[i + 1] = f[i] \o seqs[i + 1]
<1> DEFINE g == CHOOSE f : Joined(seqs, n, f)
<1>1. Joined(seqs, n, g)
  BY JoinedExists
<1>2. FlattenSeq(seqs) = g[n]
  <2>1. Len(seqs) # 0
    OBVIOUS
  <2>2. FlattenSeq(seqs) = (CHOOSE f : f = [i \in 1..Len(seqs) |->
                              IF i = 1 THEN seqs[i] ELSE f[i - 1] \o seqs[i]])[Len(seqs)]
    BY Zenon, <2>1 DEF FlattenSeq
  <2> QED  BY Zenon, <2>2 DEF Joined
<1> HIDE DEF g
<1>3. g = [i \in 1..n |-> IF i = 1 THEN seqs[i] ELSE g[i - 1] \o seqs[i]]
  BY Zenon, <1>1 DEF Joined
<1>4. \A i \in 1..n : g[i] = IF i = 1 THEN seqs[i] ELSE g[i - 1] \o seqs[i]
  BY Zenon, <1>3
<1>5. g[1] = seqs[1]
  <2>1. 1 \in 1..n
    OBVIOUS
  <2> QED  BY <1>4, <2>1
<1>6. ASSUME NEW i \in 1..(n - 1) PROVE g[i + 1] = g[i] \o seqs[i + 1]
  <2>1. i + 1 \in 1..n /\ i + 1 # 1 /\ (i + 1) - 1 = i
    OBVIOUS
  <2> QED  BY <1>4, <2>1
<1> QED  BY Zenon, <1>2, <1>5, <1>6

\* A set of lists that holds the empty one and the join of any two holds the join of all.
LEMMA FlattenIn ==
  ASSUME NEW W, << >> \in W, \A a, b \in W : a \o b \in W,
         NEW seqs, IsSeq(seqs), \A i \in DOMAIN seqs : seqs[i] \in W
  PROVE  FlattenSeq(seqs) \in W
<1> DEFINE n == Len(seqs)
<1>1. n \in Nat /\ DOMAIN seqs = 1..n /\ (seqs = << >> <=> n = 0)
  BY SeqHas
<1>2. CASE n = 0
  <2>1. FlattenSeq(seqs) = seqs
    BY Zenon, <1>2 DEF FlattenSeq
  <2> QED  BY <1>1, <1>2, <2>1
<1>3. CASE n # 0
  <2> HIDE DEF n
  <2>0. Len(seqs) = n
    BY DEF n
  <2>1. PICK f : /\ FlattenSeq(seqs) = f[n] /\ f[1] = seqs[1]
                 /\ \A i \in 1..(n - 1) : f[i + 1] = f[i] \o seqs[i + 1]
    BY <1>1, <1>3, <2>0, FlattenIs
  <2> DEFINE Q == {k \in Nat : k + 1 \in 1..n => f[k + 1] \in W}
  <2>2. 0 \in Q
    <3>1. f[0 + 1] = seqs[1]
      BY <2>1
    <3>2. 1 \in DOMAIN seqs
      BY <1>1, <1>3
    <3> QED  BY <3>1, <3>2
  <2>3. ASSUME NEW k \in Nat, k \in Q PROVE k + 1 \in Q
    <3> SUFFICES ASSUME (k + 1) + 1 \in 1..n PROVE f[(k + 1) + 1] \in W
      OBVIOUS
    <3>1. k + 1 \in 1..n /\ k + 1 \in 1..(n - 1)
      BY <1>1
    <3>2. f[k + 1] \in W
      BY <2>3, <3>1
    <3>3. f[(k + 1) + 1] = f[k + 1] \o seqs[(k + 1) + 1]
      BY <2>1, <3>1
    <3>4. seqs[(k + 1) + 1] \in W
      BY <1>1
    <3> QED  BY <3>2, <3>3, <3>4
  <2> HIDE DEF Q
  <2>4. Nat \subseteq Q
    BY <2>2, <2>3, NaturalsAreReached
  <2>5. n - 1 \in Nat /\ (n - 1) + 1 = n /\ n \in 1..n
    BY <1>1, <1>3
  <2>6. n - 1 \in Q
    BY <2>4, <2>5
  <2>7. f[(n - 1) + 1] \in W
    BY <2>5, <2>6 DEF Q
  <2> QED  BY <2>1, <2>5, <2>7
<1> QED  BY <1>2, <1>3

-----------------------------------------------------------------------------
(* Paths.                                                                   *)

\* The beginning of a list.
LEMMA SubSeqIs ==
  ASSUME NEW s, IsSeq(s), NEW m \in Nat, m <= Len(s)
  PROVE  SubSeq(s, 1, m) = [i \in 1..m |-> s[i]]
<1> DEFINE R == {s[i] : i \in DOMAIN s}
<1>1. s \in Seq(R) /\ Len(s) \in Nat
  BY SeqHas DEF IsSeq
<1> HIDE DEF R
<1> DEFINE t == SubSeq(s, 1, m)
<1>2. t \in Seq(R) /\ Len(t) = m /\ \A i \in 1..m : t[i] = s[i]
  BY <1>1, SubSeqProperties
<1> HIDE DEF t
<1>3. t = [i \in 1..m |-> t[i]]
  BY <1>2, LenProperties
<1>4. t = [i \in 1..m |-> s[i]]
  BY <1>2, <1>3, Zenon
<1> QED  BY <1>4 DEF t

\* Entry by entry.
LEMMA PrefixIs ==
  ASSUME NEW s, NEW t, IsSeq(s), IsSeq(t)
  PROVE  IsPrefix(s, t) <=> Len(s) <= Len(t) /\ \A i \in 1..Len(s) : s[i] = t[i]
<1>1. Len(s) \in Nat /\ Len(t) \in Nat
  BY SeqHas
<1>2. CASE Len(s) <= Len(t)
  <2>1. /\ SubSeq(s, 1, Len(s)) = [i \in 1..Len(s) |-> s[i]]
        /\ SubSeq(t, 1, Len(s)) = [i \in 1..Len(s) |-> t[i]]
    BY <1>1, <1>2, SubSeqIs
  <2> DEFINE n == Len(s)
  <2> HIDE DEF n
  <2>2. [i \in 1..n |-> s[i]] = [i \in 1..n |-> t[i]] <=> \A i \in 1..n : s[i] = t[i]
    BY Zenon
  <2> QED  BY Zenon, <1>2, <2>1, <2>2 DEF IsPrefix, n
<1>3. CASE ~(Len(s) <= Len(t))
  BY <1>3 DEF IsPrefix
<1> QED  BY <1>2, <1>3

\* Of a beginning of a list, each beginning.
LEMMA PrefixOfPrefix ==
  ASSUME NEW s, NEW t, NEW u, IsSeq(s), IsSeq(t), IsSeq(u), IsPrefix(s, t), IsPrefix(t, u)
  PROVE  IsPrefix(s, u)
<1>1. Len(s) \in Nat /\ Len(t) \in Nat /\ Len(u) \in Nat
  BY SeqHas
<1>2. Len(s) <= Len(t) /\ \A i \in 1..Len(s) : s[i] = t[i]
  BY PrefixIs
<1>3. Len(t) <= Len(u) /\ \A i \in 1..Len(t) : t[i] = u[i]
  BY PrefixIs
<1>4. Len(s) <= Len(u) /\ \A i \in 1..Len(s) : s[i] = u[i]
  <2>1. \A i \in 1..Len(s) : i \in 1..Len(t)
    BY <1>1, <1>2
  <2> QED  BY <1>1, <1>2, <1>3, <2>1
<1> QED  BY <1>4, PrefixIs

\* The path of the table that a field is of.
Parent(path) == SubSeq(path, 1, Len(path) - 1)

\* It is a list, and a path begins with itself.
LEMMA ParentIs ==
  ASSUME NEW p, IsSeq(p), Len(p) > 0
  PROVE  IsSeq(Parent(p)) /\ IsPrefix(p, p)
<1>1. Len(p) \in Nat /\ Len(p) - 1 \in Nat
  BY SeqHas
<1>2. IsSeq(Parent(p))
  <2> DEFINE R == {p[i] : i \in DOMAIN p}
  <2>1. p \in Seq(R)
    BY DEF IsSeq
  <2> HIDE DEF R
  <2>2. \A i \in 1..(Len(p) - 1) : p[i] \in R
    BY <1>1, <2>1
  <2>3. Parent(p) \in Seq(R)
    BY <1>1, <2>2, SubSeqProperties DEF Parent
  <2> QED  BY <2>3, SeqIs
<1>4. IsPrefix(p, p)
  BY <1>1, PrefixIs
<1> QED  BY <1>2, <1>4

\* A field is under its table.
LEMMA FieldPath ==
  ASSUME NEW p, NEW k, IsSeq(p)
  PROVE  /\ IsSeq(Append(p, k)) /\ Len(Append(p, k)) = Len(p) + 1
         /\ Parent(Append(p, k)) = p /\ IsPrefix(p, Append(p, k))
<1> DEFINE a == Append(p, k)
<1>1. Len(p) \in Nat /\ DOMAIN p = 1..Len(p)
  BY SeqHas
<1>2. a = p \o <<k>>
  BY AppendIs
<1>3. IsSeq(<<k>>) /\ Len(<<k>>) = 1
  BY OneIs
<1>4. /\ IsSeq(a) /\ Len(a) = Len(p) + 1
      /\ \A i \in 1..Len(p) : a[i] = p[i]
  BY <1>1, <1>2, <1>3, CatIs
<1> HIDE DEF a
<1>5. Parent(a) = [i \in 1..Len(p) |-> a[i]]
  <2>1. Len(a) - 1 = Len(p) /\ Len(p) <= Len(a)
    BY <1>1, <1>4
  <2> QED  BY <1>1, <1>4, <2>1, SubSeqIs DEF Parent
<1>6. p = [i \in 1..Len(p) |-> p[i]]
  <2> DEFINE R == {p[i] : i \in DOMAIN p}
  <2>1. p \in Seq(R)
    BY DEF IsSeq
  <2> HIDE DEF R
  <2> QED  BY <2>1, LenProperties
<1>7. Parent(a) = p
  BY <1>4, <1>5, <1>6, Zenon
<1>8. IsPrefix(p, a)
  <2>1. Len(p) <= Len(a)
    BY <1>1, <1>4
  <2> QED  BY <1>4, <2>1, PrefixIs
<1> QED  BY <1>4, <1>7, <1>8 DEF a

-----------------------------------------------------------------------------
(* The rows of tables (DumpLuaTableRecursive()).                             *)

\* A function on 1..n is a list.
LEMMA FunIs ==
  ASSUME NEW n \in Nat, NEW f, f = [i \in 1..n |-> f[i]]
  PROVE  IsSeq(f) /\ Len(f) = n /\ DOMAIN f = 1..n
<1> DEFINE R == {f[i] : i \in 1..n}
<1>1. \A i \in 1..n : f[i] \in R
  OBVIOUS
<1> HIDE DEF R
<1>2. [i \in 1..n |-> f[i]] \in Seq(R)
  BY <1>1, IsASeq
<1>3. f \in Seq(R) /\ DOMAIN f = 1..n
  BY <1>2, Zenon
<1>4. IsSeq(f) /\ Len(f) \in Nat /\ DOMAIN f = 1..Len(f)
  BY <1>3, SeqIs
<1> QED  BY <1>3, <1>4, LenProperties

\* A list of members of a set.
LEMMA InSeq ==
  ASSUME NEW E, NEW s, IsSeq(s), \A i \in DOMAIN s : s[i] \in E
  PROVE  s \in Seq(E)
<1> DEFINE R == {s[i] : i \in DOMAIN s}
<1>1. s \in Seq(R)
  BY DEF IsSeq
<1> HIDE DEF R
<1>2. s = [i \in 1..Len(s) |-> s[i]] /\ Len(s) \in Nat /\ DOMAIN s = 1..Len(s)
  BY <1>1, LenProperties
<1>3. [i \in 1..Len(s) |-> s[i]] \in Seq(E)
  BY <1>2, IsASeq
<1> QED  BY <1>2, <1>3

\* The members of joined lists are members of one of them.
LEMMA FlattenHas ==
  ASSUME NEW E, NEW seqs, IsSeq(seqs),
         \A i \in DOMAIN seqs : IsSeq(seqs[i]) /\ \A k \in DOMAIN seqs[i] : seqs[i][k] \in E
  PROVE  /\ IsSeq(FlattenSeq(seqs))
         /\ \A k \in DOMAIN FlattenSeq(seqs) : FlattenSeq(seqs)[k] \in E
<1> DEFINE W == Seq(E)
<1>1. << >> \in W /\ \A a, b \in W : a \o b \in W
  OBVIOUS
<1>2. \A i \in DOMAIN seqs : seqs[i] \in W
  BY InSeq
<1> HIDE DEF W
<1>3. FlattenSeq(seqs) \in W
  BY <1>1, <1>2, FlattenIn
<1> DEFINE f == FlattenSeq(seqs)
<1> HIDE DEF f
<1>4. f \in Seq(E)
  BY <1>3 DEF f, W
<1>5. IsSeq(f) /\ DOMAIN f = 1..Len(f) /\ \A k \in 1..Len(f) : f[k] \in E
  BY <1>4, SeqIs, ElementOfSeq
<1> QED  BY <1>5 DEF f

\* The empty list.
LEMMA NoneIs == IsSeq(<< >>) /\ Len(<< >>) = 0 /\ \A i \in DOMAIN << >> : FALSE
<1>1. << >> \in Seq({})
  OBVIOUS
<1>2. IsSeq(<< >>) /\ DOMAIN << >> = 1..Len(<< >>) /\ Len(<< >>) = 0
  BY <1>1, SeqIs
<1> QED  BY <1>2

\* A row with a path, whose table can be opened if it is to be.
RowOk(heap, r) ==
  /\ r = [path |-> r.path, val |-> r.val, scope |-> r.scope, temp |-> r.temp, indent |-> r.indent,
          expanded |-> r.expanded, root |-> r.root]
  /\ IsSeq(r.path) /\ Len(r.path) > 0 /\ r.indent \in Nat
  /\ r.expanded => r.val.id \in DOMAIN heap
HeapOk(heap) ==
  \A t \in DOMAIN heap :
    IsSeq(heap[t]) /\ \A i \in DOMAIN heap[t] : heap[t][i].val.type = "table" => heap[t][i].val.id \in DOMAIN heap

\* A row of a table follows the row it is a field of or another field of that.
Under(rows, i) == rows[i].indent > 0 => i > 1 /\ IsPrefix(Parent(rows[i].path), rows[i - 1].path)
Nested(heap, rows) == IsSeq(rows) /\ \A i \in DOMAIN rows : RowOk(heap, rows[i]) /\ Under(rows, i)

\* One row, or none.
LEMMA RowIs ==
  ASSUME NEW req, NEW path, NEW v, NEW scope, NEW temp, NEW indent \in Nat,
         IsSeq(path), Len(path) > 0, v.type = "table" => v.id \in DOMAIN req.heap,
         NEW s, s = Row(req, path, v, scope, temp, indent)
  PROVE  /\ IsSeq(s)
         /\ \A i \in DOMAIN s : /\ i = 1 /\ RowOk(req.heap, s[i])
                                /\ s[i].path = path /\ s[i].indent = indent
<1> DEFINE r == [path |-> path, val |-> v, scope |-> scope, temp |-> temp, indent |-> indent,
                 expanded |-> v.type = "table" /\ path \in req.expanded, root |-> 0]
<1>1. CASE ~Visible(v, temp, req.hide)
  <2>1. s = << >>
    BY <1>1 DEF Row
  <2> QED  BY <2>1, NoneIs
<1>2. CASE Visible(v, temp, req.hide)
  <2>1. s = <<r>>
    BY <1>2 DEF Row
  <2>2. RowOk(req.heap, r) /\ r.path = path /\ r.indent = indent
    BY DEF RowOk
  <2> HIDE DEF r
  <2>3. IsSeq(<<r>>) /\ Len(<<r>>) = 1 /\ << r >>[1] = r
    BY OneIs
  <2>4. DOMAIN s = 1..Len(s) /\ Len(s) = 1 /\ s[1] = r
    BY <2>1, <2>3, SeqHas
  <2>5. \A i \in DOMAIN s : i = 1
    BY <2>4
  <2> QED  BY <2>1, <2>2, <2>3, <2>4, <2>5
<1> QED  BY <1>1, <1>2

\* The rows of the fields of a table: each is under it.
LEMMA FieldRowsAre ==
  ASSUME NEW req, HeapOk(req.heap), NEW r, RowOk(req.heap, r), r.expanded,
         NEW s, s = FieldRows(req, r)
  PROVE  /\ IsSeq(s)
         /\ \A i \in DOMAIN s : /\ RowOk(req.heap, s[i]) /\ s[i].indent > 0
                                /\ Parent(s[i].path) = r.path /\ IsPrefix(r.path, s[i].path)
<1> DEFINE fields == req.heap[r.val.id]
<1> DEFINE seqs == [i \in DOMAIN fields |->
                      Row(req, Append(r.path, fields[i].key), fields[i].val, "none", FALSE, r.indent + 1)]
<1>1. s = FlattenSeq(seqs)
  BY DEF FieldRows
<1>2. r.val.id \in DOMAIN req.heap /\ IsSeq(r.path) /\ r.indent \in Nat /\ r.indent + 1 \in Nat
      /\ r.indent + 1 > 0
  BY DEF RowOk
<1>3. IsSeq(fields) /\ \A i \in DOMAIN fields : fields[i].val.type = "table" => fields[i].val.id \in DOMAIN req.heap
  BY <1>2 DEF HeapOk
<1>4. Len(fields) \in Nat /\ DOMAIN fields = 1..Len(fields)
  BY <1>3, SeqHas
<1> HIDE DEF fields
<1>5. IsSeq(seqs) /\ DOMAIN seqs = DOMAIN fields
  BY <1>4, FunIs
<1> DEFINE Ok(x) == /\ RowOk(req.heap, x) /\ x.indent > 0
                    /\ Parent(x.path) = r.path /\ IsPrefix(r.path, x.path)
<1> DEFINE E == {x \in UNION {{seqs[i][k] : k \in DOMAIN seqs[i]} : i \in DOMAIN seqs} : Ok(x)}
<1>6. ASSUME NEW i \in DOMAIN fields
      PROVE  IsSeq(seqs[i]) /\ \A k \in DOMAIN seqs[i] : Ok(seqs[i][k])
  <2> DEFINE p == Append(r.path, fields[i].key)
  <2>1. seqs[i] = Row(req, p, fields[i].val, "none", FALSE, r.indent + 1)
    OBVIOUS
  <2>2. IsSeq(p) /\ Len(p) = Len(r.path) + 1 /\ Parent(p) = r.path /\ IsPrefix(r.path, p)
    BY <1>2, FieldPath
  <2>3. Len(p) > 0
    <3>1. Len(r.path) \in Nat
      BY <1>2, SeqHas
    <3> QED  BY <2>2, <3>1
  <2> HIDE DEF p, seqs
  <2>4. fields[i].val.type = "table" => fields[i].val.id \in DOMAIN req.heap
    BY <1>3
  <2> DEFINE n == r.indent + 1
  <2>6. n \in Nat /\ seqs[i] = Row(req, p, fields[i].val, "none", FALSE, n)
    BY <1>2, <2>1
  <2> HIDE DEF n
  <2>5. /\ IsSeq(seqs[i])
        /\ \A k \in DOMAIN seqs[i] : /\ RowOk(req.heap, seqs[i][k])
                                     /\ seqs[i][k].path = p /\ seqs[i][k].indent = n
    <3> DEFINE v == fields[i].val
    <3>1. v.type = "table" => v.id \in DOMAIN req.heap
      BY <2>4
    <3>2. PICK temp : temp = FALSE
      OBVIOUS
    <3>3. seqs[i] = Row(req, p, v, "none", temp, n)
      BY <2>6, <3>2
    <3> HIDE DEF v
    <3> DEFINE x == seqs[i]
    <3>4. x = Row(req, p, v, "none", temp, n) /\ IsSeq(p) /\ Len(p) > 0 /\ n \in Nat
      BY <2>2, <2>3, <2>6, <3>3
    <3> HIDE DEF x
    <3>5. IsSeq(x)
      BY <3>1, <3>4, RowIs
    <3>6. \A k \in DOMAIN x : RowOk(req.heap, x[k]) /\ x[k].path = p /\ x[k].indent = n
      BY <3>1, <3>4, RowIs
    <3> QED  BY <3>5, <3>6 DEF x
  <2>7. n > 0
    BY <1>2 DEF n
  <2> QED  BY <2>2, <2>5, <2>7
<1> HIDE DEF seqs, Ok
<1>7. \A i \in DOMAIN seqs : IsSeq(seqs[i]) /\ \A k \in DOMAIN seqs[i] : seqs[i][k] \in E
  BY <1>5, <1>6
<1>8. \A x \in E : Ok(x)
  OBVIOUS
<1> HIDE DEF E
<1>9. IsSeq(s) /\ \A k \in DOMAIN s : s[k] \in E
  BY <1>1, <1>5, <1>7, FlattenHas
<1> QED  BY <1>8, <1>9 DEF Ok

\* The rows of a row that is opened or not, and those in front of them.
IsBlock(heap, r, b) ==
  /\ IsSeq(b) /\ Len(b) > 0 /\ b[1] = r
  /\ \A j \in DOMAIN b : /\ RowOk(heap, b[j]) /\ IsPrefix(r.path, b[j].path)
                         /\ j > 1 => Under(b, j)

\* One entry and those behind it.
Led(e, rest, list) ==
  /\ IsSeq(list) /\ Len(list) = 1 + Len(rest) /\ list[1] = e
  /\ \A i \in 1..Len(rest) : list[1 + i] = rest[i]
\* So it is when they are joined.
LEMMA FirstJoined ==
  ASSUME NEW e, NEW u, IsSeq(u)
  PROVE  Led(e, u, <<e>> \o u)
<1> DEFINE one == <<e>>
<1>0. IsSeq(one)
  BY OneIs
<1>1. Len(one) = 1 /\ one[1] = e
  BY OneIs
<1> HIDE DEF one
<1> DEFINE c == one \o u
<1>2. /\ IsSeq(c) /\ Len(c) = Len(one) + Len(u)
      /\ \A i \in 1..Len(one) : c[i] = one[i]
      /\ \A i \in 1..Len(u) : c[Len(one) + i] = u[i]
  BY <1>0, CatIs
<1>3. c = one \o u
  OBVIOUS
<1> HIDE DEF c
<1>4. Led(e, u, c)
  BY <1>1, <1>2 DEF Led
<1>5. c = <<e>> \o u
  BY Zenon, <1>3 DEF one
<1> QED  BY Zenon, <1>4, <1>5

\* A row and the rows of its table.
LEMMA BlockIs ==
  ASSUME NEW req, HeapOk(req.heap), NEW r, RowOk(req.heap, r), NEW d
  PROVE  IsBlock(req.heap, r, IF r.indent = d /\ r.expanded THEN <<r>> \o FieldRows(req, r) ELSE <<r>>)
<1> DEFINE b == IF r.indent = d /\ r.expanded THEN <<r>> \o FieldRows(req, r) ELSE <<r>>
<1>a. /\ ~(r.indent = d /\ r.expanded) => b = <<r>>
      /\ r.indent = d /\ r.expanded => b = <<r>> \o FieldRows(req, r)
  BY Zenon
<1>b. SUFFICES IsBlock(req.heap, r, b)
  BY Zenon
<1> HIDE DEF b
<1>1. IsSeq(<<r>>) /\ Len(<<r>>) = 1 /\ << r >>[1] = r
  BY OneIs
<1>2. IsSeq(r.path) /\ Len(r.path) > 0 /\ IsPrefix(r.path, r.path)
  BY ParentIs DEF RowOk
<1>3. CASE ~(r.indent = d /\ r.expanded)
  <2>1. b = <<r>>
    BY Zenon, <1>a, <1>3
  <2>2. IsSeq(b) /\ Len(b) = 1 /\ b[1] = r
    BY <1>1, <2>1
  <2>3. DOMAIN b = 1..Len(b)
    BY <2>2, SeqHas
  <2>4. \A j \in DOMAIN b : j = 1 /\ b[j] = r
    BY <2>2, <2>3
  <2>5. Len(b) > 0
    BY <2>2
  <2> QED  BY <1>2, <2>2, <2>4, <2>5 DEF IsBlock
<1>4. CASE r.indent = d /\ r.expanded
  <2> DEFINE fs == FieldRows(req, r)
  <2>1. b = <<r>> \o fs
    BY Zenon, <1>a, <1>4
  <2>2. /\ IsSeq(fs)
        /\ \A i \in DOMAIN fs : /\ RowOk(req.heap, fs[i]) /\ fs[i].indent > 0
                               /\ Parent(fs[i].path) = r.path /\ IsPrefix(r.path, fs[i].path)
    BY <1>4, FieldRowsAre
  <2> HIDE DEF fs
  <2>3. Len(fs) \in Nat /\ DOMAIN fs = 1..Len(fs)
    BY <2>2, SeqHas
  <2>4. /\ IsSeq(b) /\ Len(b) = 1 + Len(fs) /\ b[1] = r
        /\ \A i \in 1..Len(fs) : b[1 + i] = fs[i]
    <3>0. IsSeq(fs)
      BY <2>2
    <3>1. Led(r, fs, <<r>> \o fs)
      BY Zenon, <3>0, FirstJoined
    <3>2. Led(r, fs, b)
      BY Zenon, <2>1, <3>1
    <3> QED  BY <3>2 DEF Led
  <2>5. DOMAIN b = 1..(1 + Len(fs))
    BY <2>4, SeqHas
  <2>6. ASSUME NEW j \in DOMAIN b
        PROVE  /\ RowOk(req.heap, b[j]) /\ IsPrefix(r.path, b[j].path)
               /\ j > 1 => Parent(b[j].path) = r.path
    <3>1. CASE j = 1
      BY <1>2, <2>4, <3>1
    <3>2. CASE j # 1
      <4> DEFINE i == j - 1
      <4>1. i \in 1..Len(fs) /\ j = 1 + i /\ i \in DOMAIN fs
        BY <2>3, <2>5, <3>2
      <4> HIDE DEF i
      <4>2. b[j] = fs[i]
        BY <2>4, <4>1
      <4> QED  BY <2>2, <4>1, <4>2
    <3> QED  BY <3>1, <3>2
  <2>7. ASSUME NEW j \in DOMAIN b, j > 1 PROVE Under(b, j)
    <3>1. j - 1 \in DOMAIN b
      BY <2>3, <2>5, <2>7
    <3> QED  BY <2>6, <2>7, <3>1 DEF Under
  <2>8. Len(b) > 0
    BY <2>3, <2>4
  <2> QED  BY <2>4, <2>6, <2>7, <2>8 DEF IsBlock
<1> QED  BY <1>3, <1>4

\* A block behind rows that end under what it is under.
LEMMA BlockJoined ==
  ASSUME NEW heap, NEW a, NEW r, NEW b, Nested(heap, a), IsBlock(heap, r, b),
         r.indent > 0 => Len(a) > 0 /\ IsPrefix(Parent(r.path), a[Len(a)].path)
  PROVE  /\ Nested(heap, a \o b) /\ Len(a \o b) > 0
         /\ IsPrefix(r.path, (a \o b)[Len(a \o b)].path)
<1> DEFINE c == a \o b
<1>1. IsSeq(a) /\ IsSeq(b)
  BY DEF Nested, IsBlock
<1>2. Len(a) \in Nat /\ Len(b) \in Nat /\ DOMAIN a = 1..Len(a) /\ DOMAIN b = 1..Len(b) /\ Len(b) > 0
  BY <1>1, SeqHas DEF IsBlock
<1>3. /\ IsSeq(c) /\ Len(c) = Len(a) + Len(b)
      /\ \A i \in 1..Len(a) : c[i] = a[i]
      /\ \A i \in 1..Len(b) : c[Len(a) + i] = b[i]
  BY <1>1, CatIs
<1> HIDE DEF c
<1>4. DOMAIN c = 1..(Len(a) + Len(b))
  BY <1>3, SeqHas
<1>5. ASSUME NEW i \in DOMAIN c PROVE RowOk(heap, c[i]) /\ Under(c, i)
  <2>1. CASE i <= Len(a)
    <3>1. i \in 1..Len(a) /\ c[i] = a[i] /\ RowOk(heap, a[i]) /\ Under(a, i)
      BY <1>2, <1>3, <1>4, <2>1 DEF Nested
    <3>2. i > 1 => i - 1 \in 1..Len(a) /\ c[i - 1] = a[i - 1]
      <4>1. i > 1 => i - 1 \in 1..Len(a)
        BY <1>2, <3>1
      <4> QED  BY <1>3, <4>1
    <3> QED  BY <3>1, <3>2 DEF Under
  <2>2. CASE i > Len(a)
    <3> DEFINE j == i - Len(a)
    <3>1. j \in 1..Len(b) /\ i = Len(a) + j /\ i - 1 = Len(a) + (j - 1)
      BY <1>2, <1>4, <2>2
    <3>2. j > 1 => j - 1 \in 1..Len(b)
      BY <1>2, <3>1
    <3>3. i - 1 \in Int /\ (j = 1 => i - 1 = Len(a))
      BY <1>2, <3>1
    <3> HIDE DEF j
    <3>4. c[i] = b[j] /\ RowOk(heap, b[j]) /\ (j > 1 => Under(b, j) /\ c[i - 1] = b[j - 1])
      BY <1>2, <1>3, <3>1, <3>2 DEF IsBlock
    <3>5. CASE j > 1
      <4>1. i > 1
        BY <1>2, <3>1, <3>5
      <4> QED  BY <3>4, <3>5, <4>1 DEF Under
    <3>6. CASE j = 1
      <4>1. b[j] = r
        BY <3>6 DEF IsBlock
      <4>2. ASSUME r.indent > 0 PROVE i > 1 /\ IsPrefix(Parent(c[i].path), c[i - 1].path)
        <5>1. Len(a) \in 1..Len(a) /\ i > 1
          BY <1>2, <3>1, <3>6, <4>2
        <5>2. c[i - 1] = a[Len(a)]
          BY <1>3, <3>3, <3>6, <5>1
        <5> QED  BY <3>4, <4>1, <4>2, <5>1, <5>2
      <4> QED  BY <3>4, <4>1, <4>2 DEF Under
    <3> QED  BY <3>1, <3>5, <3>6
  <2> QED  BY <1>2, <1>4, <2>1, <2>2
<1>6. Len(c) > 0 /\ IsPrefix(r.path, c[Len(c)].path)
  <2>1. Len(b) \in 1..Len(b) /\ Len(c) > 0
    BY <1>2, <1>3
  <2>2. c[Len(c)] = b[Len(b)] /\ IsPrefix(r.path, b[Len(b)].path)
    BY <1>2, <1>3, <2>1 DEF IsBlock
  <2> QED  BY <2>1, <2>2
<1>7. Nested(heap, c)
  BY <1>3, <1>5 DEF Nested
<1> QED  BY <1>6, <1>7 DEF c

\* One more level of tables opened.
Opened(req, rows, d) ==
  FlattenSeq([i \in DOMAIN rows |->
    IF rows[i].indent = d /\ rows[i].expanded THEN <<rows[i]>> \o FieldRows(req, rows[i]) ELSE <<rows[i]>>])

\* It leaves every row under its table.
LEMMA OpenedNested ==
  ASSUME NEW req, HeapOk(req.heap), NEW rows, Nested(req.heap, rows), NEW d
  PROVE  Nested(req.heap, Opened(req, rows, d))
<1> DEFINE b == [i \in DOMAIN rows |->
                   IF rows[i].indent = d /\ rows[i].expanded THEN <<rows[i]>> \o FieldRows(req, rows[i])
                   ELSE <<rows[i]>>]
<1> DEFINE n == Len(rows)
<1>1. IsSeq(rows) /\ n \in Nat /\ DOMAIN rows = 1..n
  BY SeqHas DEF Nested
<1> HIDE DEF n
<1>2. Opened(req, rows, d) = FlattenSeq(b)
  BY DEF Opened
<1>3. IsSeq(b) /\ Len(b) = n
  BY <1>1, FunIs
<1>4. ASSUME NEW i \in 1..n PROVE IsBlock(req.heap, rows[i], b[i])
  <2>1. RowOk(req.heap, rows[i])
    BY <1>1 DEF Nested
  <2>2. b[i] = IF rows[i].indent = d /\ rows[i].expanded THEN <<rows[i]>> \o FieldRows(req, rows[i])
               ELSE <<rows[i]>>
    BY <1>1
  <2> QED  BY Zenon, <2>1, <2>2, BlockIs
<1> HIDE DEF b
<1>5. CASE n = 0
  <2>1. b = << >> /\ FlattenSeq(b) = b
    BY <1>3, <1>5, SeqHas DEF FlattenSeq
  <2> QED  BY <1>2, <2>1, NoneIs DEF Nested
<1>6. CASE n # 0
  <2>1. PICK f : /\ FlattenSeq(b) = f[n] /\ f[1] = b[1]
                 /\ \A i \in 1..(n - 1) : f[i + 1] = f[i] \o b[i + 1]
    BY <1>1, <1>3, <1>6, FlattenIs
  <2> DEFINE Ok(k) == /\ Nested(req.heap, f[k]) /\ Len(f[k]) > 0
                      /\ IsPrefix(rows[k].path, f[k][Len(f[k])].path)
  <2> DEFINE Q == {k \in Nat : k + 1 \in 1..n => Ok(k + 1)}
  <2> HIDE DEF Ok
  <2>2. Ok(1)
    <3>1. 1 \in 1..n /\ 1 \in DOMAIN rows
      BY <1>1, <1>6
    <3>2. IsBlock(req.heap, rows[1], b[1])
      BY <1>4, <3>1
    <3>3. Nested(req.heap, << >>) /\ IsSeq(b[1]) /\ b[1] = << >> \o b[1]
      <4>1. IsSeq(b[1])
        BY <3>2 DEF IsBlock
      <4>2. b[1] \in Seq({b[1][k] : k \in DOMAIN b[1]})
        BY <4>1 DEF IsSeq
      <4> QED  BY <4>1, <4>2, NoneIs, ConcatEmptySeq DEF Nested
    <3>4. ~(rows[1].indent > 0)
      BY <3>1 DEF Nested, Under
    <3>5. /\ Nested(req.heap, << >> \o b[1]) /\ Len(<< >> \o b[1]) > 0
          /\ IsPrefix(rows[1].path, (<< >> \o b[1])[Len(<< >> \o b[1])].path)
      BY <3>2, <3>3, <3>4, BlockJoined
    <3> QED  BY <2>1, <3>3, <3>5 DEF Ok
  <2>3. ASSUME NEW k \in 1..(n - 1), Ok(k) PROVE Ok(k + 1)
    <3>1. k \in 1..n /\ k + 1 \in 1..n /\ k + 1 > 1 /\ (k + 1) - 1 = k
      BY <1>1
    <3>2. IsBlock(req.heap, rows[k + 1], b[k + 1])
      BY <1>4, <3>1
    <3>3. Nested(req.heap, f[k]) /\ Len(f[k]) > 0 /\ IsPrefix(rows[k].path, f[k][Len(f[k])].path)
      BY <2>3 DEF Ok
    <3>4. ASSUME rows[k + 1].indent > 0
          PROVE  IsPrefix(Parent(rows[k + 1].path), f[k][Len(f[k])].path)
      <4>1. IsPrefix(Parent(rows[k + 1].path), rows[k].path)
        BY <1>1, <3>1, <3>4 DEF Nested, Under
      <4>2. IsSeq(rows[k].path) /\ IsSeq(rows[k + 1].path) /\ Len(rows[k + 1].path) > 0
        BY <1>1, <3>1 DEF Nested, RowOk
      <4>3. IsSeq(Parent(rows[k + 1].path))
        BY <4>2, ParentIs
      <4>4. IsSeq(f[k][Len(f[k])].path)
        <5>1. Len(f[k]) \in DOMAIN f[k]
          <6>1. IsSeq(f[k])
            BY <3>3 DEF Nested
          <6> QED  BY <3>3, <6>1, SeqHas
        <5> QED  BY <3>3, <5>1 DEF Nested, RowOk
      <4> QED  BY <3>3, <4>1, <4>2, <4>3, <4>4, PrefixOfPrefix
    <3> DEFINE c == f[k] \o b[k + 1]
    <3>5. Nested(req.heap, c) /\ Len(c) > 0 /\ IsPrefix(rows[k + 1].path, c[Len(c)].path)
      BY <3>2, <3>3, <3>4, BlockJoined
    <3>6. f[k + 1] = c
      BY <2>1
    <3> HIDE DEF c
    <3> QED  BY <3>5, <3>6 DEF Ok
  <2>4. 0 \in Q
    BY <2>2
  <2>5. ASSUME NEW k \in Nat, k \in Q PROVE k + 1 \in Q
    <3> SUFFICES ASSUME (k + 1) + 1 \in 1..n PROVE Ok((k + 1) + 1)
      OBVIOUS
    <3>1. k + 1 \in 1..n /\ k + 1 \in 1..(n - 1)
      BY <1>1
    <3>2. Ok(k + 1)
      BY <2>5, <3>1
    <3> QED  BY <2>3, <3>1, <3>2
  <2> HIDE DEF Q
  <2>6. Nat \subseteq Q
    BY <2>4, <2>5, NaturalsAreReached
  <2>7. n - 1 \in Q /\ (n - 1) + 1 = n /\ n \in 1..n
    BY <1>1, <1>6, <2>6
  <2>8. Ok(n)
    <3>1. Ok((n - 1) + 1)
      BY <2>7 DEF Q
    <3> QED  BY <2>7, <3>1
  <2> QED  BY <1>2, <2>1, <2>8 DEF Ok
<1> QED  BY <1>5, <1>6

\* The rows after each level.
Levels(req, first, n, f) == f = [k \in 0..n |-> IF k = 0 THEN first ELSE Opened(req, f[k - 1], k - 1)]

\* There is such a function for every depth.
LEMMA LevelsExist ==
  ASSUME NEW req, NEW first
  PROVE  \A n \in Nat : \E f : Levels(req, first, n, f)
<1> DEFINE Q == {n \in Nat : \E f : Levels(req, first, n, f)}
<1>1. 0 \in Q
  <2> DEFINE f == [k \in 0..0 |-> first]
  <2>1. \A k \in 0..0 : k = 0
    OBVIOUS
  <2>2. f = [k \in 0..0 |-> IF k = 0 THEN first ELSE Opened(req, f[k - 1], k - 1)]
    BY Zenon, <2>1
  <2>3. Levels(req, first, 0, f)
    BY Zenon, <2>2 DEF Levels
  <2> QED  BY <2>3
<1>2. ASSUME NEW n \in Nat, n \in Q PROVE n + 1 \in Q
  <2>1. PICK f : Levels(req, first, n, f)
    BY <1>2
  <2> DEFINE g == [k \in 0..(n + 1) |-> IF k \in 0..n THEN f[k] ELSE Opened(req, f[k - 1], k - 1)]
  <2>2. ASSUME NEW k \in 0..(n + 1)
        PROVE  g[k] = IF k = 0 THEN first ELSE Opened(req, g[k - 1], k - 1)
    <3>0. k # 0 => k - 1 \in 0..n /\ k - 1 \in 0..(n + 1)
      OBVIOUS
    <3>1. k # 0 => g[k - 1] = f[k - 1]
      BY Zenon, <3>0
    <3>2. CASE k \in 0..n
      <4>1. f[k] = IF k = 0 THEN first ELSE Opened(req, f[k - 1], k - 1)
        BY Zenon, <2>1, <3>2 DEF Levels
      <4>2. g[k] = f[k]
        BY Zenon, <3>2
      <4> HIDE DEF g
      <4> QED  BY Zenon, <3>1, <4>1, <4>2
    <3>3. CASE k \notin 0..n
      <4>1. k # 0
        BY <3>3
      <4>2. g[k] = Opened(req, f[k - 1], k - 1)
        BY Zenon, <3>3
      <4> HIDE DEF g
      <4> QED  BY Zenon, <3>1, <4>1, <4>2
    <3> QED  BY <3>2, <3>3
  <2>3. g = [k \in 0..(n + 1) |-> g[k]]
    BY Zenon
  <2> HIDE DEF g
  <2>4. g = [k \in 0..(n + 1) |-> IF k = 0 THEN first ELSE Opened(req, g[k - 1], k - 1)]
    BY Zenon, <2>2, <2>3
  <2>5. Levels(req, first, n + 1, g)
    BY Zenon, <2>4 DEF Levels
  <2> QED  BY <2>5
<1> HIDE DEF Q
<1>3. Nat \subseteq Q
  BY <1>1, <1>2, NaturalsAreReached
<1> QED  BY <1>3 DEF Q

\* A value opened to any depth is listed with every row under its table.
LEMMA RowsNested ==
  ASSUME NEW req, HeapOk(req.heap), NEW path, NEW v, NEW scope, NEW temp,
         IsSeq(path), Len(path) > 0, v.type = "table" => v.id \in DOMAIN req.heap
  PROVE  Nested(req.heap, Rows(req, path, v, scope, temp))
<1> DEFINE first == Row(req, path, v, scope, temp, 0)
<1> DEFINE n == MaxDepth + 1
<1>0. n \in Nat
  BY DepthAssumption
<1>1. Nested(req.heap, first)
  <2>1. first = Row(req, path, v, scope, temp, 0) /\ 0 \in Nat
    OBVIOUS
  <2> HIDE DEF first
  <2>2. /\ IsSeq(first)
        /\ \A i \in DOMAIN first : RowOk(req.heap, first[i]) /\ first[i].indent = 0
    BY <2>1, RowIs
  <2> QED  BY <2>2 DEF Nested, Under
<1> DEFINE f == CHOOSE f : Levels(req, first, n, f)
<1>2. Rows(req, path, v, scope, temp) = f[n]
  <2>1. Rows(req, path, v, scope, temp)
          = (CHOOSE g : g = [k \in 0..(MaxDepth + 1) |->
               IF k = 0 THEN Row(req, path, v, scope, temp, 0) ELSE Opened(req, g[k - 1], k - 1)])[MaxDepth + 1]
    BY Zenon DEF Rows, Opened
  <2> QED  BY Zenon, <2>1 DEF Levels
<1> HIDE DEF first, n
<1>3. Levels(req, first, n, f)
  BY Zenon, <1>0, LevelsExist
<1> HIDE DEF f
<1>4. \A k \in 0..n : f[k] = IF k = 0 THEN first ELSE Opened(req, f[k - 1], k - 1)
  <2>1. f = [k \in 0..n |-> IF k = 0 THEN first ELSE Opened(req, f[k - 1], k - 1)]
    BY Zenon, <1>3 DEF Levels
  <2> QED  BY Zenon, <2>1
<1> DEFINE Q == {k \in Nat : k \in 0..n => Nested(req.heap, f[k])}
<1>5. 0 \in Q
  <2>1. 0 \in 0..n
    BY <1>0
  <2>2. f[0] = first
    BY <1>4, <2>1
  <2> QED  BY <1>1, <2>2
<1>6. ASSUME NEW k \in Nat, k \in Q PROVE k + 1 \in Q
  <2> SUFFICES ASSUME k + 1 \in 0..n PROVE Nested(req.heap, f[k + 1])
    OBVIOUS
  <2>1. k \in 0..n /\ k + 1 # 0 /\ (k + 1) - 1 = k
    BY <1>0
  <2>2. f[k + 1] = Opened(req, f[k], k)
    BY <1>4, <2>1
  <2>3. Nested(req.heap, f[k])
    BY <1>6, <2>1
  <2> QED  BY <2>2, <2>3, OpenedNested
<1> HIDE DEF Q
<1>7. Nat \subseteq Q
  BY <1>5, <1>6, NaturalsAreReached
<1>8. n \in Q /\ n \in 0..n
  BY <1>0, <1>7
<1> QED  BY <1>2, <1>8 DEF Q

-----------------------------------------------------------------------------
(* The lists of rows the daemon sends (CollectNextVariable()).               *)

\* A row of a table has the root of the row before it, which is its table or of it.
Whole(rows) ==
  /\ IsSeq(rows)
  /\ \A i \in DOMAIN rows :
       /\ Under(rows, i) /\ rows[i].root \in Int
       /\ rows[i].indent > 0 => i > 1 /\ rows[i].root = rows[i - 1].root + 1

\* What is collected of a name and a value: one block.
LEMMA CollectedWhole ==
  ASSUME NEW req, HeapOk(req.heap), NEW name, NEW v, NEW scope, NEW temp,
         v.type = "table" => v.id \in DOMAIN req.heap
  PROVE  Whole(Collected(req, name, v, scope, temp))
<1> DEFINE path == <<name>>
<1>1. IsSeq(path) /\ Len(path) > 0
  BY OneIs
<1> HIDE DEF path
<1> DEFINE rows == Rows(req, path, v, scope, temp)
<1>2. Nested(req.heap, rows)
  BY <1>1, RowsNested
<1> DEFINE c == [i \in DOMAIN rows |-> [rows[i] EXCEPT !.root = i - 1]]
<1>3. Collected(req, name, v, scope, temp) = c
  BY Zenon DEF Collected, path
<1> HIDE DEF rows
<1>4. IsSeq(rows) /\ Len(rows) \in Nat /\ DOMAIN rows = 1..Len(rows)
  BY <1>2, SeqHas DEF Nested
<1>5. IsSeq(c) /\ DOMAIN c = DOMAIN rows
  BY <1>4, FunIs
<1>6. ASSUME NEW i \in DOMAIN rows
      PROVE  c[i].path = rows[i].path /\ c[i].indent = rows[i].indent /\ c[i].root = i - 1
  <2>1. rows[i] = [path |-> rows[i].path, val |-> rows[i].val, scope |-> rows[i].scope, temp |-> rows[i].temp,
                   indent |-> rows[i].indent, expanded |-> rows[i].expanded, root |-> rows[i].root]
    BY <1>2 DEF Nested, RowOk
  <2>2. c[i] = [rows[i] EXCEPT !.root = i - 1]
    OBVIOUS
  <2> HIDE DEF c
  <2> QED  BY <2>1, <2>2
<1> HIDE DEF c
<1>7. ASSUME NEW i \in DOMAIN c
      PROVE  /\ Under(c, i) /\ c[i].root \in Int
             /\ c[i].indent > 0 => i > 1 /\ c[i].root = c[i - 1].root + 1
  <2>1. i \in Nat /\ (i > 1 => i - 1 \in DOMAIN rows)
    BY <1>4, <1>5
  <2>2. Under(rows, i)
    BY <1>2, <1>5 DEF Nested
  <2>3. c[i].root = i - 1 /\ (i > 1 => c[i - 1].root = (i - 1) - 1 /\ c[i - 1].path = rows[i - 1].path)
    BY <1>5, <1>6, <2>1
  <2>4. Under(c, i)
    BY <1>5, <1>6, <2>2, <2>3 DEF Under
  <2>5. c[i].indent > 0 => i > 1
    BY <2>4 DEF Under
  <2> QED  BY <2>1, <2>3, <2>4, <2>5
<1> QED  BY <1>3, <1>5, <1>7 DEF Whole

\* Blocks behind blocks.
LEMMA WholeJoined ==
  ASSUME NEW a, NEW b, Whole(a), Whole(b)
  PROVE  Whole(a \o b)
<1> DEFINE c == a \o b
<1>1. IsSeq(a) /\ IsSeq(b)
  BY DEF Whole
<1>2. Len(a) \in Nat /\ Len(b) \in Nat /\ DOMAIN a = 1..Len(a) /\ DOMAIN b = 1..Len(b)
  BY <1>1, SeqHas
<1>3. /\ IsSeq(c) /\ Len(c) = Len(a) + Len(b)
      /\ \A i \in 1..Len(a) : c[i] = a[i]
      /\ \A i \in 1..Len(b) : c[Len(a) + i] = b[i]
  BY <1>1, CatIs
<1> HIDE DEF c
<1>4. DOMAIN c = 1..(Len(a) + Len(b))
  BY <1>3, SeqHas
<1>5. ASSUME NEW i \in DOMAIN c
      PROVE  /\ Under(c, i) /\ c[i].root \in Int
             /\ c[i].indent > 0 => i > 1 /\ c[i].root = c[i - 1].root + 1
  <2>1. CASE i <= Len(a)
    <3>1. i \in 1..Len(a) /\ c[i] = a[i]
      BY <1>2, <1>3, <1>4, <2>1
    <3>2. i > 1 => c[i - 1] = a[i - 1]
      <4>1. i > 1 => i - 1 \in 1..Len(a)
        BY <1>2, <3>1
      <4> QED  BY <1>3, <4>1
    <3>3. /\ Under(a, i) /\ a[i].root \in Int
          /\ a[i].indent > 0 => i > 1 /\ a[i].root = a[i - 1].root + 1
      BY <1>2, <3>1 DEF Whole
    <3> QED  BY <3>1, <3>2, <3>3 DEF Under
  <2>2. CASE i > Len(a)
    <3> DEFINE j == i - Len(a)
    <3>1. j \in 1..Len(b) /\ i = Len(a) + j /\ i - 1 = Len(a) + (j - 1)
      BY <1>2, <1>4, <2>2
    <3>2. j > 1 => j - 1 \in 1..Len(b) /\ i > 1
      BY <1>2, <3>1
    <3> HIDE DEF j
    <3>3. c[i] = b[j] /\ (j > 1 => c[i - 1] = b[j - 1])
      BY <1>3, <3>1, <3>2
    <3>4. /\ Under(b, j) /\ b[j].root \in Int
          /\ b[j].indent > 0 => j > 1 /\ b[j].root = b[j - 1].root + 1
      BY <1>2, <3>1 DEF Whole
    <3> QED  BY <3>2, <3>3, <3>4 DEF Under
  <2> QED  BY <1>2, <1>4, <2>1, <2>2
<1>6. Whole(c)
  BY <1>3, <1>5 DEF Whole
<1> QED  BY <1>6 DEF c

\* Nothing is whole.
LEMMA NoneWhole == Whole(<< >>)
BY NoneIs DEF Whole

\* Any number of lists of blocks.
LEMMA WholeFlattened ==
  ASSUME NEW seqs, IsSeq(seqs), \A i \in DOMAIN seqs : Whole(seqs[i])
  PROVE  Whole(FlattenSeq(seqs))
<1> DEFINE E == UNION {{seqs[i][k] : k \in DOMAIN seqs[i]} : i \in DOMAIN seqs}
<1> DEFINE W == {s \in Seq(E) : Whole(s)}
<1>1. << >> \in W
  BY NoneWhole
<1>2. \A a, b \in W : a \o b \in W
  <2>1. \A a, b \in Seq(E) : a \o b \in Seq(E)
    OBVIOUS
  <2> HIDE DEF E
  <2> QED  BY <2>1, WholeJoined
<1>3. ASSUME NEW i \in DOMAIN seqs PROVE seqs[i] \in W
  <2>1. \A k \in DOMAIN seqs[i] : seqs[i][k] \in E
    OBVIOUS
  <2>2. Whole(seqs[i]) /\ IsSeq(seqs[i])
    BY DEF Whole
  <2> HIDE DEF E
  <2> QED  BY <2>1, <2>2, InSeq
<1>4. \A s \in W : Whole(s)
  OBVIOUS
<1> HIDE DEF W
<1>5. FlattenSeq(seqs) \in W
  BY <1>1, <1>2, <1>3, FlattenIn
<1> QED  BY <1>4, <1>5

-----------------------------------------------------------------------------
(* What is collected of a program (LuaGlue::RequestVariables()).             *)

\* A frame whose tables are there.
FrameOk(heap, f) ==
  /\ IsSeq(f.locals)
  /\ \A i \in DOMAIN f.locals : f.locals[i].val.type = "table" => f.locals[i].val.id \in DOMAIN heap
  /\ IsSeq(f.varargs)
  /\ \A i \in DOMAIN f.varargs : f.varargs[i].type = "table" => f.varargs[i].id \in DOMAIN heap
  /\ IsSeq(f.upvalues)
  /\ \A i \in DOMAIN f.upvalues : f.upvalues[i].val.type = "table" => f.upvalues[i].val.id \in DOMAIN heap

\* The value of no temporary.
LEMMA PlainWhole ==
  ASSUME NEW req, HeapOk(req.heap), NEW name, NEW v, NEW scope,
         v.type = "table" => v.id \in DOMAIN req.heap
  PROVE  Whole(Collected(req, name, v, scope, FALSE))
<1>1. PICK temp : temp = FALSE
  OBVIOUS
<1>2. Whole(Collected(req, name, v, scope, temp))
  BY CollectedWhole
<1>3. Collected(req, name, v, scope, temp) = Collected(req, name, v, scope, FALSE)
  BY Zenon, <1>1
<1> QED  BY Zenon, <1>2, <1>3

\* The locals and extra arguments of a frame.
LEMMA LocalsWhole ==
  ASSUME NEW req, HeapOk(req.heap), NEW frame, FrameOk(req.heap, frame)
  PROVE  Whole(Locals(req, frame))
<1> DEFINE part(i) ==
      LET l == frame.locals[i] t == IsTemp(l)
      IN IF i \in Shown(frame)
         THEN Collected(req, IF t THEN TempName(frame, i) ELSE l.name, l.val, Scope(frame, i), t)
         ELSE << >>
<1> DEFINE a == [i \in DOMAIN frame.locals |-> part(i)]
<1> DEFINE rest(i) == Collected(req, [n |-> "vararg", i |-> i], frame.varargs[i], "vararg", FALSE)
<1> DEFINE b == [i \in DOMAIN frame.varargs |-> rest(i)]
<1>1. Locals(req, frame) = FlattenSeq(a) \o FlattenSeq(b)
  BY Zenon DEF Locals
<1>2. Len(frame.locals) \in Nat /\ DOMAIN frame.locals = 1..Len(frame.locals)
  BY SeqHas DEF FrameOk
<1>3. Len(frame.varargs) \in Nat /\ DOMAIN frame.varargs = 1..Len(frame.varargs)
  BY SeqHas DEF FrameOk
<1>4. ASSUME NEW i \in DOMAIN frame.locals PROVE Whole(a[i])
  <2> DEFINE l == frame.locals[i]
  <2> DEFINE t == IsTemp(l)
  <2>1. a[i] = part(i)
    OBVIOUS
  <2> DEFINE name == IF t THEN TempName(frame, i) ELSE l.name
  <2>2. i \in Shown(frame) => part(i) = Collected(req, name, l.val, Scope(frame, i), t)
    BY Zenon
  <2>3. i \notin Shown(frame) => part(i) = << >>
    BY Zenon
  <2>4. l.val.type = "table" => l.val.id \in DOMAIN req.heap
    BY DEF FrameOk
  <2> HIDE DEF a, part, name, l, t
  <2>5. Whole(Collected(req, name, l.val, Scope(frame, i), t))
    BY <2>4, CollectedWhole
  <2> QED  BY <2>1, <2>2, <2>3, <2>5, NoneWhole
<1>5. ASSUME NEW i \in DOMAIN frame.varargs PROVE Whole(b[i])
  <2>1. b[i] = rest(i)
    OBVIOUS
  <2>2. frame.varargs[i].type = "table" => frame.varargs[i].id \in DOMAIN req.heap
    BY DEF FrameOk
  <2> DEFINE name == [n |-> "vararg", i |-> i]
  <2> DEFINE v == frame.varargs[i]
  <2> DEFINE scope == "vararg"
  <2>3. rest(i) = Collected(req, name, v, scope, FALSE)
    BY Zenon
  <2>4. v.type = "table" => v.id \in DOMAIN req.heap
    BY <2>2
  <2> HIDE DEF b, rest, name, v, scope
  <2>5. Whole(Collected(req, name, v, scope, FALSE))
    BY <2>4, PlainWhole
  <2> QED  BY <2>1, <2>3, <2>5
<1>6. IsSeq(a) /\ DOMAIN a = DOMAIN frame.locals
  BY <1>2, FunIs
<1>7. IsSeq(b) /\ DOMAIN b = DOMAIN frame.varargs
  BY <1>3, FunIs
<1> HIDE DEF a, b
<1>8. Whole(FlattenSeq(a))
  BY <1>4, <1>6, WholeFlattened
<1>9. Whole(FlattenSeq(b))
  BY <1>5, <1>7, WholeFlattened
<1> QED  BY <1>1, <1>8, <1>9, WholeJoined

\* The fields of an environment.
LEMMA EnvironmentWhole ==
  ASSUME NEW req, HeapOk(req.heap), NEW table \in DOMAIN req.heap, NEW scope
  PROVE  Whole(Environment(req, table, scope))
<1> DEFINE fields == req.heap[table]
<1> DEFINE part(i) ==
      IF "builtin" \in req.hide /\ fields[i].key.n \in Reserved THEN << >>
      ELSE Collected(req, fields[i].key, fields[i].val, scope, FALSE)
<1> DEFINE a == [i \in DOMAIN fields |-> part(i)]
<1>1. Environment(req, table, scope) = FlattenSeq(a)
  BY Zenon DEF Environment
<1>2. IsSeq(fields) /\ \A i \in DOMAIN fields : fields[i].val.type = "table" => fields[i].val.id \in DOMAIN req.heap
  BY DEF HeapOk
<1>3. Len(fields) \in Nat /\ DOMAIN fields = 1..Len(fields)
  BY <1>2, SeqHas
<1>4. ASSUME NEW i \in DOMAIN fields PROVE Whole(a[i])
  <2>1. a[i] = part(i)
    OBVIOUS
  <2>2. part(i) = << >> \/ part(i) = Collected(req, fields[i].key, fields[i].val, scope, FALSE)
    BY Zenon
  <2> DEFINE v == fields[i].val
  <2>3. v.type = "table" => v.id \in DOMAIN req.heap
    BY <1>2
  <2>4. v = fields[i].val
    OBVIOUS
  <2> HIDE DEF a, part, v
  <2>5. Whole(Collected(req, fields[i].key, v, scope, FALSE))
    BY <2>3, PlainWhole
  <2> QED  BY <2>1, <2>2, <2>4, <2>5, NoneWhole
<1>5. IsSeq(a) /\ DOMAIN a = DOMAIN fields
  BY <1>3, FunIs
<1> HIDE DEF a
<1> QED  BY <1>1, <1>4, <1>5, WholeFlattened

\* The upvalues of a frame.
LEMMA UpvaluesWhole ==
  ASSUME NEW req, HeapOk(req.heap), NEW p, NEW frame, FrameOk(req.heap, frame)
  PROVE  Whole(Upvalues(req, p, frame))
<1> DEFINE part(i) ==
      LET u == frame.upvalues[i]
      IN IF u.name # ENV \/ u.val.type # "table" THEN Collected(req, u.name, u.val, "upvalue", FALSE)
         ELSE IF u.val.id = p.globals THEN << >>
         ELSE Environment(req, u.val.id, "enval")
<1> DEFINE a == [i \in DOMAIN frame.upvalues |-> part(i)]
<1>1. Upvalues(req, p, frame) = FlattenSeq(a)
  BY Zenon DEF Upvalues
<1>2. Len(frame.upvalues) \in Nat /\ DOMAIN frame.upvalues = 1..Len(frame.upvalues)
  BY SeqHas DEF FrameOk
<1>3. ASSUME NEW i \in DOMAIN frame.upvalues PROVE Whole(a[i])
  <2> DEFINE u == frame.upvalues[i]
  <2> DEFINE v == u.val
  <2> DEFINE s1 == "upvalue"
  <2> DEFINE s2 == "enval"
  <2>1. a[i] = part(i)
    OBVIOUS
  <2>2. \/ part(i) = Collected(req, u.name, v, s1, FALSE)
        \/ part(i) = << >>
        \/ v.type = "table" /\ part(i) = Environment(req, v.id, s2)
    BY Zenon
  <2>3. v.type = "table" => v.id \in DOMAIN req.heap
    BY DEF FrameOk
  <2> HIDE DEF a, part, u, v, s1, s2
  <2>4. Whole(Collected(req, u.name, v, s1, FALSE))
    BY <2>3, PlainWhole
  <2>5. v.type = "table" => Whole(Environment(req, v.id, s2))
    BY <2>3, EnvironmentWhole
  <2> QED  BY <2>1, <2>2, <2>4, <2>5, NoneWhole
<1>4. IsSeq(a) /\ DOMAIN a = DOMAIN frame.upvalues
  BY <1>2, FunIs
<1> HIDE DEF a
<1> QED  BY <1>1, <1>3, <1>4, WholeFlattened

\* A watch that nothing answers to.
LEMMA UnsolvedWhole ==
  ASSUME NEW name
  PROVE  Whole(Unsolved(name))
<1> DEFINE r == [path |-> <<name>>, val |-> [type |-> "unsolved", id |-> ""], scope |-> "none",
                 temp |-> FALSE, indent |-> 0, expanded |-> FALSE, root |-> 0]
<1>1. Unsolved(name) = <<r>>
  BY Zenon DEF Unsolved
<1>2. r.indent = 0 /\ r.root = 0
  OBVIOUS
<1> HIDE DEF r
<1>3. IsSeq(<<r>>) /\ DOMAIN <<r>> = {1} /\ << r >>[1] = r
  BY OnePosted
<1> DEFINE s == <<r>>
<1>4. IsSeq(s) /\ \A i \in DOMAIN s : s[i] = r
  BY <1>3
<1> HIDE DEF s
<1>5. Whole(s)
  BY <1>2, <1>4 DEF Whole, Under
<1> QED  BY <1>1, <1>5 DEF s

\* The frames and the tables of a program.
LEMMA ProgramIs ==
  ASSUME NEW p, IsProgram(p)
  PROVE  /\ HeapOk(p.heap) /\ p.globals \in DOMAIN p.heap /\ p.registry \in DOMAIN p.heap
         /\ ~p.fake => /\ IsSeq(p.frames) /\ \A j \in DOMAIN p.frames : FrameOk(p.heap, p.frames[j])
                       /\ \E j \in DOMAIN p.frames : ~p.frames[j].c
<1>1. HeapOk(p.heap) /\ p.globals \in DOMAIN p.heap /\ p.registry \in DOMAIN p.heap
  BY DEF IsProgram, HeapFormed, HeapOk, Held
<1>2. ASSUME ~p.fake, NEW j \in DOMAIN p.frames PROVE FrameOk(p.heap, p.frames[j])
  BY <1>2 DEF IsProgram, FramesFormed, FrameOk, Held
<1> QED  BY <1>1, <1>2 DEF IsProgram

\* The environment of a frame is there.
LEMMA EnvIs ==
  ASSUME NEW heap, NEW f, FrameOk(heap, f), HasEnv(f)
  PROVE  EnvOf(f) \in DOMAIN heap
<1>1. Len(f.upvalues) \in Nat /\ DOMAIN f.upvalues = 1..Len(f.upvalues) /\ Len(f.upvalues) # 0
  BY SeqHas DEF FrameOk, HasEnv
<1>2. 1 \in DOMAIN f.upvalues
  BY <1>1
<1>3. f.upvalues[1].val.type = "table"
  BY Zenon DEF HasEnv
<1> QED  BY <1>2, <1>3 DEF FrameOk, EnvOf

\* CollectLuaLocals() of a level there is.
LEMMA LuaLocalsWhole ==
  ASSUME NEW req, NEW p, IsProgram(p), ~p.fake, req.heap = p.heap, NEW k, k + 1 \in DOMAIN p.frames
  PROVE  Whole(CollectLuaLocals(req, p, k))
<1> DEFINE frame == p.frames[k + 1]
<1>1. HeapOk(req.heap) /\ FrameOk(req.heap, frame)
  BY ProgramIs
<1>2. CollectLuaLocals(req, p, k) = Locals(req, frame) \o Upvalues(req, p, frame)
  BY Zenon DEF CollectLuaLocals
<1> HIDE DEF frame
<1>3. Whole(Locals(req, frame)) /\ Whole(Upvalues(req, p, frame))
  BY <1>1, LocalsWhole, UpvaluesWhole
<1> QED  BY <1>2, <1>3, WholeJoined

\* CollectLuaGlobals().
LEMMA LuaGlobalsWhole ==
  ASSUME NEW req, NEW p, IsProgram(p), ~p.fake, req.heap = p.heap, NEW k
  PROVE  Whole(CollectLuaGlobals(req, p, k))
<1> DEFINE first(j) == /\ HasEnv(p.frames[j])
                       /\ \A i \in (k + 1)..(j - 1) :
                            HasEnv(p.frames[i]) => p.frames[i].upvalues[1].slot # p.frames[j].upvalues[1].slot
<1> DEFINE scope(j) == IF EnvOf(p.frames[j]) = p.globals THEN "global" ELSE "enval"
<1> DEFINE part(j) == IF j > k /\ first(j) THEN Environment(req, EnvOf(p.frames[j]), scope(j)) ELSE << >>
<1> DEFINE a == [j \in DOMAIN p.frames |-> part(j)]
<1> DEFINE last == IF "registry" \in req.hide THEN << >> ELSE Environment(req, p.registry, "registry")
<1>1. CollectLuaGlobals(req, p, k) = FlattenSeq(a) \o last
  BY Zenon DEF CollectLuaGlobals
<1>2. /\ HeapOk(req.heap) /\ p.registry \in DOMAIN req.heap
      /\ IsSeq(p.frames) /\ \A j \in DOMAIN p.frames : FrameOk(req.heap, p.frames[j])
  BY ProgramIs
<1>3. Len(p.frames) \in Nat /\ DOMAIN p.frames = 1..Len(p.frames)
  BY <1>2, SeqHas
<1>4. ASSUME NEW j \in DOMAIN p.frames PROVE Whole(a[j])
  <2>1. a[j] = part(j)
    OBVIOUS
  <2> DEFINE s == scope(j)
  <2>2. part(j) = << >> \/ (HasEnv(p.frames[j]) /\ part(j) = Environment(req, EnvOf(p.frames[j]), s))
    BY Zenon
  <2> HIDE DEF a, part, s
  <2>3. HasEnv(p.frames[j]) => EnvOf(p.frames[j]) \in DOMAIN req.heap
    BY <1>2, EnvIs
  <2>4. HasEnv(p.frames[j]) => Whole(Environment(req, EnvOf(p.frames[j]), s))
    BY <1>2, <2>3, EnvironmentWhole
  <2> QED  BY <2>1, <2>2, <2>4, NoneWhole
<1>5. IsSeq(a) /\ DOMAIN a = DOMAIN p.frames
  BY <1>3, FunIs
<1>6. Whole(last)
  <2> DEFINE s == "registry"
  <2>1. last = << >> \/ last = Environment(req, p.registry, s)
    BY Zenon
  <2> HIDE DEF last, s
  <2> QED  BY <1>2, <2>1, NoneWhole, EnvironmentWhole
<1> HIDE DEF a, last
<1>7. Whole(FlattenSeq(a))
  BY <1>4, <1>5, WholeFlattened
<1> QED  BY <1>1, <1>6, <1>7, WholeJoined

\* Some positions in a list: the first and the last of them.
LEMMA EndsExist ==
  ASSUME NEW n \in Nat, NEW S, S \subseteq 1..n, S # {}
  PROVE  /\ \E i \in S : \A j \in S : i <= j
         /\ \E i \in S : \A j \in S : i >= j
<1>1. \E i \in S : \A j \in S : i <= j
  <2> DEFINE Q == {m \in Nat : (\E i \in S : i <= m) => \E i \in S : \A j \in S : i <= j}
  <2>1. 0 \in Q
    OBVIOUS
  <2>2. ASSUME NEW m \in Nat, m \in Q PROVE m + 1 \in Q
    <3> SUFFICES ASSUME NEW i \in S, i <= m + 1, ~ \E k \in S : k <= m
                 PROVE  \E k \in S : \A j \in S : k <= j
      BY <2>2
    <3>1. \A j \in S : j >= m + 1
      OBVIOUS
    <3> QED  BY <3>1
  <2> HIDE DEF Q
  <2>3. Nat \subseteq Q
    BY <2>1, <2>2, NaturalsAreReached
  <2>4. n \in Q
    BY <2>3
  <2>5. \E i \in S : i <= n
    <3>1. PICK i : i \in S
      OBVIOUS
    <3>2. i \in 1..n
      BY <3>1
    <3> QED  BY <3>1, <3>2
  <2> QED  BY <2>4, <2>5 DEF Q
<1>2. \E i \in S : \A j \in S : i >= j
  <2> DEFINE Q == {m \in Nat : (\E i \in S : i >= n - m) => \E i \in S : \A j \in S : i >= j}
  <2>1. 0 \in Q
    OBVIOUS
  <2>2. ASSUME NEW m \in Nat, m \in Q PROVE m + 1 \in Q
    <3> SUFFICES ASSUME NEW i \in S, i >= n - (m + 1), ~ \E k \in S : k >= n - m
                 PROVE  \E k \in S : \A j \in S : k >= j
      BY <2>2
    <3>1. \A j \in S : j <= n - (m + 1)
      OBVIOUS
    <3> QED  BY <3>1
  <2> HIDE DEF Q
  <2>3. Nat \subseteq Q
    BY <2>1, <2>2, NaturalsAreReached
  <2>4. n \in Q
    BY <2>3
  <2>5. \E i \in S : i >= n - n
    <3>1. PICK i : i \in S
      OBVIOUS
    <3>2. i \in 1..n
      BY <3>1
    <3> QED  BY <3>1, <3>2
  <2> QED  BY <2>4, <2>5 DEF Q
<1> QED  BY <1>1, <1>2

\* SolveOneVar().
LEMMA SolvedWhole ==
  ASSUME NEW req, NEW p, IsProgram(p), ~p.fake, req.heap = p.heap, NEW name
  PROVE  Whole(SolveOneVar(req, p, name))
<1> DEFINE at    == FirstLuaLevel(p)
<1> DEFINE frame == p.frames[at]
<1> DEFINE named == {i \in DOMAIN frame.locals : frame.locals[i].name = name}
<1> DEFINE ups   == {i \in DOMAIN frame.upvalues : frame.upvalues[i].name = name}
<1> DEFINE envs  == {j \in at..Len(p.frames) : HasEnv(p.frames[j])}
<1> DEFINE LeastOf(S) == CHOOSE i \in S : \A j \in S : i <= j
<1> DEFINE LastOf(S)  == CHOOSE i \in S : \A j \in S : i >= j
<1> DEFINE env   == EnvOf(p.frames[LeastOf(envs)])
<1> DEFINE s1 == "upvalue"
<1> DEFINE s2 == "global"
<1>1. \/ /\ named # {}
         /\ SolveOneVar(req, p, name)
              = Collected(req, name, frame.locals[LastOf(named)].val, Scope(frame, LastOf(named)), FALSE)
      \/ /\ ups # {}
         /\ SolveOneVar(req, p, name) = Collected(req, name, frame.upvalues[LeastOf(ups)].val, s1, FALSE)
      \/ SolveOneVar(req, p, name) = Unsolved(name)
      \/ /\ envs # {} /\ FieldOf(p, env, name) # {}
         /\ SolveOneVar(req, p, name)
              = Collected(req, name, p.heap[env][LeastOf(FieldOf(p, env, name))].val, s2, FALSE)
  BY Zenon DEF SolveOneVar
<1>2. /\ HeapOk(p.heap) /\ IsSeq(p.frames) /\ \A j \in DOMAIN p.frames : FrameOk(p.heap, p.frames[j])
      /\ \E j \in DOMAIN p.frames : ~p.frames[j].c
  BY ProgramIs
<1> DEFINE n == Len(p.frames)
<1>3. n \in Nat /\ DOMAIN p.frames = 1..n
  BY <1>2, SeqHas
<1> HIDE DEF n
<1>4. at \in DOMAIN p.frames
  <2> DEFINE S == {j \in DOMAIN p.frames : ~p.frames[j].c}
  <2>1. S \subseteq 1..n /\ S # {}
    BY <1>2, <1>3
  <2>2. PICK i \in S : \A j \in S : i <= j
    BY <1>3, <2>1, EndsExist
  <2>3. i \in DOMAIN p.frames /\ ~p.frames[i].c /\ \A k \in 1..(i - 1) : p.frames[k].c
    <3>1. ASSUME NEW k \in 1..(i - 1) PROVE p.frames[k].c
      <4>1. k \in DOMAIN p.frames /\ ~(i <= k)
        BY <1>3
      <4> QED  BY <2>2, <4>1
    <3> QED  BY <3>1
  <2>4. \E j \in DOMAIN p.frames : ~p.frames[j].c /\ \A k \in 1..(j - 1) : p.frames[k].c
    BY Zenon, <2>3
  <2>5. at = CHOOSE j \in DOMAIN p.frames : ~p.frames[j].c /\ \A k \in 1..(j - 1) : p.frames[k].c
    BY Zenon DEF FirstLuaLevel
  <2> QED  BY Zenon, <2>4, <2>5
<1>5. FrameOk(p.heap, frame) /\ at \in Nat
  BY <1>2, <1>3, <1>4
<1>6. ASSUME NEW m \in Nat, NEW S, S \subseteq 1..m, S # {} PROVE LeastOf(S) \in S /\ LastOf(S) \in S
  <2>1. (\E i \in S : \A j \in S : i <= j) /\ (\E i \in S : \A j \in S : i >= j)
    BY <1>6, EndsExist
  <2> QED  BY Zenon, <2>1
<1>7. envs # {} => env \in DOMAIN p.heap
  <2>1. envs \subseteq 1..n
    <3>1. at \in 1..n
      BY <1>3, <1>4
    <3>2. envs = {j \in at..n : HasEnv(p.frames[j])}
      BY DEF n
    <3> HIDE DEF at, envs
    <3> QED  BY <1>3, <3>1, <3>2
  <2>2. ASSUME NEW j \in envs PROVE j \in DOMAIN p.frames /\ HasEnv(p.frames[j])
    BY <1>3, <2>1
  <2> DEFINE j == LeastOf(envs)
  <2>3. envs # {} => j \in envs
    BY Zenon, <1>3, <1>6, <2>1
  <2> HIDE DEF LeastOf, envs, at, frame
  <2>4. envs # {} => j \in DOMAIN p.frames /\ HasEnv(p.frames[j])
    BY <2>2, <2>3
  <2> HIDE DEF j
  <2>5. envs # {} => EnvOf(p.frames[j]) \in DOMAIN p.heap
    BY <1>2, <2>4, EnvIs
  <2> QED  BY <2>5 DEF j
<1>8. ASSUME named # {} PROVE frame.locals[LastOf(named)].val.type = "table" => frame.locals[LastOf(named)].val.id \in DOMAIN p.heap
  <2>1. IsSeq(frame.locals)
    BY <1>5 DEF FrameOk
  <2>2. named \subseteq 1..Len(frame.locals) /\ Len(frame.locals) \in Nat
    BY <2>1, SeqHas
  <2>3. LastOf(named) \in named
    BY Zenon, <1>6, <1>8, <2>2
  <2> DEFINE i == LastOf(named)
  <2>4. i \in DOMAIN frame.locals
    BY <2>3
  <2> HIDE DEF i
  <2>5. frame.locals[i].val.type = "table" => frame.locals[i].val.id \in DOMAIN p.heap
    BY <1>5, <2>4 DEF FrameOk
  <2> QED  BY <2>5 DEF i
<1>9. ASSUME ups # {} PROVE frame.upvalues[LeastOf(ups)].val.type = "table" => frame.upvalues[LeastOf(ups)].val.id \in DOMAIN p.heap
  <2>1. IsSeq(frame.upvalues)
    BY <1>5 DEF FrameOk
  <2>2. ups \subseteq 1..Len(frame.upvalues) /\ Len(frame.upvalues) \in Nat
    BY <2>1, SeqHas
  <2>3. LeastOf(ups) \in ups
    BY Zenon, <1>6, <1>9, <2>2
  <2> DEFINE i == LeastOf(ups)
  <2>4. i \in DOMAIN frame.upvalues
    BY <2>3
  <2> HIDE DEF i
  <2>5. frame.upvalues[i].val.type = "table" => frame.upvalues[i].val.id \in DOMAIN p.heap
    BY <1>5, <2>4 DEF FrameOk
  <2> QED  BY <2>5 DEF i
<1>10. ASSUME envs # {}, FieldOf(p, env, name) # {}
       PROVE  p.heap[env][LeastOf(FieldOf(p, env, name))].val.type = "table"
                => p.heap[env][LeastOf(FieldOf(p, env, name))].val.id \in DOMAIN p.heap
  <2> DEFINE e == env
  <2>1. e \in DOMAIN p.heap
    BY <1>7, <1>10
  <2> DEFINE F == FieldOf(p, e, name)
  <2>0. F # {}
    BY <1>10
  <2> HIDE DEF e, env, envs, at, frame
  <2>2. IsSeq(p.heap[e]) /\ \A i \in DOMAIN p.heap[e] : p.heap[e][i].val.type = "table" => p.heap[e][i].val.id \in DOMAIN p.heap
    BY <1>2, <2>1 DEF HeapOk
  <2>3. F \subseteq 1..Len(p.heap[e]) /\ Len(p.heap[e]) \in Nat /\ F \subseteq DOMAIN p.heap[e]
    BY <2>2, SeqHas DEF FieldOf
  <2> HIDE DEF F
  <2> DEFINE i == LeastOf(F)
  <2>4. i \in F
    BY Zenon, <1>6, <2>0, <2>3
  <2> HIDE DEF i
  <2>5. p.heap[e][i].val.type = "table" => p.heap[e][i].val.id \in DOMAIN p.heap
    BY <2>2, <2>3, <2>4
  <2> QED  BY Zenon, <2>5 DEF i, F, e
<1> DEFINE v1 == frame.locals[LastOf(named)].val
<1> DEFINE v2 == frame.upvalues[LeastOf(ups)].val
<1> DEFINE v3 == p.heap[env][LeastOf(FieldOf(p, env, name))].val
<1> DEFINE s0 == Scope(frame, LastOf(named))
<1> DEFINE N1 == named # {}
<1> DEFINE N2 == ups # {}
<1> DEFINE N3 == envs # {} /\ FieldOf(p, env, name) # {}
<1> DEFINE Ok(v) == v.type = "table" => v.id \in DOMAIN p.heap
<1>11. (N1 => Ok(v1)) /\ (N2 => Ok(v2)) /\ (N3 => Ok(v3))
  BY Zenon, <1>8, <1>9, <1>10
<1> DEFINE s == SolveOneVar(req, p, name)
<1>12. \/ N1 /\ s = Collected(req, name, v1, s0, FALSE)
       \/ N2 /\ s = Collected(req, name, v2, s1, FALSE)
       \/ s = Unsolved(name)
       \/ N3 /\ s = Collected(req, name, v3, s2, FALSE)
  BY Zenon, <1>1
<1> HIDE DEF v1, v2, v3, s0, s1, s2, N1, N2, N3, s
<1>13. \A v, scope : Ok(v) => Whole(Collected(req, name, v, scope, FALSE))
  BY <1>2, PlainWhole
<1>14. Whole(s)
  BY <1>11, <1>12, <1>13, UnsolvedWhole
<1> QED  BY <1>14 DEF s

\* What RequestVariables() answers.
LEMMA AnswerWhole ==
  ASSUME NEW kind \in {"locals", "globals", "watches"}, NEW req, NEW p, IsProgram(p), req.heap = p.heap,
         NEW k, ~p.fake => k + 1 \in DOMAIN p.frames, NEW names, IsSeq(names)
  PROVE  Whole(RequestVariables(kind, req, p, k, names))
<1> DEFINE r == RequestVariables(kind, req, p, k, names)
<1>1. Len(names) \in Nat /\ DOMAIN names = 1..Len(names)
  BY SeqHas
<1>2. Whole(CollectNOPWatches(names))
  <2> DEFINE a == [i \in DOMAIN names |-> Unsolved(names[i])]
  <2>1. IsSeq(a) /\ DOMAIN a = DOMAIN names
    BY <1>1, FunIs
  <2>2. \A i \in DOMAIN names : Whole(a[i])
    BY UnsolvedWhole
  <2>3. CollectNOPWatches(names) = FlattenSeq(a)
    BY Zenon DEF CollectNOPWatches
  <2> HIDE DEF a
  <2> QED  BY <2>1, <2>2, <2>3, WholeFlattened
<1>3. ~p.fake => Whole(CollectLuaWatches(req, p, names))
  <2> DEFINE a == [i \in DOMAIN names |-> SolveOneVar(req, p, names[i])]
  <2>1. IsSeq(a) /\ DOMAIN a = DOMAIN names
    BY <1>1, FunIs
  <2>2. ~p.fake => \A i \in DOMAIN names : Whole(a[i])
    BY SolvedWhole
  <2>3. CollectLuaWatches(req, p, names) = FlattenSeq(a)
    BY Zenon DEF CollectLuaWatches
  <2> HIDE DEF a
  <2> QED  BY <2>1, <2>2, <2>3, WholeFlattened
<1>4. ~p.fake => Whole(CollectLuaLocals(req, p, k)) /\ Whole(CollectLuaGlobals(req, p, k))
  BY LuaLocalsWhole, LuaGlobalsWhole
<1>5. Whole(CollectNOP)
  BY NoneWhole DEF CollectNOP
<1>6. kind = "locals" => r = IF p.fake THEN CollectNOP ELSE CollectLuaLocals(req, p, k)
  BY DEF RequestVariables
<1>7. kind = "globals" => r = IF p.fake THEN CollectNOP ELSE CollectLuaGlobals(req, p, k)
  BY DEF RequestVariables
<1>8. kind = "watches" => r = IF p.fake THEN CollectNOPWatches(names) ELSE CollectLuaWatches(req, p, names)
  BY DEF RequestVariables
<1> HIDE DEF r
<1>9. Whole(r)
  BY <1>2, <1>3, <1>4, <1>5, <1>6, <1>7, <1>8
<1> QED  BY <1>9 DEF r

-----------------------------------------------------------------------------
(* The auto LUT (VarViewCtrl::SetVariables()).                               *)

\* Those of a lower kind, or of the same and with a lower index.
Before(n, kind) ==
  [i \in 1..n |-> {j \in 1..n : kind[j] < kind[i] \/ (kind[j] = kind[i] /\ j < i)}]

\* The number of those before one is its place, all places are taken, and two neighbours
\* of a kind stay neighbours.
Ranks(n, kind, b) ==
  /\ \A k \in 1..n : \E i \in 1..n : Cardinality(b[i]) = k - 1
  /\ \A i \in 1..n : \E k \in 1..n : Cardinality(b[i]) = k - 1
  /\ \A i, j \in 1..n : Cardinality(b[i]) = Cardinality(b[j]) => i = j
  /\ \A i \in 2..n : kind[i] = kind[i - 1] => Cardinality(b[i]) = Cardinality(b[i - 1]) + 1

\* So it is with any kinds.
LEMMA RanksAre ==
  ASSUME NEW n \in Nat, NEW kind \in [1..n -> 1..4], NEW b, b = Before(n, kind)
  PROVE  Ranks(n, kind, b)
<1> DEFINE Less(j, i) == kind[j] < kind[i] \/ (kind[j] = kind[i] /\ j < i)
<1>1. \A i \in 1..n : kind[i] \in Int
  OBVIOUS
<1>2. \A i, j \in 1..n : j \in b[i] <=> Less(j, i)
  BY DEF Before
<1>3. \A i \in 1..n : b[i] \subseteq (1..n) \ {i}
  BY <1>1 DEF Before
<1>4. \A i, j, k \in 1..n : Less(i, j) /\ Less(j, k) => Less(i, k)
  BY <1>1
<1>5. \A i, j \in 1..n : i # j => Less(i, j) \/ Less(j, i)
  BY <1>1
<1>6. \A i \in 1..n : ~Less(i, i)
  BY <1>1
<1>7. \A i \in 2..n : kind[i] = kind[i - 1] => \A j \in 1..n : Less(j, i) <=> (Less(j, i - 1) \/ j = i - 1)
  BY <1>1
<1> DEFINE R == 1..n
<1>8. IsFiniteSet(R) /\ Cardinality(R) = n
  BY FS_Interval
<1> HIDE DEF Less
<1>9. ASSUME NEW i \in 1..n PROVE IsFiniteSet(b[i]) /\ Cardinality(b[i]) \in Nat /\ Cardinality(b[i]) + 1 \in 1..n
  <2>1. IsFiniteSet(R \ {i}) /\ Cardinality(R \ {i}) = n - 1
    BY <1>8, FS_RemoveElement
  <2>2. b[i] \subseteq R \ {i}
    BY <1>3
  <2>3. IsFiniteSet(b[i]) /\ Cardinality(b[i]) <= n - 1
    BY <2>1, <2>2, FS_Subset
  <2>4. Cardinality(b[i]) \in Nat
    BY <2>3, FS_CardinalityType
  <2> QED  BY <2>3, <2>4
<1>10. ASSUME NEW i \in 1..n, NEW j \in 1..n, Less(j, i) PROVE Cardinality(b[j]) + 1 <= Cardinality(b[i])
  <2>1. j \in b[i] /\ j \notin b[j]
    BY <1>2, <1>6, <1>10
  <2>2. b[j] \subseteq b[i]
    BY <1>2, <1>3, <1>4, <1>10
  <2> DEFINE c == b[j] \cup {j}
  <2>3. IsFiniteSet(c) /\ Cardinality(c) = Cardinality(b[j]) + 1
    BY <1>9, <2>1, FS_AddElement
  <2>4. c \subseteq b[i]
    BY <2>1, <2>2
  <2> HIDE DEF c
  <2>5. Cardinality(c) <= Cardinality(b[i])
    BY <1>9, <2>4, FS_Subset
  <2> QED  BY <2>3, <2>5
<1>11. ASSUME NEW i \in 1..n, NEW j \in 1..n, Cardinality(b[i]) = Cardinality(b[j]) PROVE i = j
  <2> SUFFICES ASSUME i # j PROVE FALSE
    OBVIOUS
  <2>1. Less(i, j) \/ Less(j, i)
    BY <1>5
  <2>2. Cardinality(b[i]) \in Nat /\ Cardinality(b[j]) \in Nat
    BY <1>9
  <2> QED  BY <1>10, <1>11, <2>1, <2>2
<1>12. ASSUME NEW k \in 1..n PROVE \E i \in 1..n : Cardinality(b[i]) = k - 1
  <2> DEFINE f == [i \in R |-> Cardinality(b[i]) + 1]
  <2>1. f \in [R -> R]
    BY <1>9
  <2>2. \A i, j \in R : f[i] = f[j] => i = j
    <3> SUFFICES ASSUME NEW i \in R, NEW j \in R, f[i] = f[j] PROVE i = j
      OBVIOUS
    <3>1. Cardinality(b[i]) \in Nat /\ Cardinality(b[j]) \in Nat
      BY <1>9
    <3>2. Cardinality(b[i]) + 1 = Cardinality(b[j]) + 1
      OBVIOUS
    <3> QED  BY <1>11, <3>1, <3>2
  <2>3. \A i \in R : f[i] = Cardinality(b[i]) + 1
    OBVIOUS
  <2> HIDE DEF f, R
  <2>4. f \in Injection(R, R)
    BY <2>1, <2>2 DEF Injection, IsInjective
  <2>5. f \in Surjection(R, R)
    BY <1>8, <2>4, FS_Injection
  <2>6. k \in R
    BY DEF R
  <2>7. PICK i \in R : f[i] = k
    BY <2>5, <2>6 DEF Surjection
  <2>8. i \in 1..n /\ Cardinality(b[i]) + 1 = k
    BY <2>3, <2>7 DEF R
  <2>9. Cardinality(b[i]) \in Nat
    BY <1>9, <2>8
  <2> QED  BY <2>8, <2>9
<1>13. ASSUME NEW i \in 2..n, kind[i] = kind[i - 1] PROVE Cardinality(b[i]) = Cardinality(b[i - 1]) + 1
  <2>1. i \in 1..n /\ i - 1 \in 1..n
    OBVIOUS
  <2>2. b[i] = b[i - 1] \cup {i - 1}
    <3>1. b[i] \subseteq R /\ b[i - 1] \subseteq R
      BY <1>3, <2>1 DEF R
    <3>2. \A j \in R : Less(j, i) <=> (Less(j, i - 1) \/ j = i - 1)
      BY <1>7, <1>13 DEF R
    <3>3. \A j \in R : (j \in b[i] <=> Less(j, i)) /\ (j \in b[i - 1] <=> Less(j, i - 1))
      BY <1>2, <2>1 DEF R
    <3>4. i - 1 \in R
      BY <2>1 DEF R
    <3> HIDE DEF R
    <3> QED  BY <3>1, <3>2, <3>3, <3>4
  <2>3. i - 1 \notin b[i - 1]
    BY <1>3, <2>1
  <2> QED  BY <1>9, <2>1, <2>2, <2>3, FS_AddElement
<1>14. ASSUME NEW i \in 1..n PROVE \E k \in 1..n : Cardinality(b[i]) = k - 1
  <2> DEFINE c == Cardinality(b[i])
  <2>1. c \in Nat /\ c + 1 \in 1..n
    BY <1>9
  <2> HIDE DEF c
  <2>2. c = (c + 1) - 1
    BY <2>1
  <2>3. \E k \in 1..n : c = k - 1
    BY <2>1, <2>2
  <2> QED  BY <2>3 DEF c
<1> QED  BY <1>11, <1>12, <1>13, <1>14 DEF Ranks

\* A block has one kind.
LEMMA RankedAlike ==
  ASSUME NEW view, NEW rows, Whole(rows), NEW Test(_, _), NEW i \in DOMAIN rows, rows[i].indent > 0
  PROVE  i \in Ranked(view, rows, Test) <=> i - 1 \in Ranked(view, rows, Test)
<1>1. Len(rows) \in Nat /\ DOMAIN rows = 1..Len(rows)
  BY SeqHas DEF Whole
<1>2. i > 1 /\ rows[i].root = rows[i - 1].root + 1 /\ rows[i].root \in Int
  BY DEF Whole
<1>3. i - 1 \in DOMAIN rows
  BY <1>1, <1>2
<1>4. rows[i - 1].root \in Int
  BY <1>3 DEF Whole
<1>5. Root(rows, i) = Root(rows, i - 1)
  BY <1>1, <1>2, <1>4 DEF Root
<1> QED  BY <1>3, <1>5 DEF Ranked

\* The fields of a table stay under it when the rows are sorted.
LEMMA SortedUnder ==
  ASSUME NEW view, NEW rows, Whole(rows), NEW s, s = AutoSorted(view, rows)
  PROVE  \A k \in DOMAIN s : Under(s, k)
<1> DEFINE new     == Ranked(view, rows, IsNew)
<1> DEFINE changed == Ranked(view, rows, IsChanged)
<1> DEFINE same    == Ranked(view, rows, IsSame)
<1> DEFINE n       == Len(rows)
<1> DEFINE kind    == [i \in DOMAIN rows |-> IF i \in new THEN 1 ELSE IF i \in changed THEN 2
                                            ELSE IF i \in same THEN 3 ELSE 4]
<1>1. n \in Nat /\ DOMAIN rows = 1..n
  BY SeqHas DEF Whole
<1> DEFINE b == [i \in DOMAIN rows |->
                   {j \in DOMAIN rows : kind[j] < kind[i] \/ (kind[j] = kind[i] /\ j < i)}]
<1>2. s = [k \in DOMAIN rows |-> rows[CHOOSE i \in DOMAIN rows : Cardinality(b[i]) = k - 1]]
  BY Zenon DEF AutoSorted
<1>3. kind \in [1..n -> 1..4]
  BY <1>1
<1>4. ASSUME NEW i \in DOMAIN rows, rows[i].indent > 0 PROVE i \in 2..n /\ kind[i] = kind[i - 1]
  <2>1. i > 1
    BY <1>4 DEF Whole
  <2>2. i - 1 \in DOMAIN rows /\ i \in 2..n
    BY <1>1, <2>1
  <2>3. i \in new <=> i - 1 \in new
    BY <1>4, RankedAlike
  <2>4. i \in changed <=> i - 1 \in changed
    BY <1>4, RankedAlike
  <2>5. i \in same <=> i - 1 \in same
    BY <1>4, RankedAlike
  <2> HIDE DEF new, changed, same
  <2> QED  BY <2>2, <2>3, <2>4, <2>5
<1> HIDE DEF n, kind
<1>5. b = Before(n, kind)
  BY Zenon, <1>1 DEF Before
<1> HIDE DEF b
<1>6. /\ \A k \in 1..n : \E i \in 1..n : Cardinality(b[i]) = k - 1
      /\ \A i \in 1..n : \E k \in 1..n : Cardinality(b[i]) = k - 1
      /\ \A i, j \in 1..n : Cardinality(b[i]) = Cardinality(b[j]) => i = j
      /\ \A i \in 2..n : kind[i] = kind[i - 1] => Cardinality(b[i]) = Cardinality(b[i - 1]) + 1
  <2>1. Ranks(n, kind, b)
    BY <1>1, <1>3, <1>5, RanksAre
  <2> QED  BY <2>1 DEF Ranks
<1> DEFINE at(k) == CHOOSE i \in DOMAIN rows : Cardinality(b[i]) = k - 1
<1>7. ASSUME NEW k \in 1..n PROVE at(k) \in 1..n /\ Cardinality(b[at(k)]) = k - 1 /\ s[k] = rows[at(k)]
  <2>1. \E i \in DOMAIN rows : Cardinality(b[i]) = k - 1
    BY <1>1, <1>6
  <2>2. at(k) \in DOMAIN rows /\ Cardinality(b[at(k)]) = k - 1
    BY Zenon, <2>1
  <2>3. s[k] = rows[at(k)]
    BY Zenon, <1>1, <1>2
  <2> QED  BY <1>1, <2>2, <2>3
<1>8. DOMAIN s = 1..n
  BY <1>1, <1>2
<1> HIDE DEF at
<1>9. ASSUME NEW k \in 1..n, s[k].indent > 0 PROVE k > 1 /\ IsPrefix(Parent(s[k].path), s[k - 1].path)
  <2> DEFINE i == at(k)
  <2>1. i \in 1..n /\ Cardinality(b[i]) = k - 1 /\ s[k] = rows[i]
    BY <1>7
  <2> HIDE DEF i
  <2>2. i \in 2..n /\ kind[i] = kind[i - 1]
    BY <1>1, <1>4, <1>9, <2>1
  <2>3. Cardinality(b[i]) = Cardinality(b[i - 1]) + 1
    BY <1>6, <2>2
  <2>4. PICK m \in 1..n : Cardinality(b[i - 1]) = m - 1
    <3>1. i - 1 \in 1..n
      BY <1>1, <2>2
    <3> QED  BY <1>6, <3>1
  <2>5. k = m + 1
    BY <2>1, <2>3, <2>4
  <2>6. at(m) = i - 1
    <3>1. at(m) \in 1..n /\ i - 1 \in 1..n /\ Cardinality(b[at(m)]) = Cardinality(b[i - 1])
      <4>1. at(m) \in 1..n /\ Cardinality(b[at(m)]) = m - 1
        BY <1>7
      <4>2. i - 1 \in 1..n
        BY <1>1, <2>2
      <4> QED  BY <2>4, <4>1, <4>2
    <3> QED  BY <1>6, <3>1
  <2>7. k > 1 /\ k - 1 = m /\ s[k - 1] = rows[i - 1]
    BY <1>7, <2>5, <2>6
  <2>8. Under(rows, i)
    BY <1>1, <2>1 DEF Whole
  <2> QED  BY <1>9, <2>1, <2>7, <2>8 DEF Under
<1> QED  BY <1>8, <1>9 DEF Under

-----------------------------------------------------------------------------
(* The lists that wait, and those that are shown.                            *)

\* Those that wait are whole.
RowsWhole(q) == \A i \in DOMAIN q : q[i].do \in {"reply", "list"} => Whole(q[i].rows)

\* What is asked about is there: the program, the watches and the selected frame.
Placed ==
  /\ prog \in Programs \cup {Running, Failed, Ended} /\ IsFiniteSet(watches)
  /\ IsSeq(stack.levels) /\ IsSeq(stack.rows)
  /\ listening => level + 1 \in DOMAIN stack.levels

Grouped ==
  /\ RowsWhole(wx) /\ RowsWhole(juce)
  /\ \A v \in Views : \A i \in DOMAIN views[v].rows : Under(views[v].rows, i)

BlockInv == Placed /\ Grouped

\* What is posted is whole, and so is what waited.
LEMMA RowsMoved ==
  ASSUME NEW w, NEW d, NEW p, NEW w2, Moved(w, d, p, w2), RowsWhole(w), RowsWhole(p)
  PROVE  RowsWhole(w2)
<1> SUFFICES ASSUME NEW i \in DOMAIN w2, w2[i].do \in {"reply", "list"} PROVE Whole(w2[i].rows)
  BY DEF RowsWhole
<1>1. (\E k \in DOMAIN w : k > d /\ w2[i] = w[k]) \/ \E k \in DOMAIN p : w2[i] = p[k]
  BY MovedBack
<1> QED  BY <1>1 DEF RowsWhole

\* No rows wait in an empty queue.
LEMMA RowsNone == RowsWhole(<< >>)
BY NonePosted DEF RowsWhole

\* One event.
LEMMA RowsOne ==
  ASSUME NEW e, e.do \in {"reply", "list"} => Whole(e.rows)
  PROVE  RowsWhole(<<e>>)
<1>1. DOMAIN <<e>> = {1} /\ << e >>[1] = e
  BY OnePosted
<1> DEFINE s == <<e>>
<1>2. \A i \in DOMAIN s : s[i] = e
  BY <1>1
<1> HIDE DEF s
<1>3. RowsWhole(s)
  BY <1>2 DEF RowsWhole
<1> QED  BY <1>3 DEF s

\* Posted behind what waits.
LEMMA RowsPosted ==
  ASSUME NEW w, NEW p, IsSeq(w), IsSeq(p), RowsWhole(w), RowsWhole(p)
  PROVE  RowsWhole(w \o p)
<1>1. Moved(w, 0, p, w \o p)
  BY PostedMoves
<1> DEFINE w2 == w \o p
<1>2. Moved(w, 0, p, w2)
  BY Zenon, <1>1
<1> HIDE DEF w2
<1>3. RowsWhole(w2)
  BY <1>2, RowsMoved
<1> QED  BY Zenon, <1>3 DEF w2

\* One event posted.
LEMMA RowsAppended ==
  ASSUME NEW w, NEW e, IsSeq(w), RowsWhole(w), e.do \in {"reply", "list"} => Whole(e.rows)
  PROVE  RowsWhole(Append(w, e))
<1>1. Append(w, e) = w \o <<e>>
  BY AppendIs
<1> DEFINE p == <<e>>
<1>2. IsSeq(p) /\ RowsWhole(p)
  BY OneIs, RowsOne
<1>3. Append(w, e) = w \o p
  BY Zenon, <1>1
<1> HIDE DEF p
<1> QED  BY <1>2, <1>3, RowsPosted

\* The first event handled, and others posted.
LEMMA RowsHandled ==
  ASSUME Formed, Grouped, wx # << >>, NEW p, IsSeq(p), RowsWhole(p), Handled(p)
  PROVE  RowsWhole(wx')
<1>1. Moved(wx, 1, p, wx')
  BY HandledIs
<1> QED  BY <1>1, RowsMoved DEF Grouped

\* A signal carries no rows.
LEMMA RowsSignalled ==
  ASSUME Formed, Grouped, NEW do, do \notin {"reply", "list"}, NEW ps, ps \subseteq Views \cup {"stack", "memory"}
  PROVE  /\ IsSeq(ToWx(do, ps)) /\ RowsWhole(ToWx(do, ps))
         /\ IsSeq(ToJuce(do, ps)) /\ RowsWhole(ToJuce(do, ps))
         /\ Signal(do, ps) => RowsWhole(wx') /\ RowsWhole(juce')
<1> DEFINE a == ToWx(do, ps)
<1> DEFINE b == ToJuce(do, ps)
<1>1. /\ IsSeq(a) /\ IsSeq(b)
      /\ \A i \in DOMAIN a : \E p \in ps \cap (WxViews \cup {"stack"}) : a[i] = Event(do, p)
      /\ \A i \in DOMAIN b : b[i] = Event(do, "jlocals")
  BY SignalIs
<1>2. Signal(do, ps) => wx' = wx \o a /\ juce' = juce \o b
  BY DEF Signal
<1> HIDE DEF a, b
<1>3. \A p : Event(do, p).do = do
  BY DEF Event
<1>4. RowsWhole(a) /\ RowsWhole(b)
  BY <1>1, <1>3 DEF RowsWhole
<1>5. Signal(do, ps) => RowsWhole(wx') /\ RowsWhole(juce')
  <2>1. IsSeq(wx) /\ IsSeq(juce) /\ RowsWhole(wx) /\ RowsWhole(juce)
    BY DEF Formed, Grouped
  <2>2. RowsWhole(wx \o a) /\ RowsWhole(juce \o b)
    BY <1>1, <1>4, <2>1, RowsPosted
  <2> QED  BY Zenon, <1>2, <2>2
<1> QED  BY <1>1, <1>4, <1>5 DEF a, b

\* Nothing shown changes.
LEMMA UnderKept ==
  ASSUME Grouped, \A v \in Views : views'[v].rows = views[v].rows, RowsWhole(wx'), RowsWhole(juce')
  PROVE  Grouped'
<1>1. ASSUME NEW v \in Views PROVE \A i \in DOMAIN views'[v].rows : Under(views'[v].rows, i)
  BY DEF Grouped
<1> QED  BY <1>1 DEF Grouped

\* The tables or the button of a view: its rows stay.
LEMMA RowsStay ==
  ASSUME Formed, NEW v \in Views, NEW x,
         views' = [views EXCEPT ![v].expanded = x] \/ views' = [views EXCEPT ![v].auto = x]
  PROVE  \A u \in Views : views'[u].rows = views[u].rows
<1>1. views[v] = [rows |-> views[v].rows, from |-> views[v].from, level |-> views[v].level,
                  expanded |-> views[v].expanded, last |-> views[v].last, auto |-> views[v].auto]
  BY DEF Formed, ViewsFormed
<1> DEFINE a == [views[v] EXCEPT !.expanded = x]
<1> DEFINE b == [views[v] EXCEPT !.auto = x]
<1>2. a.rows = views[v].rows /\ b.rows = views[v].rows
  BY <1>1
<1>3. DOMAIN views = Views
  BY DEF Formed, ViewsFormed
<1>4. views' = [u \in Views |-> IF u = v THEN a ELSE views[u]] \/ views' = [u \in Views |-> IF u = v THEN b ELSE views[u]]
  BY <1>3
<1> HIDE DEF a, b
<1> QED  BY <1>2, <1>4

-----------------------------------------------------------------------------
(* The answers.                                                             *)

\* A program has a frame, and the call stack one level for each.
LEMMA LevelsAre ==
  ASSUME InspectInv, Placed, Stopped
  PROVE  /\ prog \in Programs /\ IsProgram(prog)
         /\ 1 \in DOMAIN stack.levels
         /\ ~prog.fake => DOMAIN stack.levels = DOMAIN prog.frames
<1>1. prog \in Programs /\ IsProgram(prog)
  BY ProgramsAssumption DEF Placed, Stopped
<1>2. stack.levels = ToClientStack(prog) /\ IsSeq(stack.levels)
  BY DEF InspectInv, Told, Placed
<1>3. CASE prog.fake
  <2> DEFINE e == [c |-> FALSE, alt |-> Named(""), args |-> << >>]
  <2>1. stack.levels = <<e>>
    BY Zenon, <1>2, <1>3 DEF ToClientStack
  <2> HIDE DEF e
  <2>2. DOMAIN stack.levels = {1}
    BY <2>1, OnePosted
  <2> QED  BY <1>1, <1>3, <2>2
<1>4. CASE ~prog.fake
  <2> DEFINE lv(f) == IF f.c THEN [c |-> TRUE, alt |-> Named(""), args |-> << >>]
                      ELSE [c |-> FALSE, alt |-> LookupFunctionPtr(prog, f.fn), args |-> Args(f)]
  <2>1. stack.levels = [j \in DOMAIN prog.frames |-> lv(prog.frames[j])]
    BY Zenon, <1>2, <1>4 DEF ToClientStack
  <2> HIDE DEF lv
  <2>2. DOMAIN stack.levels = DOMAIN prog.frames
    BY <2>1
  <2>3. IsSeq(prog.frames) /\ \E j \in DOMAIN prog.frames : ~prog.frames[j].c
    BY <1>1, <1>4, ProgramIs
  <2>4. Len(prog.frames) \in Nat /\ DOMAIN prog.frames = 1..Len(prog.frames)
    BY <2>3, SeqHas
  <2>5. 1 \in DOMAIN prog.frames
    BY <2>3, <2>4
  <2> QED  BY <1>1, <2>2, <2>5
<1> QED  BY <1>3, <1>4

\* An answer about what is there is whole.
LEMMA ReplyWhole ==
  ASSUME InspectInv, Placed, listening, NEW v \in Views, NEW x, NEW set, IsFiniteSet(set)
  PROVE  Whole(RequestVariables(Kind(v), Request(x, hidden), prog, level, SetToSeq(set)))
<1>1. Stopped
  BY DEF InspectInv, Told
<1>2. IsProgram(prog) /\ (~prog.fake => level + 1 \in DOMAIN prog.frames)
  BY <1>1, LevelsAre DEF Placed
<1> DEFINE req == Request(x, hidden)
<1>3. req.heap = prog.heap
  BY DEF Request, CopyStack
<1> DEFINE names == SetToSeq(set)
<1>4. IsSeq(names)
  BY SetToSeqIs
<1> DEFINE kind == Kind(v)
<1>5. kind \in {"locals", "globals", "watches"}
  BY DEF Kind, Views, WxViews
<1> HIDE DEF req, names, kind
<1>6. Whole(RequestVariables(kind, req, prog, level, names))
  BY <1>2, <1>3, <1>4, <1>5, AnswerWhole
<1> QED  BY Zenon, <1>6 DEF req, names, kind

\* What a view asks for comes whole.
LEMMA AskedWhole ==
  ASSUME InspectInv, Placed, NEW v \in Views, NEW x
  PROVE  IsSeq(Asked(v, x)) /\ RowsWhole(Asked(v, x))
<1>1. IsSeq(Asked(v, x))
  BY AskedIs DEF InspectInv
<1>2. CASE ~listening \/ ~Stopped
  <2>1. Asked(v, x) = << >>
    BY Zenon, <1>2 DEF Asked
  <2> QED  BY <1>1, <2>1, RowsNone
<1>3. CASE listening /\ Stopped
  <2> DEFINE rows == RequestVariables(Kind(v), Request(x, hidden), prog, level, SetToSeq(watches))
  <2>1. Asked(v, x) = <<Answer("reply", v, rows)>>
    BY Zenon, <1>3 DEF Asked
  <2>2. Whole(rows)
    BY <1>3, ReplyWhole DEF Placed
  <2> HIDE DEF rows
  <2>3. Answer("reply", v, rows).rows = rows
    BY DEF Answer
  <2> DEFINE e == Answer("reply", v, rows)
  <2>4. Whole(e.rows)
    BY <2>2, <2>3
  <2> HIDE DEF e
  <2>5. RowsWhole(<<e>>)
    BY <2>4, RowsOne
  <2> QED  BY Zenon, <1>1, <2>1, <2>5 DEF e
<1> QED  BY <1>2, <1>3

-----------------------------------------------------------------------------
(* Every action keeps the lists whole.                                      *)

\* The call stack, the connection, the watches and the program stay.
LEMMA PlacedStays ==
  ASSUME Placed, UNCHANGED <<prog, listening, level, watches, stack>>
  PROVE  Placed'
BY DEF Placed

\* Requests from a view.
LEMMA RequestBlocks ==
  ASSUME InspectInv, BlockInv, wx # << >>, RequestVarReload \/ OnWxThread
  PROVE  BlockInv'
<1>0. Formed /\ Placed /\ Grouped
  BY DEF InspectInv, BlockInv
<1>1. \E v \in Views : \E x : Handled(Asked(v, x))
  BY DEF RequestVarReload, OnWxThread, Views
<1>a. PICK v \in Views : \E x : Handled(Asked(v, x))
  BY <1>1
<1>2. PICK x : Handled(Asked(v, x))
  BY <1>a
<1> DEFINE p == Asked(v, x)
<1>3. IsSeq(p) /\ RowsWhole(p)
  BY <1>0, AskedWhole
<1>4. Handled(p)
  BY <1>2
<1> HIDE DEF p
<1>5. RowsWhole(wx')
  BY <1>0, <1>3, <1>4, RowsHandled
<1>6. UNCHANGED <<prog, listening, level, watches, stack, views, juce>>
  BY DEF RequestVarReload, OnWxThread, daemon, user, aside
<1>7. Placed'
  BY <1>0, <1>6, PlacedStays
<1>8. Grouped'
  BY <1>0, <1>5, <1>6, UnderKept DEF Grouped
<1> QED  BY <1>7, <1>8 DEF BlockInv

\* A watch is deleted: asked for at once.
LEMMA DeleteBlocks ==
  ASSUME InspectInv, BlockInv, NEW i, OnListItemDelete(i)
  PROVE  BlockInv'
<1>0. Formed /\ Told /\ Placed /\ Grouped
  BY DEF InspectInv, BlockInv
<1>1. IsFiniteSet(watches')
  <2>1. \E w : watches' = watches \ {w}
    BY DEF OnListItemDelete
  <2>2. IsFiniteSet(watches)
    BY <1>0 DEF Placed
  <2> QED  BY <2>1, <2>2, FS_Subset
<1>2. UNCHANGED <<prog, listening, level, stack, views, juce, now, hidden>>
  BY DEF OnListItemDelete, daemon, aside
<1>3. RowsWhole(wx')
  <2>1. CASE listening /\ Stopped
    <3> DEFINE x == views["watches"].expanded
    <3> DEFINE rows == RequestVariables("watches", Request(x, hidden), prog, level, SetToSeq(watches'))
    <3>1. wx' = wx \o <<Answer("reply", "watches", rows)>>
      BY Zenon, <2>1 DEF OnListItemDelete
    <3>2. Whole(rows)
      <4>1. "watches" \in Views /\ Kind("watches") = "watches"
        BY DEF Views, WxViews, Kind
      <4>2. Whole(RequestVariables(Kind("watches"), Request(x, hidden), prog, level, SetToSeq(watches')))
        BY <1>0, <1>1, <2>1, <4>1, ReplyWhole
      <4> QED  BY Zenon, <4>1, <4>2
    <3> HIDE DEF rows
    <3> DEFINE e == Answer("reply", "watches", rows)
    <3>3. e.rows = rows
      BY DEF Answer
    <3>4. Whole(e.rows)
      BY <3>2, <3>3
    <3> HIDE DEF e
    <3> DEFINE p == <<e>>
    <3>5. IsSeq(p) /\ RowsWhole(p)
      BY <3>4, OneIs, RowsOne
    <3>6. wx' = wx \o p
      BY Zenon, <3>1 DEF e
    <3> HIDE DEF p
    <3>7. IsSeq(wx) /\ RowsWhole(wx)
      BY <1>0 DEF Formed, Grouped
    <3>8. RowsWhole(wx \o p)
      BY <3>5, <3>7, RowsPosted
    <3> QED  BY Zenon, <3>6, <3>8
  <2>2. CASE ~(listening /\ Stopped)
    <3>1. wx' = wx \o << >>
      BY Zenon, <2>2 DEF OnListItemDelete
    <3>2. RowsWhole(wx \o << >>)
      BY <1>0, RowsNone, NonePosted, RowsPosted DEF Formed, Grouped
    <3> QED  BY Zenon, <3>1, <3>2
  <2> QED  BY <2>1, <2>2
<1>4. Placed'
  BY <1>0, <1>1, <1>2 DEF Placed
<1>5. Grouped'
  BY <1>0, <1>2, <1>3, UnderKept DEF Grouped
<1> QED  BY <1>4, <1>5 DEF BlockInv

\* An answer is handed to the view that asked.
LEMMA DispatchBlocks ==
  ASSUME InspectInv, BlockInv, wx # << >>, DispatchReply
  PROVE  BlockInv'
<1>0. Formed /\ Placed /\ Grouped
  BY DEF InspectInv, BlockInv
<1> DEFINE list == [Head(wx) EXCEPT !.do = "list"]
<1>1. Head(wx) = wx[1] /\ 1 \in DOMAIN wx /\ WxOk(wx[1]) /\ wx[1].do = "reply"
  BY <1>0, HeadIs DEF DispatchReply
<1>2. list.rows = wx[1].rows
  BY <1>1 DEF WxOk
<1>3. Whole(list.rows)
  BY <1>0, <1>1, <1>2 DEF Grouped, RowsWhole
<1>4. \/ Handled(<< >>) /\ juce' = Append(juce, list)
      \/ Handled(<<list>>) /\ UNCHANGED juce
  BY Zenon DEF DispatchReply
<1> HIDE DEF list
<1>5. RowsWhole(wx') /\ RowsWhole(juce')
  <2>1. CASE Handled(<< >>) /\ juce' = Append(juce, list)
    <3>1. RowsWhole(wx')
      BY <1>0, <2>1, NonePosted, RowsNone, RowsHandled
    <3>2. IsSeq(juce) /\ RowsWhole(juce)
      BY <1>0 DEF Formed, Grouped
    <3>3. RowsWhole(Append(juce, list))
      BY <1>3, <3>2, RowsAppended
    <3> QED  BY Zenon, <2>1, <3>1, <3>3
  <2>2. CASE Handled(<<list>>) /\ UNCHANGED juce
    <3> DEFINE p == <<list>>
    <3>1. IsSeq(p) /\ RowsWhole(p)
      BY <1>3, OneIs, RowsOne
    <3>2. Handled(p)
      BY <2>2
    <3> HIDE DEF p
    <3>3. RowsWhole(wx')
      BY <1>0, <3>1, <3>2, RowsHandled
    <3> QED  BY <1>0, <2>2, <3>3 DEF Grouped
  <2> QED  BY <1>4, <2>1, <2>2
<1>6. UNCHANGED <<prog, listening, level, watches, stack, views>>
  BY DEF DispatchReply, daemon, user, aside
<1>7. Placed'
  BY <1>0, <1>6, PlacedStays
<1>8. Grouped'
  BY <1>0, <1>5, <1>6, UnderKept
<1> QED  BY <1>7, <1>8 DEF BlockInv

\* The rows of a view are those of a list, sorted or not.
LEMMA SetUnder ==
  ASSUME Formed, Grouped, NEW v \in Views, NEW e, Whole(e.rows), SetVariables(v, e), RowsWhole(wx'), RowsWhole(juce')
  PROVE  Grouped'
<1> DEFINE rows == IF views[v].auto THEN AutoSorted(views[v], e.rows) ELSE e.rows
<1> DEFINE new == [rows |-> rows, from |-> e.from, level |-> e.level, expanded |-> Expanded(rows),
                   last |-> IF v \in WxViews THEN LastValues(rows) ELSE << >>, auto |-> views[v].auto]
<1>1. views' = [views EXCEPT ![v] = new]
  BY Zenon DEF SetVariables
<1>2. DOMAIN views = Views
  BY DEF Formed, ViewsFormed
<1>3. new.rows = rows
  OBVIOUS
<1> HIDE DEF new
<1>4. views'[v].rows = rows /\ \A u \in Views : u # v => views'[u] = views[u]
  BY <1>1, <1>2, <1>3
<1>5. \A k \in DOMAIN rows : Under(rows, k)
  <2>1. CASE views[v].auto
    <3>1. rows = AutoSorted(views[v], e.rows)
      BY Zenon, <2>1
    <3> HIDE DEF rows
    <3> QED  BY <3>1, SortedUnder
  <2>2. CASE ~views[v].auto
    <3>1. rows = e.rows
      BY Zenon, <2>2
    <3> HIDE DEF rows
    <3> QED  BY <3>1 DEF Whole
  <2> QED  BY <2>1, <2>2
<1> HIDE DEF rows
<1>6. ASSUME NEW u \in Views PROVE \A k \in DOMAIN views'[u].rows : Under(views'[u].rows, k)
  BY <1>4, <1>5 DEF Grouped
<1> QED  BY <1>6 DEF Grouped

\* A view that is emptied.
LEMMA ClearUnder ==
  ASSUME Formed, Grouped, NEW v, ClearVariables(v), RowsWhole(wx'), RowsWhole(juce')
  PROVE  Grouped'
<1> DEFINE a == views[v].auto
<1> DEFINE x == IF v = "jlocals" THEN views[v].expanded ELSE {}
<1> DEFINE new == [[EmptyView EXCEPT !.auto = a] EXCEPT !.expanded = x]
<1>1. views' = [views EXCEPT ![v] = new]
  BY DEF ClearVariables
<1>2. DOMAIN views = Views
  BY DEF Formed, ViewsFormed
<1>3. new.rows = << >>
  <2> HIDE DEF a, x
  <2> QED  BY DEF EmptyView
<1> HIDE DEF new, a, x
<1>4. ASSUME NEW u \in Views PROVE views'[u].rows = << >> \/ views'[u] = views[u]
  BY <1>1, <1>2, <1>3
<1>5. ASSUME NEW u \in Views PROVE \A k \in DOMAIN views'[u].rows : Under(views'[u].rows, k)
  <2>1. CASE views'[u].rows = << >>
    BY <2>1, NonePosted
  <2>2. CASE views'[u] = views[u]
    BY <2>2 DEF Grouped
  <2> QED  BY <1>4, <2>1, <2>2
<1> QED  BY <1>5 DEF Grouped

\* Nothing happens to the lists.
LEMMA StillBlocks ==
  ASSUME BlockInv, Placed', UNCHANGED <<wx, juce, views>>
  PROVE  BlockInv'
BY DEF BlockInv, Grouped, RowsWhole, Under

\* What is posted to the wx thread carries no rows.
LEMMA PostBlocks ==
  ASSUME InspectInv, BlockInv, UNCHANGED <<prog, listening, level, stack, juce>>, IsFiniteSet(watches'),
         \A u \in Views : views'[u].rows = views[u].rows,
         NEW p, IsSeq(p), RowsWhole(p), wx' = wx \o p
  PROVE  BlockInv'
<1>1. Formed /\ Placed /\ Grouped
  BY DEF InspectInv, BlockInv
<1>2. IsSeq(wx) /\ RowsWhole(wx) /\ RowsWhole(juce)
  BY <1>1 DEF Formed, Grouped
<1>3. RowsWhole(wx \o p)
  BY <1>2, RowsPosted
<1>4. RowsWhole(wx') /\ RowsWhole(juce')
  <2>1. RowsWhole(wx')
    BY Zenon, <1>3
  <2> QED  BY <1>2, <2>1
<1>5. Grouped'
  BY <1>1, <1>4, UnderKept
<1>6. Placed'
  BY <1>1 DEF Placed
<1> QED  BY <1>5, <1>6 DEF BlockInv

\* A request of a view for its rows carries none.
LEMMA ReloadPlain ==
  ASSUME NEW v
  PROVE  IsSeq(DoReload(v)) /\ RowsWhole(DoReload(v))
<1>1. IsSeq(DoReload(v)) /\ Posted(DoReload(v))
  BY DoReloadIs
<1> QED  BY <1>1 DEF Posted, RowsWhole

\* One event without rows is posted.
LEMMA AppendBlocks ==
  ASSUME InspectInv, BlockInv, UNCHANGED <<prog, listening, level, stack, juce, watches, views>>,
         NEW e, e.do \notin {"reply", "list"}, wx' = Append(wx, e)
  PROVE  BlockInv'
<1> DEFINE p == <<e>>
<1>1. wx' = wx \o p
  BY AppendIs DEF InspectInv, Formed
<1>2. IsSeq(p) /\ RowsWhole(p)
  BY OneIs, RowsOne
<1> HIDE DEF p
<1>3. IsFiniteSet(watches')
  BY DEF BlockInv, Placed
<1> QED  BY <1>1, <1>2, <1>3, PostBlocks

\* What the user does to a view.
LEMMA ViewBlocks ==
  ASSUME InspectInv, BlockInv, NEW v, NEW i, NEW t,
         ToggleTable(v, i) \/ CollapseAll(v) \/ OnAutoButtonToggled(v) \/ OnVarToggleButton(v, t)
  PROVE  BlockInv'
<1>0. Formed /\ v \in Views
  BY DEF InspectInv, ToggleTable, CollapseAll, OnAutoButtonToggled, OnVarToggleButton, Views
<1>1. /\ UNCHANGED <<prog, listening, level, stack, juce, watches>>
      /\ wx' = wx \o DoReload(v)
  BY DEF ToggleTable, CollapseAll, OnAutoButtonToggled, OnVarToggleButton, daemon, user, aside
<1>2. \A u \in Views : views'[u].rows = views[u].rows
  <2>1. \/ \E x : views' = [views EXCEPT ![v].expanded = x] \/ views' = [views EXCEPT ![v].auto = x]
        \/ views' = views
    <3>1. CASE ToggleTable(v, i)
      BY <3>1 DEF ToggleTable
    <3>2. CASE CollapseAll(v)
      BY <3>2 DEF CollapseAll
    <3>3. CASE OnAutoButtonToggled(v)
      <4>1. views' = [views EXCEPT ![v].auto = ~views[v].auto]
        BY <3>3 DEF OnAutoButtonToggled, Formed
      <4> QED  BY <4>1
    <3>4. CASE OnVarToggleButton(v, t)
      BY <3>4 DEF OnVarToggleButton
    <3> QED  BY <3>1, <3>2, <3>3, <3>4
  <2>2. CASE views' = views
    BY <2>2
  <2>3. ASSUME NEW x, views' = [views EXCEPT ![v].expanded = x] \/ views' = [views EXCEPT ![v].auto = x]
        PROVE  \A u \in Views : views'[u].rows = views[u].rows
    BY <1>0, <2>3, RowsStay
  <2> QED  BY <2>1, <2>2, <2>3
<1>3. IsFiniteSet(watches')
  BY <1>1 DEF BlockInv, Placed
<1>4. IsSeq(DoReload(v)) /\ RowsWhole(DoReload(v))
  BY ReloadPlain
<1> DEFINE p == DoReload(v)
<1>5. IsSeq(p) /\ RowsWhole(p) /\ wx' = wx \o p
  BY <1>1, <1>4
<1> HIDE DEF p
<1> QED  BY <1>1, <1>2, <1>3, <1>5, PostBlocks

\* One event of the user is posted.
LEMMA EventBlocks ==
  ASSUME InspectInv, BlockInv, NEW v, NEW i,
         JuceToggle(i) \/ ShowMemory(v, i) \/ OnSpinRangeEvent(i) \/ OnResizeEvent(i)
  PROVE  BlockInv'
<1>1. UNCHANGED <<prog, listening, level, stack, juce, watches, views>>
  BY DEF JuceToggle, ShowMemory, OnSpinRangeEvent, OnResizeEvent, daemon, user, aside
<1>2. \E e : e.do \in {"jreload", "memory", "jmemory", "redraw"} /\ wx' = Append(wx, e)
  <2>1. CASE JuceToggle(i)
    BY <2>1 DEF JuceToggle
  <2>2. CASE ShowMemory(v, i)
    BY <2>2 DEF ShowMemory, SetMemoryWatch
  <2>3. CASE OnSpinRangeEvent(i)
    BY <2>3 DEF OnSpinRangeEvent, Event
  <2>4. CASE OnResizeEvent(i)
    BY <2>4 DEF OnResizeEvent, Event
  <2> QED  BY <2>1, <2>2, <2>3, <2>4
<1>3. PICK e : e.do \in {"jreload", "memory", "jmemory", "redraw"} /\ wx' = Append(wx, e)
  BY <1>2
<1> QED  BY <1>1, <1>3, AppendBlocks

\* A word is asked for: its answer goes to the cache.
LEMMA HoverBlocks ==
  ASSUME InspectInv, BlockInv, NEW i, OnMouseMove(i)
  PROVE  BlockInv'
<1>1. UNCHANGED <<prog, listening, level, stack, juce, watches, views>>
  BY DEF OnMouseMove, daemon, user
<1>2. wx' = wx \/ wx' = wx \o << >> \/ \E rows : wx' = wx \o <<Answer("solved", "", rows)>>
  BY Zenon DEF OnMouseMove, Solved
<1>3. Placed /\ Placed' /\ IsFiniteSet(watches')
  BY <1>1 DEF BlockInv, Placed
<1>4. CASE wx' = wx
  BY <1>1, <1>3, <1>4, StillBlocks
<1>5. CASE wx' = wx \o << >>
  BY <1>1, <1>3, <1>5, NonePosted, RowsNone, PostBlocks
<1>6. ASSUME NEW rows, wx' = wx \o <<Answer("solved", "", rows)>> PROVE BlockInv'
  <2> DEFINE e == Answer("solved", "", rows)
  <2>1. e.do = "solved"
    BY DEF Answer
  <2> DEFINE p == <<e>>
  <2>2. wx' = wx \o p
    BY <1>6
  <2> HIDE DEF e
  <2>3. IsSeq(p) /\ RowsWhole(p)
    BY <2>1, OneIs, RowsOne
  <2> HIDE DEF p
  <2> QED  BY <1>1, <1>3, <2>2, <2>3, PostBlocks
<1> QED  BY <1>2, <1>4, <1>5, <1>6

\* A watch is edited or added.
LEMMA WatchBlocks ==
  ASSUME InspectInv, BlockInv, NEW x, EndEdit(x) \/ OnRightDown(x)
  PROVE  BlockInv'
<1>0. Placed
  BY DEF BlockInv
<1>1. UNCHANGED <<prog, listening, level, stack, juce, views>>
  BY DEF EndEdit, OnRightDown, daemon, aside
<1>2. IsFiniteSet(watches')
  <2>1. IsFiniteSet(watches)
    BY <1>0 DEF Placed
  <2>2. watches' = watches \/ \E a, b : watches' = (watches \ a) \cup ({b} \ {Named("")}) \/ watches' = watches \cup {b}
    BY DEF EndEdit, OnRightDown, AddToWatches
  <2>3. \A a : IsFiniteSet(watches \ a)
    BY <2>1, FS_Subset
  <2>4. \A b : IsFiniteSet({b}) /\ IsFiniteSet({b} \ {Named("")})
    <3>1. \A b : IsFiniteSet({b})
      BY FS_Singleton
    <3> QED  BY <3>1, FS_Subset
  <2>5. \A s, t : IsFiniteSet(s) /\ IsFiniteSet(t) => IsFiniteSet(s \cup t)
    BY FS_Union
  <2>6. ASSUME NEW a, NEW b
        PROVE  IsFiniteSet((watches \ a) \cup ({b} \ {Named("")})) /\ IsFiniteSet(watches \cup {b})
    BY <2>1, <2>3, <2>4, <2>5
  <2>7. CASE watches' = watches
    BY <2>1, <2>7
  <2>8. ASSUME NEW a, NEW b,
               watches' = (watches \ a) \cup ({b} \ {Named("")}) \/ watches' = watches \cup {b}
        PROVE  IsFiniteSet(watches')
    <3> DEFINE A == (watches \ a) \cup ({b} \ {Named("")})
    <3> DEFINE B == watches \cup {b}
    <3>1. IsFiniteSet(A) /\ IsFiniteSet(B)
      BY <2>6
    <3>2. watches' = A \/ watches' = B
      BY <2>8
    <3> HIDE DEF A, B
    <3> QED  BY <3>1, <3>2
  <2> QED  BY <2>2, <2>7, <2>8
<1>3. wx' = wx \/ wx' = wx \o DoReload("watches")
  BY DEF EndEdit, OnRightDown
<1>4. CASE wx' = wx
  <2>1. Placed'
    BY <1>0, <1>1, <1>2 DEF Placed
  <2> QED  BY <1>1, <1>4, <2>1, StillBlocks
<1>5. CASE wx' = wx \o DoReload("watches")
  <2> DEFINE p == DoReload("watches")
  <2>1. IsSeq(p) /\ RowsWhole(p) /\ wx' = wx \o p
    BY <1>5, ReloadPlain
  <2> HIDE DEF p
  <2> QED  BY <1>1, <1>2, <2>1, PostBlocks
<1> QED  BY <1>3, <1>4, <1>5

\* Steps that leave the lists alone.
LEMMA AsideBlocks ==
  ASSUME InspectInv, BlockInv, NEW i,
         BeginEdit(i) \/ CancelToolTip \/ OnRefreshMemoryView \/ paintCell \/ ResetProject
         \/ Start \/ DaemonDies(i) \/ ResumeExecution
  PROVE  BlockInv'
<1>0. Placed
  BY DEF BlockInv
<1>1. UNCHANGED <<wx, juce, views, level, watches, stack>>
  BY DEF BeginEdit, CancelToolTip, OnRefreshMemoryView, paintCell, ResetProject, Start, DaemonDies,
         ResumeExecution, daemon, user, aside
<1>2. prog' = prog \/ prog' \in {Running, Failed, Ended}
  BY DEF BeginEdit, CancelToolTip, OnRefreshMemoryView, paintCell, ResetProject, Start, DaemonDies,
         ResumeExecution, daemon
<1>3. listening' => listening
  BY DEF BeginEdit, CancelToolTip, OnRefreshMemoryView, paintCell, ResetProject, Start, DaemonDies,
         ResumeExecution
<1>4. Placed'
  BY <1>0, <1>1, <1>2, <1>3 DEF Placed
<1> QED  BY <1>1, <1>4, StillBlocks

\* The session ends or the connection is lost: the panes are told to empty themselves.
LEMMA AwayBlocks ==
  ASSUME InspectInv, BlockInv, SessionEnds \/ LostConnection
  PROVE  BlockInv'
<1>0. Formed /\ Told /\ Placed /\ Grouped
  BY DEF InspectInv, BlockInv
<1>1. /\ UNCHANGED <<views, level, watches, stack>> /\ prog' = Ended /\ ~listening'
      /\ Signal("clear", front)
  BY <1>0 DEF SessionEnds, LostConnection, Told, Stopped, user, aside, ClearVarViews, ShownPages
<1>2. front \subseteq Views \cup {"stack", "memory"}
  BY <1>0, PanesAssumption DEF Formed
<1>3. RowsWhole(wx') /\ RowsWhole(juce')
  BY <1>0, <1>1, <1>2, RowsSignalled
<1>4. Grouped'
  BY <1>0, <1>1, <1>3, UnderKept
<1>5. Placed'
  BY <1>0, <1>1 DEF Placed
<1> QED  BY <1>4, <1>5 DEF BlockInv

\* A pause: the levels are those of the program.
LEMMA PauseBlocks ==
  ASSUME InspectInv, BlockInv, NEW p \in Programs, Pause(p)
  PROVE  BlockInv'
<1>0. Formed /\ Told /\ Placed /\ Grouped
  BY DEF InspectInv, BlockInv
<1>1. /\ UNCHANGED <<views, level, watches, juce, listening>> /\ prog' = p /\ prog = Running
      /\ stack' = [stack EXCEPT !.levels = ToClientStack(p)]
      /\ wx' = Append(wx, Event("suspended", ""))
  BY DEF Pause, user
<1>2. ~listening'
  BY <1>0, <1>1 DEF Told, Stopped
<1>3. stack'.levels = ToClientStack(p) /\ stack'.rows = stack.rows
  BY <1>0, <1>1 DEF Formed
<1>4. IsSeq(ToClientStack(p))
  <2>1. CASE p.fake
    <3> DEFINE e == [c |-> FALSE, alt |-> Named(""), args |-> << >>]
    <3>1. ToClientStack(p) = <<e>>
      BY Zenon, <2>1 DEF ToClientStack
    <3> HIDE DEF e
    <3> QED  BY <3>1, OneIs
  <2>2. CASE ~p.fake
    <3> DEFINE lv(f) == IF f.c THEN [c |-> TRUE, alt |-> Named(""), args |-> << >>]
                        ELSE [c |-> FALSE, alt |-> LookupFunctionPtr(p, f.fn), args |-> Args(f)]
    <3> DEFINE a == [j \in DOMAIN p.frames |-> lv(p.frames[j])]
    <3>1. ToClientStack(p) = a
      BY Zenon, <2>2 DEF ToClientStack
    <3>2. IsSeq(p.frames)
      BY <2>2, ProgramsAssumption, ProgramIs
    <3>3. Len(p.frames) \in Nat /\ DOMAIN p.frames = 1..Len(p.frames)
      BY <3>2, SeqHas
    <3> HIDE DEF lv
    <3>4. IsSeq(a)
      BY <3>3, FunIs
    <3> QED  BY <3>1, <3>4
  <2> QED  BY <2>1, <2>2
<1>5. Placed'
  <2>1. IsSeq(stack'.levels) /\ IsSeq(stack'.rows)
    BY <1>0, <1>3, <1>4 DEF Placed
  <2> QED  BY <1>0, <1>1, <1>2, <2>1 DEF Placed
<1>6. RowsWhole(wx')
  <2> DEFINE e == Event("suspended", "")
  <2>1. e.do = "suspended" /\ wx' = Append(wx, e)
    BY <1>1 DEF Event
  <2> HIDE DEF e
  <2>2. IsSeq(wx) /\ RowsWhole(wx)
    BY <1>0 DEF Formed, Grouped
  <2>3. RowsWhole(Append(wx, e))
    BY <2>1, <2>2, RowsAppended
  <2> QED  BY Zenon, <2>1, <2>3
<1>7. Grouped'
  BY <1>0, <1>1, <1>6, UnderKept DEF Grouped
<1> QED  BY <1>5, <1>7 DEF BlockInv

\* Another pane, or the columns made anew.
LEMMA PaneBlocks ==
  ASSUME InspectInv, BlockInv, NEW q, (q \in Panes /\ SelectPane(q)) \/ OnShowVarPaths
  PROVE  BlockInv'
<1>0. Formed /\ Placed /\ Grouped
  BY DEF InspectInv, BlockInv
<1>1. UNCHANGED <<prog, listening, level, stack, watches, views>>
  BY DEF SelectPane, OnShowVarPaths, daemon, user, aside
<1>2. \E ps : ps \subseteq Views \cup {"stack", "memory"} /\ Signal("reload", ps)
  <2>1. Panes \subseteq Views \cup {"stack", "memory"}
    BY PanesAssumption
  <2>2. CASE q \in Panes /\ SelectPane(q)
    <3>1. {q} \subseteq Views \cup {"stack", "memory"}
      BY <2>1, <2>2
    <3> QED  BY <2>2, <3>1 DEF SelectPane, OnChildPageEmerged
  <2>3. CASE OnShowVarPaths
    <3>1. Views \cap Panes \subseteq Views \cup {"stack", "memory"}
      OBVIOUS
    <3> QED  BY Zenon, <2>3, <3>1 DEF OnShowVarPaths, ResetColumns
  <2> QED  BY <2>2, <2>3
<1>3. RowsWhole(wx') /\ RowsWhole(juce')
  BY <1>0, <1>2, RowsSignalled
<1>4. Grouped'
  BY <1>0, <1>1, <1>3, UnderKept
<1>5. Placed'
  BY <1>0, <1>1, PlacedStays
<1> QED  BY <1>4, <1>5 DEF BlockInv

\* Another frame is selected: one of the levels.
LEMMA LevelBlocks ==
  ASSUME InspectInv, BlockInv, NEW i \in DOMAIN stack.rows, OnItemActivated(i)
  PROVE  BlockInv'
<1>0. Formed /\ Placed /\ Grouped
  BY DEF InspectInv, BlockInv
<1>1. UNCHANGED <<prog, listening, stack, watches, views>>
  BY DEF OnItemActivated, daemon, user, aside
<1>2. \/ i <= Len(stack.levels) /\ level' = i - 1 /\ Signal("reload", front)
      \/ UNCHANGED <<level, wx, juce>>
  BY DEF OnItemActivated, ShownPages
<1>3. /\ Len(stack.levels) \in Nat /\ DOMAIN stack.levels = 1..Len(stack.levels)
      /\ Len(stack.rows) \in Nat /\ DOMAIN stack.rows = 1..Len(stack.rows)
  BY <1>0, SeqHas DEF Placed
<1>4. CASE i <= Len(stack.levels) /\ level' = i - 1 /\ Signal("reload", front)
  <2>1. front \subseteq Views \cup {"stack", "memory"}
    BY <1>0, PanesAssumption DEF Formed
  <2>2. RowsWhole(wx') /\ RowsWhole(juce')
    BY <1>0, <1>4, <2>1, RowsSignalled
  <2>3. Grouped'
    BY <1>0, <1>1, <2>2, UnderKept
  <2>4. level' + 1 \in DOMAIN stack.levels
    BY <1>3, <1>4
  <2>5. Placed'
    BY <1>0, <1>1, <2>4 DEF Placed
  <2> QED  BY <2>3, <2>5 DEF BlockInv
<1>5. CASE UNCHANGED <<level, wx, juce>>
  BY <1>0, <1>1, <1>5, PlacedStays, StillBlocks
<1> QED  BY <1>2, <1>4, <1>5

\* The pause is taken in: the first frame is selected.
LEMMA SuspendedBlocks ==
  ASSUME InspectInv, BlockInv, wx # << >>, OnLuaSuspended
  PROVE  BlockInv'
<1>0. Formed /\ Told /\ Placed /\ Grouped
  BY DEF InspectInv, BlockInv
<1> DEFINE a == ToWx("reload", front)
<1> DEFINE b == ToJuce("reload", front)
<1>1. Handled(a) /\ juce' = juce \o b /\ level' = 0 /\ wx[1].do = "suspended" /\ 1 \in DOMAIN wx
  BY <1>0, HeadIs DEF OnLuaSuspended, ShownPages
<1>2. UNCHANGED <<prog, watches, stack, views>>
  BY DEF OnLuaSuspended, daemon, user, aside
<1>3. front \subseteq Views \cup {"stack", "memory"}
  BY <1>0, PanesAssumption DEF Formed
<1>4. IsSeq(a) /\ RowsWhole(a) /\ IsSeq(b) /\ RowsWhole(b)
  BY <1>0, <1>3, RowsSignalled
<1> HIDE DEF a, b
<1>5. RowsWhole(wx') /\ RowsWhole(juce')
  <2>1. RowsWhole(wx')
    BY <1>0, <1>1, <1>4, RowsHandled
  <2>2. IsSeq(juce) /\ RowsWhole(juce)
    BY <1>0 DEF Formed, Grouped
  <2>3. RowsWhole(juce \o b)
    BY <1>4, <2>2, RowsPosted
  <2> QED  BY Zenon, <1>1, <2>1, <2>3
<1>6. Grouped'
  BY <1>0, <1>2, <1>5, UnderKept
<1>7. Placed'
  <2>1. Stopped
    BY <1>0, <1>1 DEF Told
  <2>2. 1 \in DOMAIN stack.levels
    BY <1>0, <2>1, LevelsAre
  <2>3. level' + 1 = 1
    BY <1>1
  <2> QED  BY <1>0, <1>2, <2>2, <2>3 DEF Placed
<1> QED  BY <1>6, <1>7 DEF BlockInv

\* The call stack lists its levels.
LEMMA StackBlocks ==
  ASSUME InspectInv, BlockInv, wx # << >>, ReloadStack
  PROVE  BlockInv'
<1>0. Formed /\ Placed /\ Grouped
  BY DEF InspectInv, BlockInv
<1>1. /\ Handled(<< >>) /\ UNCHANGED <<prog, listening, level, watches, views, juce>>
      /\ stack' = [stack EXCEPT !.rows = Traced(stack.levels)]
  BY DEF ReloadStack, daemon, user
<1>2. stack'.levels = stack.levels /\ stack'.rows = Traced(stack.levels)
  BY <1>0, <1>1 DEF Formed
<1>3. IsSeq(Traced(stack.levels))
  <2> DEFINE n == Len(stack.levels)
  <2> DEFINE a == [i \in DOMAIN stack.levels |-> [of |-> stack.levels[i], arrow |-> i = level + 1]]
  <2>1. n \in Nat /\ DOMAIN stack.levels = 1..n
    BY <1>0, SeqHas DEF Placed
  <2> HIDE DEF n
  <2>2. IsSeq(a)
    BY <2>1, FunIs
  <2> QED  BY <2>2 DEF Traced
<1>4. RowsWhole(wx') /\ RowsWhole(juce')
  BY <1>0, <1>1, NonePosted, RowsNone, RowsHandled DEF Grouped
<1>5. Grouped'
  BY <1>0, <1>1, <1>4, UnderKept
<1>6. Placed'
  BY <1>0, <1>1, <1>2, <1>3 DEF Placed
<1> QED  BY <1>5, <1>6 DEF BlockInv

\* A list comes to its view.
LEMMA PostedBlocks ==
  ASSUME InspectInv, BlockInv, wx # << >>, OnPostedCollectedMessage
  PROVE  BlockInv'
<1>0. Formed /\ Placed /\ Grouped
  BY DEF InspectInv, BlockInv
<1>1. Head(wx) = wx[1] /\ 1 \in DOMAIN wx /\ WxOk(wx[1]) /\ wx[1].do = "list"
  BY <1>0, HeadIs DEF OnPostedCollectedMessage
<1>2. /\ SetVariables(wx[1].view, wx[1]) /\ Handled(<< >>)
      /\ UNCHANGED <<prog, listening, level, watches, stack, juce>>
  BY <1>1 DEF OnPostedCollectedMessage, daemon, user, aside
<1>3. wx[1].view \in Views
  BY <1>1 DEF WxOk, Views
<1>4. Whole(wx[1].rows)
  BY <1>0, <1>1 DEF Grouped, RowsWhole
<1>5. RowsWhole(wx') /\ RowsWhole(juce')
  BY <1>0, <1>2, NonePosted, RowsNone, RowsHandled DEF Grouped
<1>6. Grouped'
  BY <1>0, <1>2, <1>3, <1>4, <1>5, SetUnder
<1>7. Placed'
  BY <1>0, <1>2, PlacedStays
<1> QED  BY <1>6, <1>7 DEF BlockInv

\* A pane is emptied, none while a program is stopped.
LEMMA ClearBlocks ==
  ASSUME InspectInv, BlockInv, wx # << >>, OnClear
  PROVE  BlockInv'
<1>0. Formed /\ Told /\ Placed /\ Grouped
  BY DEF InspectInv, BlockInv
<1>1. Head(wx) = wx[1] /\ 1 \in DOMAIN wx /\ wx[1].do = "clear"
  BY <1>0, HeadIs DEF OnClear
<1>2. /\ Handled(<< >>) /\ UNCHANGED <<prog, listening, level, watches, juce>>
      /\ \/ stack' = [levels |-> << >>, rows |-> << >>] /\ UNCHANGED views
         \/ ClearVariables(Head(wx).view) /\ UNCHANGED stack
  BY DEF OnClear, daemon, user
<1>3. ~listening'
  BY <1>0, <1>1, <1>2 DEF Told
<1>4. RowsWhole(wx') /\ RowsWhole(juce')
  BY <1>0, <1>2, NonePosted, RowsNone, RowsHandled DEF Grouped
<1>5. Grouped'
  <2>1. CASE UNCHANGED views
    BY <1>0, <1>4, <2>1, UnderKept
  <2>2. CASE ClearVariables(Head(wx).view)
    BY <1>0, <1>4, <2>2, ClearUnder
  <2> QED  BY <1>2, <2>1, <2>2
<1>6. IsSeq(stack'.levels) /\ IsSeq(stack'.rows)
  <2>1. CASE stack' = [levels |-> << >>, rows |-> << >>]
    <3>1. stack'.levels = << >> /\ stack'.rows = << >>
      BY <2>1
    <3> QED  BY <3>1, NonePosted
  <2>2. CASE UNCHANGED stack
    BY <1>0, <2>2 DEF Placed
  <2> QED  BY <1>2, <2>1, <2>2
<1>7. Placed'
  BY <1>0, <1>2, <1>3, <1>6 DEF Placed
<1> QED  BY <1>5, <1>7 DEF BlockInv

\* Events of the wx thread that change no list.
LEMMA OtherBlocks ==
  ASSUME InspectInv, BlockInv, wx # << >>, SetSolvedVariable \/ OnShowMemory \/ PassShowMemory \/ OnRedraw
  PROVE  BlockInv'
<1>0. Formed /\ Placed /\ Grouped
  BY DEF InspectInv, BlockInv
<1>1. UNCHANGED <<prog, listening, level, watches, stack, views, juce>>
  BY DEF SetSolvedVariable, OnShowMemory, PassShowMemory, OnRedraw, daemon, user, aside
<1>2. Handled(<< >>) \/ (Head(wx).do = "jmemory" /\ Handled(<<[Head(wx) EXCEPT !.do = "memory"]>>))
  BY Zenon DEF SetSolvedVariable, OnShowMemory, PassShowMemory, OnRedraw
<1>3. RowsWhole(wx')
  <2>1. CASE Handled(<< >>)
    BY <1>0, <2>1, NonePosted, RowsNone, RowsHandled
  <2>2. CASE Head(wx).do = "jmemory" /\ Handled(<<[Head(wx) EXCEPT !.do = "memory"]>>)
    <3> DEFINE e == [Head(wx) EXCEPT !.do = "memory"]
    <3>1. Head(wx) = wx[1] /\ WxOk(wx[1])
      BY <1>0, HeadIs
    <3>2. e.do = "memory"
      BY <2>2, <3>1 DEF WxOk
    <3> DEFINE p == <<e>>
    <3>3. Handled(p)
      BY <2>2
    <3> HIDE DEF e
    <3>4. IsSeq(p) /\ RowsWhole(p)
      BY <3>2, OneIs, RowsOne
    <3> HIDE DEF p
    <3> QED  BY <1>0, <3>3, <3>4, RowsHandled
  <2> QED  BY <1>2, <2>1, <2>2
<1>4. Grouped'
  BY <1>0, <1>1, <1>3, UnderKept DEF Grouped
<1>5. Placed'
  BY <1>0, <1>1, PlacedStays
<1> QED  BY <1>4, <1>5 DEF BlockInv

\* What is left of the events of the other thread.
LEMMA JuceTail ==
  ASSUME Formed, Grouped, juce # << >>
  PROVE  /\ Head(juce) = juce[1] /\ 1 \in DOMAIN juce
         /\ juce' = Tail(juce) => RowsWhole(juce')
         /\ SetEntries => RowsWhole(juce')
<1>1. Head(juce) = juce[1] /\ 1 \in DOMAIN juce
  BY HeadIs
<1>2. juce' = Tail(juce) => RowsWhole(juce')
  <2>1. Moved(juce, 1, << >>, Tail(juce))
    BY DroppedMoves DEF Formed
  <2>2. RowsWhole(Tail(juce))
    BY <2>1, RowsNone, RowsMoved DEF Grouped
  <2> QED  BY Zenon, <2>2
<1>3. ASSUME SetEntries PROVE RowsWhole(juce')
  <2>1. PICK r : Moved(juce, 1, r, juce') /\ \A i \in DOMAIN r : r[i] = Event("update", "jlocals")
    BY <1>3, SetEntriesIs
  <2>2. RowsWhole(r)
    BY <2>1 DEF RowsWhole, Event
  <2> QED  BY <2>1, <2>2, RowsMoved DEF Grouped
<1> QED  BY <1>1, <1>2, <1>3

\* The events of the other thread.
LEMMA JuceBlocks ==
  ASSUME InspectInv, BlockInv, juce # << >>, JuceReload \/ JuceSet \/ JuceClear \/ handleAsyncUpdate
  PROVE  BlockInv'
<1>0. Formed /\ Placed /\ Grouped /\ "jlocals" \in Views
  BY DEF InspectInv, BlockInv, Views
<1>1. UNCHANGED <<prog, listening, level, watches, stack>>
  BY DEF JuceReload, JuceSet, JuceClear, handleAsyncUpdate, daemon, user, aside
<1>2. Placed'
  BY <1>0, <1>1, PlacedStays
<1>3. CASE JuceReload
  <2> DEFINE e == [do |-> "jreload", view |-> "jlocals", expanded |-> views["jlocals"].expanded]
  <2>1. juce' = Tail(juce) /\ wx' = Append(wx, e) /\ UNCHANGED views
    BY <1>3 DEF JuceReload
  <2>2. e.do = "jreload"
    OBVIOUS
  <2> HIDE DEF e
  <2>3. RowsWhole(wx')
    <3>1. IsSeq(wx) /\ RowsWhole(wx)
      BY <1>0 DEF Formed, Grouped
    <3>2. RowsWhole(Append(wx, e))
      BY <2>2, <3>1, RowsAppended
    <3> QED  BY Zenon, <2>1, <3>2
  <2>4. RowsWhole(juce')
    BY <1>0, <2>1, JuceTail
  <2>5. Grouped'
    BY <1>0, <2>1, <2>3, <2>4, UnderKept
  <2> QED  BY <1>2, <2>5 DEF BlockInv
<1>4. CASE JuceSet
  <2>1. juce[1].do = "list" /\ SetVariables("jlocals", juce[1]) /\ SetEntries /\ wx' = wx
    BY <1>0, <1>4, JuceTail DEF JuceSet
  <2>2. RowsWhole(juce') /\ 1 \in DOMAIN juce
    BY <1>0, <2>1, JuceTail
  <2>3. Whole(juce[1].rows) /\ RowsWhole(wx')
    BY <1>0, <2>1, <2>2 DEF Grouped, RowsWhole
  <2>4. Grouped'
    BY <1>0, <2>1, <2>2, <2>3, SetUnder
  <2> QED  BY <1>2, <2>4 DEF BlockInv
<1>5. CASE JuceClear
  <2>1. ClearVariables("jlocals") /\ SetEntries /\ wx' = wx
    BY <1>5 DEF JuceClear
  <2>2. RowsWhole(juce') /\ RowsWhole(wx')
    BY <1>0, <2>1, JuceTail DEF Grouped
  <2>3. Grouped'
    BY <1>0, <2>1, <2>2, ClearUnder
  <2> QED  BY <1>2, <2>3 DEF BlockInv
<1>6. CASE handleAsyncUpdate
  <2>1. juce' = Tail(juce) /\ wx' = wx /\ UNCHANGED views
    BY <1>6 DEF handleAsyncUpdate
  <2>2. RowsWhole(juce') /\ RowsWhole(wx')
    BY <1>0, <2>1, JuceTail DEF Grouped
  <2>3. Grouped'
    BY <1>0, <2>1, <2>2, UnderKept
  <2> QED  BY <1>2, <2>3 DEF BlockInv
<1> QED  BY <1>3, <1>4, <1>5, <1>6

\* The initial state.
LEMMA BlocksStart == InspectInit => BlockInv
<1> SUFFICES ASSUME InspectInit PROVE BlockInv
  OBVIOUS
<1>1. Placed
  <2>1. IsFiniteSet({})
    BY FS_EmptySet
  <2>2. stack.levels = << >> /\ stack.rows = << >> /\ prog = Ended /\ watches = {} /\ ~listening
    BY DEF InspectInit
  <2> QED  BY <2>1, <2>2, NonePosted DEF Placed
<1>2. Grouped
  <2>1. wx = << >> /\ juce = << >> /\ \A v \in Views : views[v].rows = << >>
    BY DEF InspectInit, EmptyView
  <2> QED  BY <2>1, RowsNone, NonePosted DEF Grouped
<1> QED  BY <1>1, <1>2 DEF BlockInv

\* Every step.
LEMMA BlocksStep ==
  ASSUME InspectInv, BlockInv, [InspectNext]_inspectVars
  PROVE  BlockInv'
<1>1. CASE UNCHANGED inspectVars
  <2>1. UNCHANGED <<prog, listening, level, watches, stack, wx, juce, views>>
    BY <1>1 DEF inspectVars, daemon, user, aside
  <2> QED  BY <2>1, PlacedStays, StillBlocks DEF BlockInv
<1>2. CASE Start \/ (\E p \in Programs : Pause(p)) \/ ResumeExecution \/ SessionEnds
           \/ LostConnection \/ ResetProject \/ (\E p \in Programs : DaemonDies(p))
  BY <1>2, AsideBlocks, PauseBlocks, AwayBlocks
<1>3. CASE Handle
  <2>1. ASSUME wx # << >>, \/ OnLuaSuspended \/ RequestVarReload \/ OnWxThread \/ ReloadStack \/ DispatchReply
                           \/ OnPostedCollectedMessage \/ OnClear \/ SetSolvedVariable
                           \/ OnShowMemory \/ PassShowMemory \/ OnRedraw
        PROVE  BlockInv'
    BY <2>1, SuspendedBlocks, RequestBlocks, StackBlocks, DispatchBlocks, PostedBlocks, ClearBlocks, OtherBlocks
  <2> QED  BY <1>3, <2>1, JuceBlocks DEF Handle
<1>4. CASE Use
  <2>1. ASSUME NEW v, OnGridEvent(v) PROVE BlockInv'
    BY <2>1, ViewBlocks, EventBlocks, AsideBlocks, DeleteBlocks DEF OnGridEvent
  <2> QED  BY <1>4, <2>1, PaneBlocks, ViewBlocks, EventBlocks, AsideBlocks, WatchBlocks, HoverBlocks DEF Use
<1>5. CASE CancelToolTip \/ paintCell \/ (\E word \in Words \cup {Named("")} : EndEdit(word))
           \/ (\E i \in DOMAIN stack.rows : OnItemActivated(i))
  BY <1>5, AsideBlocks, WatchBlocks, LevelBlocks
<1> QED  BY <1>1, <1>2, <1>3, <1>4, <1>5 DEF InspectNext

\* In every view the rows of a table stay under it, whatever is expanded, deep as the
\* tables are, and whatever values decide the sorting of the rows: what the daemon sends
\* are blocks (DumpLuaTableRecursive() of VarCollectors.cpp), and the auto LUT moves
\* whole blocks (VarViewCtrl::SetVariables() and VarViewComponent's).
THEOREM BlocksStayWholeAlways == InspectSpec => []BlocksStayWhole
<1>1. InspectInit => InspectInv /\ BlockInv
  BY InspectStarts, BlocksStart
<1>2. InspectInv /\ BlockInv /\ [InspectNext]_inspectVars => InspectInv' /\ BlockInv'
  BY InspectStep, BlocksStep
<1>3. BlockInv => BlocksStayWhole
  BY DEF BlockInv, Grouped, Under, Parent, BlocksStayWhole
<1> QED  BY <1>1, <1>2, <1>3, PTL DEF InspectSpec
-----------------------------------------------------------------------------
(* The dump of a text or block of memory (MemoryViewCtrl.cpp).               *)

\* Division with remainder.
LEMMA Divided ==
  ASSUME NEW n \in Nat, NEW p \in Nat, p > 0
  PROVE  n \div p \in Nat /\ n % p \in 0..(p - 1) /\ n = p * (n \div p) + (n % p)
OBVIOUS

\* A later line begins behind the earlier one.
LEMMA LinesApart ==
  ASSUME NEW a \in Nat, NEW b \in Nat, NEW l \in Nat, a < b
  PROVE  a * l \in Nat /\ b * l \in Nat /\ a * l + l <= b * l
<1>1. PICK d \in Nat : b = a + 1 + d
  <2>1. b - a - 1 \in Nat /\ b = a + 1 + (b - a - 1)
    OBVIOUS
  <2> QED  BY <2>1
<1>2. b * l = a * l + l + d * l
  BY <1>1
<1>3. a * l \in Nat /\ d * l \in Nat /\ b * l \in Nat
  BY <1>1
<1> QED  BY <1>2, <1>3

\* The position of a byte's digits, and of a later byte's: there is a blank between them.
LEMMA DigitsApart ==
  ASSUME NEW per \in Nat, per > 0, NEW from \in Nat, NEW length \in Nat, length >= 3 * per,
         NEW i \in Nat, NEW j \in Nat, i < j
  PROVE  /\ (i \div per) * length + from + 3 * (i % per) \in Nat
         /\ (j \div per) * length + from + 3 * (j % per) \in Nat
         /\ (i \div per) * length + from + 3 * (i % per) + 3 <= (j \div per) * length + from + 3 * (j % per)
<1> DEFINE qi == i \div per
<1> DEFINE qj == j \div per
<1> DEFINE ri == i % per
<1> DEFINE rj == j % per
<1>1. qi \in Nat /\ ri \in 0..(per - 1) /\ i = per * qi + ri
  BY Divided
<1>2. qj \in Nat /\ rj \in 0..(per - 1) /\ j = per * qj + rj
  BY Divided
<1> HIDE DEF qi, qj, ri, rj
<1>3. qi * length \in Nat /\ qj * length \in Nat /\ per * qi \in Nat /\ per * qj \in Nat
  BY <1>1, <1>2
<1>4. qi * length + from + 3 * ri + 3 <= qj * length + from + 3 * rj
  <2>1. CASE qi = qj
    <3>1. ri < rj
      BY <1>1, <1>2, <1>3, <2>1
    <3>2. \A x \in Nat : x + from + 3 * ri + 3 <= x + from + 3 * rj
      BY <1>1, <1>2, <3>1
    <3> QED  BY <1>3, <2>1, <3>2
  <2>2. CASE qi < qj
    <3>1. qi * length + length <= qj * length
      BY <1>1, <1>2, <2>2, LinesApart
    <3> DEFINE x == qi * length
    <3> DEFINE y == qj * length
    <3>2. x \in Nat /\ y \in Nat /\ x + length <= y
      BY <1>3, <3>1
    <3> HIDE DEF x, y
    <3>3. x + from + 3 * ri + 3 <= y + from + 3 * rj
      BY <1>1, <1>2, <3>2
    <3> QED  BY <3>3 DEF x, y
  <2>3. CASE qj < qi
    <3>1. qj * per + per <= qi * per /\ qj * per \in Nat /\ qi * per \in Nat
      BY <1>1, <1>2, <2>3, LinesApart
    <3>2. per * qi = qi * per /\ per * qj = qj * per
      BY <1>1, <1>2
    <3> DEFINE x == per * qi
    <3> DEFINE y == per * qj
    <3>3. x \in Nat /\ y \in Nat /\ y + per <= x /\ i = x + ri /\ j = y + rj
      BY <1>1, <1>2, <3>1, <3>2
    <3> HIDE DEF x, y
    <3> QED  BY <1>1, <1>2, <3>3
  <2> QED  BY <1>1, <1>2, <2>1, <2>2, <2>3
<1>5. /\ qi * length + from + 3 * ri \in Nat
      /\ qj * length + from + 3 * rj \in Nat
  <2>1. \A x \in Nat : x + from + 3 * ri \in Nat /\ x + from + 3 * rj \in Nat
    BY <1>1, <1>2
  <2> QED  BY <1>3, <2>1
<1> QED  BY <1>4, <1>5 DEF qi, qj, ri, rj

\* Pairs of positions that do not meet: two for each.
LEMMA PairsCounted ==
  ASSUME NEW Z, IsFiniteSet(Z), NEW at \in [Z -> Nat],
         \A a, b \in Z : a # b => at[a] # at[b] /\ at[a] + 1 # at[b]
  PROVE  Cardinality(UNION {{at[i], at[i] + 1} : i \in Z}) = 2 * Cardinality(Z)
<1> DEFINE A == {at[i] : i \in Z}
<1> DEFINE B == {at[i] + 1 : i \in Z}
<1> DEFINE f == [i \in Z |-> at[i]]
<1> DEFINE g == [i \in Z |-> at[i] + 1]
<1>1. f \in Bijection(Z, A)
  BY DEF Bijection, Injection, Surjection, IsInjective
<1>2. g \in Bijection(Z, B)
  <2>1. \A a, b \in Z : at[a] + 1 = at[b] + 1 => a = b
    OBVIOUS
  <2> QED  BY <2>1 DEF Bijection, Injection, Surjection, IsInjective
<1>3. IsFiniteSet(A) /\ Cardinality(A) = Cardinality(Z)
  <2>1. ExistsBijection(Z, A)
    BY <1>1 DEF ExistsBijection
  <2> HIDE DEF A
  <2> QED  BY <2>1, FS_Bijection
<1>4. IsFiniteSet(B) /\ Cardinality(B) = Cardinality(Z)
  <2>1. ExistsBijection(Z, B)
    BY <1>2 DEF ExistsBijection
  <2> HIDE DEF B
  <2> QED  BY <2>1, FS_Bijection
<1>5. A \cap B = {}
  <2> SUFFICES ASSUME NEW a \in Z, NEW b \in Z, at[a] = at[b] + 1 PROVE FALSE
    OBVIOUS
  <2>1. CASE a = b
    BY <2>1
  <2>2. CASE a # b
    BY <2>2
  <2> QED  BY <2>1, <2>2
<1>6. UNION {{at[i], at[i] + 1} : i \in Z} = A \cup B
  OBVIOUS
<1> HIDE DEF A, B
<1>7. Cardinality(A \cup B) = Cardinality(A) + Cardinality(B) - Cardinality(A \cap B)
  BY <1>3, <1>4, FS_Union
<1>8. Cardinality(A \cap B) = 0
  BY <1>5, FS_EmptySet
<1>9. Cardinality(Z) \in Nat
  BY FS_CardinalityType
<1>10. Cardinality(A \cup B) = Cardinality(Z) + Cardinality(Z) - 0
  BY <1>3, <1>4, <1>7, <1>8
<1>11. Cardinality(Z) + Cardinality(Z) - 0 = 2 * Cardinality(Z)
  BY <1>9
<1> QED  BY <1>6, <1>10, <1>11, Zenon

\* The length of a line and of its address.
LEMMA LineIs ==
  ASSUME NEW n \in Nat, NEW width \in Nat
  PROVE  Address(n) \in Nat /\ BytesPerLine(n, width) \in Nat
<1> DEFINE K == {k \in 1..7 : 16 ^ k <= n + 1}
<1>1. Cardinality(K) \in Nat
  <2>1. IsFiniteSet(1..7)
    <3>1. 1 \in Int /\ 7 \in Int
      OBVIOUS
    <3> QED  BY <3>1, FS_Interval, Zenon
  <2>2. K \in SUBSET (1..7)
    OBVIOUS
  <2> HIDE DEF K
  <2>3. IsFiniteSet(K)
    BY <2>1, <2>2, FS_Subset
  <2> QED  BY <2>3, FS_CardinalityType
<1>2. Address(n) \in Nat
  <2>1. Nybbles(n) = 1 + Cardinality(K)
    BY DEF Nybbles
  <2> HIDE DEF K
  <2> QED  BY <1>1, <2>1 DEF Address
<1>3. BytesPerLine(n, width) \in Nat
  <2> DEFINE chars == width - Address(n) - Spacing
  <2>1. chars \in Int
    BY <1>2 DEF Spacing
  <2>2. BytesPerLine(n, width) = IF chars <= 0 THEN 0 ELSE ((chars \div 4) \div 8) * 8
    BY DEF BytesPerLine
  <2> HIDE DEF chars
  <2> QED  BY <2>1, <2>2
<1> QED  BY <1>2, <1>3

\* How many lines the bytes need, and what is in the last.
LEMMA LastLine ==
  ASSUME NEW n \in Nat, NEW per \in Nat, per > 0,
         NEW lines, lines = (n + per - 1) \div per
  PROVE  /\ lines \in Nat /\ (lines = 0 <=> n = 0)
         /\ n # 0 /\ n % per # 0 => n - (lines - 1) * per = n % per
<1>1. n \div per \in Nat /\ n % per \in 0..(per - 1) /\ n = per * (n \div per) + (n % per)
  BY Divided
<1>2. n + per - 1 \in Nat
  OBVIOUS
<1>3. /\ lines \in Nat /\ (n + per - 1) % per \in 0..(per - 1)
      /\ n + per - 1 = per * lines + ((n + per - 1) % per)
  BY <1>2, Divided
<1> DEFINE q == n \div per
<1> DEFINE r == n % per
<1> DEFINE s == (n + per - 1) % per
<1>4. /\ q \in Nat /\ r \in 0..(per - 1) /\ n = per * q + r
      /\ s \in 0..(per - 1) /\ n + per - 1 = per * lines + s
  BY <1>1, <1>3
<1> HIDE DEF q, r, s
<1>5. lines = 0 <=> n = 0
  <2>1. CASE lines = 0
    BY <1>4, <2>1
  <2>2. CASE lines # 0
    <3>1. PICK k \in Nat : lines = k + 1
      BY <1>3, <2>2
    <3>2. per * lines = per * k + per /\ per * k \in Nat
      BY <3>1
    <3> QED  BY <1>4, <2>2, <3>2
  <2> QED  BY <2>1, <2>2
<1>6. ASSUME n # 0, r # 0 PROVE n - (lines - 1) * per = r
  <2>1. q + 1 = lines
    <3>1. CASE q + 1 < lines
      <4>1. (q + 1) * per + per <= lines * per
        BY <1>3, <1>4, <3>1, LinesApart
      <4>2. (q + 1) * per = per * q + per /\ lines * per = per * lines /\ per * q \in Nat /\ per * lines \in Nat
        BY <1>3, <1>4
      <4> QED  BY <1>4, <4>1, <4>2
    <3>2. CASE lines < q + 1
      <4>1. lines * per + per <= (q + 1) * per
        BY <1>3, <1>4, <3>2, LinesApart
      <4>2. (q + 1) * per = per * q + per /\ lines * per = per * lines /\ per * q \in Nat /\ per * lines \in Nat
        BY <1>3, <1>4
      <4> QED  BY <1>4, <1>6, <4>1, <4>2
    <3> QED  BY <1>3, <1>4, <3>1, <3>2
  <2>2. lines - 1 = q /\ q * per = per * q /\ per * q \in Nat
    BY <1>3, <1>4, <2>1
  <2> QED  BY <1>4, <2>2
<1> QED  BY <1>3, <1>5, <1>6 DEF r

\* A hex dump is one of the bytes it is given.
LEMMA HexDumpIs ==
  ASSUME NEW bytes, IsSeq(bytes), NEW width \in Nat, NEW selected \in Nat,
         NEW dump, dump = RefreshHexDump(bytes, width, selected)
  PROVE  HexIsOf(dump, bytes, width, selected)
<1> DEFINE n        == Len(bytes)
<1> DEFINE per      == BytesPerLine(n, width)
<1> DEFINE lines    == IF per = 0 THEN 0 ELSE (n + per - 1) \div per
<1> DEFINE length   == Address(n) + 3 * per + Spacing + per + 1
<1> DEFINE Count(l) == IF l = lines - 1 THEN n - l * per ELSE per
<1> DEFINE Chars(l) == Address(n) + 3 * (Count(l) + (IF l = lines - 1 THEN Pad(n, per) ELSE 0)) + Spacing
<1> DEFINE at(i)    == (i \div per) * length + Address(n) + 3 * (i % per)
<1> DEFINE Drawn    == IF per = 0 THEN {} ELSE 0..(n - 1)
<1>1. /\ dump.chars = [l \in 0..(lines - 1) |-> Chars(l)] /\ dump.grey = << >>
      /\ dump.red = UNION {{at(i), at(i) + 1} : i \in {j \in Drawn : bytes[j + 1] = "zero"}}
      /\ dump.yellow = UNION {{at(i), at(i) + 1} : i \in Drawn \cap {selected}}
  BY DEF RefreshHexDump
<1>2. n \in Nat /\ DOMAIN bytes = 1..n
  BY SeqHas
<1>3. per \in Nat /\ Address(n) \in Nat /\ length \in Nat /\ length >= 3 * per
  <2>1. per \in Nat /\ Address(n) \in Nat
    BY <1>2, LineIs
  <2> HIDE DEF n, per
  <2> QED  BY <2>1 DEF Spacing
<1>4. lines \in Nat /\ (lines = 0 <=> n = 0 \/ per = 0)
  <2> HIDE DEF n, per
  <2>1. CASE per = 0
    BY <2>1
  <2>2. CASE per # 0
    <3>1. per > 0 /\ lines = (n + per - 1) \div per
      BY <1>3, <2>2
    <3>2. PICK x : x = (n + per - 1) \div per
      OBVIOUS
    <3>3. x \in Nat /\ (x = 0 <=> n = 0)
      <4>1. n \in Nat /\ per \in Nat /\ per > 0
        BY <1>2, <1>3, <3>1
      <4> HIDE DEF lines
      <4>2. \A m \in Nat : \A p \in Nat : p > 0 => \A y : y = (m + p - 1) \div p => y \in Nat /\ (y = 0 <=> m = 0)
        BY LastLine
      <4> QED  BY <3>2, <4>1, <4>2
    <3>4. lines = x
      BY <3>1, <3>2
    <3> HIDE DEF lines
    <3> QED  BY <2>2, <3>3, <3>4
  <2> QED  BY <2>1, <2>2
<1>5. DOMAIN dump.chars = 0..(lines - 1)
  BY <1>1
<1>6. DOMAIN dump.chars = {} <=> n = 0 \/ per = 0
  <2> HIDE DEF n, per, lines
  <2> QED  BY <1>4, <1>5
<1>7. ASSUME NEW l \in 0..(lines - 1), ~(l + 1 \notin 0..(lines - 1) /\ n % per = 0)
      PROVE  dump.chars[l] = dump.chars[0]
  <2>1. n # 0 /\ per > 0 /\ lines > 0 /\ lines = (n + per - 1) \div per
    BY <1>3, <1>4
  <2>2. n % per \in 0..(per - 1)
    <3> HIDE DEF n, per
    <3> QED  BY <1>2, <1>3, <2>1, Divided
  <2> DEFINE whole == Address(n) + 3 * per + Spacing
  <2>3. ASSUME NEW k \in 0..(lines - 1), k # lines - 1 \/ n % per # 0
        PROVE  Chars(k) = whole
    <3>1. CASE k # lines - 1
      <4>1. Count(k) = per
        BY <3>1
      <4>2. Chars(k) = Address(n) + 3 * (per + 0) + Spacing
        BY <3>1
      <4> HIDE DEF n, per
      <4> QED  BY <1>3, <4>2
    <3>2. CASE k = lines - 1 /\ n % per # 0
      <4> DEFINE r == n % per
      <4>1. n - (lines - 1) * per = r
        <5> HIDE DEF n, per, lines
        <5> QED  BY <1>2, <1>3, <2>1, <3>2, LastLine
      <4>2. Chars(k) = Address(n) + 3 * (r + (per - r)) + Spacing
        <5>1. Chars(k) = Address(n) + 3 * ((n - k * per) + (per - r)) + Spacing
          BY <3>2 DEF Pad
        <5> HIDE DEF n, per, lines, r
        <5> QED  BY <3>2, <4>1, <5>1
      <4>3. r \in Int
        BY <2>2
      <4> HIDE DEF n, per, r
      <4>4. r + (per - r) = per
        BY <1>3, <4>3
      <4> QED  BY <4>2, <4>4
    <3> QED  BY <2>3, <3>1, <3>2
  <2>4. dump.chars[l] = Chars(l) /\ dump.chars[0] = Chars(0) /\ 0 \in 0..(lines - 1)
    <3>1. 0 \in 0..(lines - 1)
      <4> HIDE DEF lines
      <4> QED  BY <1>4, <2>1
    <3> HIDE DEF lines, Chars
    <3> QED  BY <1>1, <3>1
  <2>5. l # lines - 1 \/ n % per # 0
    <3> HIDE DEF n, per, lines
    <3> QED  BY <1>4, <1>7
  <2>6. 0 # lines - 1 \/ n % per # 0
    <3> HIDE DEF n, per, lines
    <3> QED  BY <1>4, <2>5
  <2>7. Chars(l) = whole /\ Chars(0) = whole
    <3> HIDE DEF Chars, whole, lines, n, per
    <3> QED  BY <2>3, <2>4, <2>5, <2>6
  <2> QED  BY <2>4, <2>7
<1>8. ASSUME DOMAIN dump.chars # {}
      PROVE  /\ Cardinality(dump.red) = 2 * Cardinality({i \in DOMAIN bytes : bytes[i] = "zero"})
             /\ Cardinality(dump.yellow) = (IF selected < n THEN 2 ELSE 0)
  <2>1. n # 0 /\ per # 0 /\ per > 0 /\ Drawn = 0..(n - 1)
    BY <1>3, <1>6, <1>8
  <2>2. ASSUME NEW i \in Nat, NEW j \in Nat, i < j
        PROVE  at(i) \in Nat /\ at(j) \in Nat /\ at(i) + 3 <= at(j)
    <3> DEFINE from == Address(n)
    <3>1. from \in Nat
      BY <1>3
    <3> HIDE DEF n, per, length, from
    <3>2. /\ (i \div per) * length + from + 3 * (i % per) \in Nat
          /\ (j \div per) * length + from + 3 * (j % per) \in Nat
          /\ (i \div per) * length + from + 3 * (i % per) + 3 <= (j \div per) * length + from + 3 * (j % per)
      BY <1>3, <2>1, <2>2, <3>1, DigitsApart
    <3> QED  BY <3>2 DEF from
  <2> HIDE DEF at
  <2>3. ASSUME NEW i \in Nat PROVE at(i) \in Nat
    <3>1. i + 1 \in Nat /\ i < i + 1
      OBVIOUS
    <3> QED  BY <2>2, <3>1
  <2>4. ASSUME NEW i \in Nat, NEW j \in Nat, i # j
        PROVE  at(i) # at(j) /\ at(i) + 1 # at(j)
    <3>0. at(i) \in Nat /\ at(j) \in Nat
      BY <2>3
    <3>1. CASE i < j
      <4>1. at(i) + 3 <= at(j)
        BY <2>2, <3>1
      <4> QED  BY <3>0, <4>1
    <3>2. CASE j < i
      <4>1. at(j) + 3 <= at(i)
        BY <2>2, <3>2
      <4> QED  BY <3>0, <4>1
    <3> QED  BY <2>4, <3>1, <3>2
  <2>5. Cardinality(dump.red) = 2 * Cardinality({i \in DOMAIN bytes : bytes[i] = "zero"})
    <3> DEFINE Z == {i \in 1..n : bytes[i] = "zero"}
    <3> DEFINE p == [i \in Z |-> at(i - 1)]
    <3>1. IsFiniteSet(Z)
      <4>1. IsFiniteSet(1..n)
        BY <1>2, FS_Interval
      <4>2. Z \in SUBSET (1..n)
        OBVIOUS
      <4> HIDE DEF Z
      <4> QED  BY <4>1, <4>2, FS_Subset
    <3>2. \A i \in Z : i - 1 \in Nat
      BY <1>2
    <3>3. p \in [Z -> Nat]
      <4> HIDE DEF Z
      <4> QED  BY <2>3, <3>2
    <3>4. ASSUME NEW a \in Z, NEW b \in Z, a # b
          PROVE  p[a] # p[b] /\ p[a] + 1 # p[b]
      <4>1. a - 1 \in Nat /\ b - 1 \in Nat /\ a - 1 # b - 1
        BY <1>2, <3>4
      <4> HIDE DEF Z
      <4> QED  BY <2>4, <4>1
    <3>5. dump.red = UNION {{p[i], p[i] + 1} : i \in Z}
      <4>1. {j \in Drawn : bytes[j + 1] = "zero"} = {i - 1 : i \in Z}
        <5> HIDE DEF n, Drawn
        <5>1. \A j \in 0..(n - 1) : j + 1 \in 1..n /\ (j + 1) - 1 = j
          BY <1>2
        <5>2. \A i \in 1..n : i - 1 \in 0..(n - 1) /\ (i - 1) + 1 = i
          BY <1>2
        <5>3. ASSUME NEW j \in 0..(n - 1), bytes[j + 1] = "zero" PROVE j \in {i - 1 : i \in Z}
          BY <5>1, <5>3
        <5>4. ASSUME NEW i \in Z PROVE i - 1 \in 0..(n - 1) /\ bytes[(i - 1) + 1] = "zero"
          BY <5>2
        <5> QED  BY <2>1, <5>3, <5>4
      <4> HIDE DEF Z, Drawn
      <4>2. dump.red = UNION {{at(j), at(j) + 1} : j \in {i - 1 : i \in Z}}
        BY <1>1, <4>1
      <4> QED  BY <4>2
    <3>6. {i \in DOMAIN bytes : bytes[i] = "zero"} = Z
      BY <1>2
    <3> HIDE DEF Z, p
    <3>7. Cardinality(UNION {{p[i], p[i] + 1} : i \in Z}) = 2 * Cardinality(Z)
      BY <3>1, <3>3, <3>4, PairsCounted
    <3> QED  BY <3>5, <3>6, <3>7
  <2>6. Cardinality(dump.yellow) = (IF selected < n THEN 2 ELSE 0)
    <3> HIDE DEF n
    <3>1. CASE selected < n
      <4>1. Drawn \cap {selected} = {selected}
        <5> HIDE DEF Drawn
        <5> QED  BY <1>2, <2>1, <3>1
      <4> HIDE DEF Drawn
      <4>2. dump.yellow = {at(selected), at(selected) + 1}
        BY <1>1, <4>1
      <4>3. at(selected) \in Nat
        BY <2>3
      <4> DEFINE a == at(selected)
      <4> HIDE DEF a
      <4>4. IsFiniteSet({a}) /\ Cardinality({a}) = 1 /\ a \in Nat
        BY <4>3, FS_Singleton DEF a
      <4>5. Cardinality({a} \cup {a + 1}) = 2
        <5>1. a + 1 \notin {a}
          BY <4>4
        <5>2. Cardinality({a} \cup {a + 1}) = Cardinality({a}) + 1
          BY <4>4, <5>1, FS_AddElement
        <5> QED  BY <4>4, <5>2
      <4>6. dump.yellow = {a} \cup {a + 1}
        BY <4>2 DEF a
      <4> QED  BY <3>1, <4>5, <4>6
    <3>2. CASE ~(selected < n)
      <4>1. Drawn \cap {selected} = {}
        <5> HIDE DEF Drawn
        <5> QED  BY <1>2, <2>1, <3>2
      <4> HIDE DEF Drawn
      <4>2. dump.yellow = {}
        BY <1>1, <4>1
      <4> QED  BY <3>2, <4>2, FS_EmptySet
    <3> QED  BY <3>1, <3>2
  <2> QED  BY <2>5, <2>6
<1> HIDE DEF n, per, lines, length, Count, Chars, at, Drawn
<1>9. \A l \in DOMAIN dump.chars :
        (l + 1 \notin DOMAIN dump.chars /\ n % per = 0) \/ dump.chars[l] = dump.chars[0]
  BY <1>5, <1>7
<1>10. dump.grey = << >> /\ (DOMAIN dump.chars = {} <=> n = 0 \/ per = 0)
  BY <1>1, <1>6
<1> QED  BY <1>8, <1>9, <1>10 DEF HexIsOf, n, per
\* A byte shown as a dot.
Dotted(c) == c \notin {"print", "blank", "newline"}

\* The spans of the first k bytes: in order, not adjacent, and of those shown as dots.
SpansTo(bytes, k, s) ==
  /\ s \in Seq(Nat \X Nat)
  /\ \A i \in DOMAIN s : s[i][1] < s[i][2] /\ s[i][2] <= k /\ (i > 1 => s[i - 1][2] < s[i][1])
  /\ \A p \in Nat : (\E i \in DOMAIN s : s[i][1] <= p /\ p < s[i][2]) <=> (p < k /\ Dotted(bytes[p + 1]))

\* A dot more joins the last span, or begins one that is not adjacent to it.
LEMMA SpansMarked ==
  ASSUME NEW bytes, NEW k \in Nat, NEW s, SpansTo(bytes, k, s), Dotted(bytes[k + 1]),
         NEW t, t = Spans(s, k)
  PROVE  SpansTo(bytes, k + 1, t)
<1> DEFINE n == Len(s)
<1>1. /\ s \in Seq(Nat \X Nat) /\ n \in Nat /\ DOMAIN s = 1..n /\ (s = << >> <=> n = 0)
      /\ \A i \in 1..n : s[i][1] \in Nat /\ s[i][2] \in Nat
  <2>1. s \in Seq(Nat \X Nat)
    BY DEF SpansTo
  <2>2. n \in Nat /\ DOMAIN s = 1..n /\ (s = << >> <=> n = 0)
    BY <2>1, LenProperties, EmptySeq
  <2>3. \A i \in 1..n : s[i] \in Nat \X Nat
    BY <2>1, ElementOfSeq
  <2> QED  BY <2>1, <2>2, <2>3
<1> HIDE DEF n
<1>2. \A i \in 1..n : s[i][1] < s[i][2] /\ s[i][2] <= k /\ (i > 1 => s[i - 1][2] < s[i][1])
  BY <1>1 DEF SpansTo
<1>3. \A p \in Nat : (\E i \in 1..n : s[i][1] <= p /\ p < s[i][2]) <=> (p < k /\ Dotted(bytes[p + 1]))
  BY <1>1 DEF SpansTo
<1>4. CASE s # << >> /\ Last(s)[2] = k
  <2>1. n > 0 /\ n \in 1..n /\ Last(s) = s[n] /\ s[n][2] = k
    BY <1>1, <1>4 DEF Last, n
  <2> DEFINE e == << s[n][1], k + 1 >>
  <2>2. t = [s EXCEPT ![n] = e]
    BY <1>4 DEF Spans, n
  <2>3. e \in Nat \X Nat /\ e[1] = s[n][1] /\ e[2] = k + 1
    BY <1>1, <2>1
  <2> HIDE DEF e
  <2>4. t \in Seq(Nat \X Nat)
    BY <1>1, <2>1, <2>2, <2>3, ExceptSeq DEF n
  <2>5. DOMAIN t = 1..n /\ t[n] = e /\ \A i \in 1..n : i # n => t[i] = s[i]
    BY <1>1, <2>1, <2>2
  <2>6. /\ \A i \in 1..n : t[i][1] = s[i][1] /\ (i # n => t[i][2] = s[i][2])
        /\ t[n][2] = k + 1
    BY <2>3, <2>5
  <2>7. ASSUME NEW i \in 1..n
        PROVE  t[i][1] < t[i][2] /\ t[i][2] <= k + 1 /\ (i > 1 => t[i - 1][2] < t[i][1])
    <3>1. i > 1 => i - 1 \in 1..n /\ i - 1 # n
      BY <1>1
    <3>2. CASE i = n
      BY <1>1, <1>2, <2>1, <2>6, <3>1, <3>2
    <3>3. CASE i # n
      <4>1. t[i][1] = s[i][1] /\ t[i][2] = s[i][2] /\ (i > 1 => t[i - 1][2] = s[i - 1][2])
        BY <2>6, <3>1, <3>3
      <4>2. s[i][2] \in Nat /\ s[i][2] <= k /\ s[i][2] <= k + 1
        BY <1>1, <1>2
      <4> QED  BY <1>2, <4>1, <4>2
    <3> QED  BY <3>2, <3>3
  <2>8. ASSUME NEW p \in Nat
        PROVE  (\E i \in 1..n : t[i][1] <= p /\ p < t[i][2]) <=> (p < k + 1 /\ Dotted(bytes[p + 1]))
    <3>1. CASE p < k
      <4>1. \A i \in 1..n : (t[i][1] <= p /\ p < t[i][2]) <=> (s[i][1] <= p /\ p < s[i][2])
        <5> SUFFICES ASSUME NEW i \in 1..n
                     PROVE  (t[i][1] <= p /\ p < t[i][2]) <=> (s[i][1] <= p /\ p < s[i][2])
          OBVIOUS
        <5>1. CASE i = n
          BY <2>1, <2>6, <3>1, <5>1
        <5>2. CASE i # n
          BY <2>6, <5>2
        <5> QED  BY <5>1, <5>2
      <4> QED  BY <1>3, <3>1, <4>1
    <3>2. CASE p = k
      <4>1. t[n][1] <= p /\ p < t[n][2]
        BY <1>1, <1>2, <2>1, <2>6, <3>2
      <4> QED  BY <2>1, <3>2, <4>1
    <3>3. CASE p > k
      <4>1. ASSUME NEW i \in 1..n PROVE ~(p < t[i][2])
        <5>1. CASE i = n
          BY <2>6, <3>3, <5>1
        <5>2. CASE i # n
          <6>1. t[i][2] = s[i][2] /\ s[i][2] \in Nat /\ s[i][2] <= k
            BY <1>1, <1>2, <2>6, <5>2
          <6> QED  BY <3>3, <6>1
        <5> QED  BY <5>1, <5>2
      <4> QED  BY <3>3, <4>1
    <3> QED  BY <3>1, <3>2, <3>3
  <2> QED  BY <2>4, <2>5, <2>7, <2>8 DEF SpansTo
<1>5. CASE ~(s # << >> /\ Last(s)[2] = k)
  <2> DEFINE e == << k, k + 1 >>
  <2>1. t = Append(s, e)
    BY <1>5 DEF Spans
  <2>2. e \in Nat \X Nat /\ e[1] = k /\ e[2] = k + 1
    OBVIOUS
  <2> HIDE DEF e
  <2>3. /\ t \in Seq(Nat \X Nat) /\ DOMAIN t = 1..(n + 1)
        /\ t[n + 1] = e /\ \A i \in 1..n : t[i] = s[i]
    <3>1. /\ t \in Seq(Nat \X Nat) /\ Len(t) = n + 1
          /\ \A i \in 1..n : t[i] = s[i]
          /\ t[n + 1] = e
      BY <1>1, <2>1, <2>2, AppendProperties DEF n
    <3> QED  BY <3>1, LenProperties
  <2>4. n > 0 => s[n][2] < k
    <3>1. ASSUME n > 0 PROVE s[n][2] < k
      <4>1. n \in 1..n /\ Last(s) = s[n] /\ s # << >>
        BY <1>1, <3>1 DEF Last, n
      <4> QED  BY <1>1, <1>2, <1>5, <4>1
    <3> QED  BY <3>1
  <2>5. ASSUME NEW i \in 1..(n + 1)
        PROVE  t[i][1] < t[i][2] /\ t[i][2] <= k + 1 /\ (i > 1 => t[i - 1][2] < t[i][1])
    <3>1. CASE i = n + 1
      <4>1. t[i][1] = k /\ t[i][2] = k + 1
        BY <2>2, <2>3, <3>1
      <4>2. i > 1 => i - 1 = n /\ n > 0 /\ n \in 1..n
        BY <1>1, <3>1
      <4>3. i > 1 => t[i - 1][2] = s[n][2] /\ s[n][2] < k
        BY <2>3, <2>4, <4>2
      <4> QED  BY <4>1, <4>3
    <3>2. CASE i # n + 1
      <4>1. i \in 1..n /\ (i > 1 => i - 1 \in 1..n)
        BY <1>1, <3>2
      <4>2. t[i] = s[i] /\ (i > 1 => t[i - 1] = s[i - 1])
        BY <2>3, <4>1
      <4>3. s[i][2] \in Nat /\ s[i][2] <= k /\ s[i][2] <= k + 1
        BY <1>1, <1>2, <4>1
      <4> QED  BY <1>2, <4>1, <4>2, <4>3
    <3> QED  BY <3>1, <3>2
  <2>6. ASSUME NEW p \in Nat
        PROVE  (\E i \in 1..(n + 1) : t[i][1] <= p /\ p < t[i][2]) <=> (p < k + 1 /\ Dotted(bytes[p + 1]))
    <3>0. /\ n + 1 \in 1..(n + 1) /\ \A i \in 1..(n + 1) : i \in 1..n \/ i = n + 1
          /\ \A i \in 1..n : i \in 1..(n + 1)
      BY <1>1
    <3>1. CASE p < k
      <4>1. ~(t[n + 1][1] <= p)
        BY <2>2, <2>3, <3>1
      <4>2. (\E i \in 1..(n + 1) : t[i][1] <= p /\ p < t[i][2])
              <=> (\E i \in 1..n : s[i][1] <= p /\ p < s[i][2])
        BY <2>3, <3>0, <4>1, Zenon
      <4>3. p < k + 1
        BY <3>1
      <4> QED  BY <1>3, <3>1, <4>2, <4>3
    <3>2. CASE p = k
      <4>1. t[n + 1][1] <= p /\ p < t[n + 1][2]
        BY <2>2, <2>3, <3>2
      <4> QED  BY <3>0, <3>2, <4>1
    <3>3. CASE p > k
      <4>1. ASSUME NEW i \in 1..(n + 1) PROVE ~(p < t[i][2])
        <5>1. CASE i \in 1..n
          BY <1>1, <1>2, <2>3, <3>3, <5>1
        <5>2. CASE i = n + 1
          BY <2>2, <2>3, <3>3, <5>2
        <5> QED  BY <3>0, <5>1, <5>2
      <4> QED  BY <3>3, <4>1
    <3> QED  BY <3>1, <3>2, <3>3
  <2> QED  BY <2>3, <2>5, <2>6 DEF SpansTo
<1> QED  BY <1>4, <1>5

\* The spans after each byte.
Marked(bytes, k, before) ==
  IF bytes[k] \in {"print", "blank", "newline"} THEN before ELSE Spans(before, k - 1)
Marking(bytes, n, f) == f = [k \in 0..n |-> IF k = 0 THEN << >> ELSE Marked(bytes, k, f[k - 1])]

\* There is such a function for every number of bytes.
LEMMA MarkingExists ==
  ASSUME NEW bytes
  PROVE  \A n \in Nat : \E f : Marking(bytes, n, f)
<1> DEFINE Q == {n \in Nat : \E f : Marking(bytes, n, f)}
<1>1. 0 \in Q
  <2> DEFINE f == [k \in 0..0 |-> << >>]
  <2>1. \A k \in 0..0 : k = 0
    OBVIOUS
  <2>2. f = [k \in 0..0 |-> IF k = 0 THEN << >> ELSE Marked(bytes, k, f[k - 1])]
    BY Zenon, <2>1
  <2>3. Marking(bytes, 0, f)
    BY Zenon, <2>2 DEF Marking
  <2> QED  BY <2>3
<1>2. ASSUME NEW n \in Nat, n \in Q PROVE n + 1 \in Q
  <2>1. PICK f : Marking(bytes, n, f)
    BY <1>2
  <2> DEFINE g == [k \in 0..(n + 1) |-> IF k \in 0..n THEN f[k] ELSE Marked(bytes, k, f[k - 1])]
  <2>2. ASSUME NEW k \in 0..(n + 1)
        PROVE  g[k] = IF k = 0 THEN << >> ELSE Marked(bytes, k, g[k - 1])
    <3>0. k # 0 => k - 1 \in 0..n /\ k - 1 \in 0..(n + 1)
      OBVIOUS
    <3>1. k # 0 => g[k - 1] = f[k - 1]
      BY Zenon, <3>0
    <3>2. CASE k \in 0..n
      <4>1. f[k] = IF k = 0 THEN << >> ELSE Marked(bytes, k, f[k - 1])
        BY Zenon, <2>1, <3>2 DEF Marking
      <4>2. g[k] = f[k]
        BY Zenon, <3>2
      <4> HIDE DEF g
      <4> QED  BY Zenon, <3>1, <4>1, <4>2
    <3>3. CASE k \notin 0..n
      <4>1. k # 0
        BY <3>3
      <4>2. g[k] = Marked(bytes, k, f[k - 1])
        BY Zenon, <3>3
      <4> HIDE DEF g
      <4> QED  BY Zenon, <3>1, <4>1, <4>2
    <3> QED  BY <3>2, <3>3
  <2>3. g = [k \in 0..(n + 1) |-> g[k]]
    BY Zenon
  <2> HIDE DEF g
  <2>4. g = [k \in 0..(n + 1) |-> IF k = 0 THEN << >> ELSE Marked(bytes, k, g[k - 1])]
    BY Zenon, <2>2, <2>3
  <2>5. Marking(bytes, n + 1, g)
    BY Zenon, <2>4 DEF Marking
  <2> QED  BY <2>5
<1> HIDE DEF Q
<1>3. Nat \subseteq Q
  BY <1>1, <1>2, NaturalsAreReached
<1> QED  BY <1>3 DEF Q

\* A text dump is one of the bytes it is given.
LEMMA AsciiDumpIs ==
  ASSUME NEW bytes, IsSeq(bytes), NEW dump, dump = RefreshAsciiDump(bytes)
  PROVE  TextIsOf(dump, bytes)
<1> DEFINE n == Len(bytes)
<1> DEFINE f == CHOOSE f : Marking(bytes, n, f)
<1>0. n \in Nat /\ DOMAIN bytes = 1..n
  BY SeqHas
<1>1. dump = [chars |-> << >>, red |-> {}, yellow |-> {}, grey |-> f[n]]
  <2> DEFINE h == CHOOSE g : g = [k \in 0..Len(bytes) |->
                    IF k = 0 THEN << >>
                    ELSE IF bytes[k] \in {"print", "blank", "newline"} THEN g[k - 1]
                    ELSE Spans(g[k - 1], k - 1)]
  <2>1. dump = [chars |-> << >>, red |-> {}, yellow |-> {}, grey |-> h[n]]
    BY Zenon DEF RefreshAsciiDump
  <2>3. h = f
    BY Zenon DEF Marking, Marked
  <2> HIDE DEF h, f, n
  <2> QED  BY Zenon, <2>1, <2>3
<1>2. Marking(bytes, n, f)
  BY Zenon, <1>0, MarkingExists
<1> HIDE DEF n, f
<1>3. \A k \in 0..n : f[k] = IF k = 0 THEN << >> ELSE Marked(bytes, k, f[k - 1])
  <2>1. f = [k \in 0..n |-> IF k = 0 THEN << >> ELSE Marked(bytes, k, f[k - 1])]
    BY Zenon, <1>2 DEF Marking
  <2> QED  BY Zenon, <2>1
<1> DEFINE Q == {k \in Nat : k \in 0..n => SpansTo(bytes, k, f[k])}
<1>4. 0 \in Q
  <2>1. 0 \in 0..n
    BY <1>0
  <2>2. f[0] = << >>
    BY <1>3, <2>1
  <2>3. SpansTo(bytes, 0, << >>)
    <3>1. << >> \in Seq(Nat \X Nat) /\ \A i \in DOMAIN << >> : FALSE
      OBVIOUS
    <3>2. \A p \in Nat : ~(p < 0)
      OBVIOUS
    <3> QED  BY <3>1, <3>2 DEF SpansTo
  <2> QED  BY <2>2, <2>3
<1>5. ASSUME NEW k \in Nat, k \in Q PROVE k + 1 \in Q
  <2> SUFFICES ASSUME k + 1 \in 0..n PROVE SpansTo(bytes, k + 1, f[k + 1])
    OBVIOUS
  <2>1. k \in 0..n /\ k + 1 # 0 /\ (k + 1) - 1 = k
    BY <1>0
  <2>2. f[k + 1] = Marked(bytes, k + 1, f[k])
    BY <1>3, <2>1
  <2>3. SpansTo(bytes, k, f[k])
    BY <1>5, <2>1
  <2>4. CASE Dotted(bytes[k + 1])
    <3>1. f[k + 1] = Spans(f[k], k)
      BY <2>1, <2>2, <2>4 DEF Marked, Dotted
    <3> QED  BY <2>3, <2>4, <3>1, SpansMarked
  <2>5. CASE ~Dotted(bytes[k + 1])
    <3>1. f[k + 1] = f[k]
      BY <2>2, <2>5 DEF Marked, Dotted
    <3> DEFINE s == f[k]
    <3>2. SpansTo(bytes, k, s)
      BY <2>3
    <3> HIDE DEF s
    <3>3. s \in Seq(Nat \X Nat) /\ \A i \in DOMAIN s : s[i] \in Nat \X Nat
      <4>1. s \in Seq(Nat \X Nat)
        BY <3>2 DEF SpansTo
      <4>2. DOMAIN s = 1..Len(s)
        BY <4>1, LenProperties
      <4> QED  BY <4>1, <4>2, ElementOfSeq
    <3>4. \A i \in DOMAIN s : s[i][1] < s[i][2] /\ s[i][2] <= k + 1 /\ (i > 1 => s[i - 1][2] < s[i][1])
      BY <3>2, <3>3 DEF SpansTo
    <3>5. ASSUME NEW p \in Nat
          PROVE  (p < k + 1 /\ Dotted(bytes[p + 1])) <=> (p < k /\ Dotted(bytes[p + 1]))
      <4>1. p < k + 1 <=> p < k \/ p = k
        OBVIOUS
      <4> QED  BY <2>5, <4>1
    <3>6. SpansTo(bytes, k + 1, s)
      BY <3>2, <3>3, <3>4, <3>5 DEF SpansTo
    <3> QED  BY <3>1, <3>6 DEF s
  <2> QED  BY <2>4, <2>5
<1> HIDE DEF Q
<1>6. Nat \subseteq Q
  BY <1>4, <1>5, NaturalsAreReached
<1> DEFINE s == f[n]
<1>7. SpansTo(bytes, n, s)
  <2>1. n \in Q /\ n \in 0..n
    BY <1>0, <1>6
  <2> QED  BY <2>1 DEF Q
<1>8. dump = [chars |-> << >>, red |-> {}, yellow |-> {}, grey |-> s]
  BY <1>1
<1> HIDE DEF s
<1>9. UNION {e[1]..(e[2] - 1) : e \in ToSet(s)}
        = {i - 1 : i \in {j \in DOMAIN bytes : ~Printed(bytes[j]) \/ bytes[j] = "return"}}
  <2>0. s \in Seq(Nat \X Nat) /\ \A i \in DOMAIN s : s[i][1] \in Nat /\ s[i][2] \in Nat
    <3>1. s \in Seq(Nat \X Nat)
      BY <1>7 DEF SpansTo
    <3>2. DOMAIN s = 1..Len(s)
      BY <3>1, LenProperties
    <3>3. \A i \in DOMAIN s : s[i] \in Nat \X Nat
      BY <3>1, <3>2, ElementOfSeq
    <3> QED  BY <3>1, <3>3
  <2>1. \A c : (~Printed(c) \/ c = "return") <=> Dotted(c)
    BY DEF Printed, Dotted
  <2>2. ASSUME NEW i \in DOMAIN s, NEW p \in s[i][1]..(s[i][2] - 1)
        PROVE  p + 1 \in 1..n /\ Dotted(bytes[p + 1]) /\ p = (p + 1) - 1
    <3>1. p \in Nat /\ s[i][1] <= p /\ p < s[i][2]
      BY <2>0
    <3>2. p < n /\ Dotted(bytes[p + 1])
      BY <1>7, <3>1 DEF SpansTo
    <3> QED  BY <1>0, <3>1, <3>2
  <2>3. ASSUME NEW j \in 1..n, Dotted(bytes[j])
        PROVE  \E i \in DOMAIN s : j - 1 \in s[i][1]..(s[i][2] - 1)
    <3>1. j - 1 \in Nat /\ j - 1 < n /\ (j - 1) + 1 = j
      BY <1>0
    <3>2. PICK i \in DOMAIN s : s[i][1] <= j - 1 /\ j - 1 < s[i][2]
      BY <1>7, <2>3, <3>1 DEF SpansTo
    <3>3. j - 1 \in s[i][1]..(s[i][2] - 1)
      BY <2>0, <3>1, <3>2
    <3> QED  BY <3>3
  <2>4. ToSet(s) = {s[i] : i \in DOMAIN s}
    BY DEF ToSet
  <2>5. \A p : p \in UNION {e[1]..(e[2] - 1) : e \in ToSet(s)} <=> \E i \in DOMAIN s : p \in s[i][1]..(s[i][2] - 1)
    BY <2>4
  <2>6. \A p : p \in {i - 1 : i \in {j \in DOMAIN bytes : ~Printed(bytes[j]) \/ bytes[j] = "return"}}
                 <=> \E j \in 1..n : Dotted(bytes[j]) /\ p = j - 1
    BY <1>0, <2>1
  <2>7. ASSUME NEW p
        PROVE  (\E i \in DOMAIN s : p \in s[i][1]..(s[i][2] - 1)) <=> \E j \in 1..n : Dotted(bytes[j]) /\ p = j - 1
    BY <2>2, <2>3
  <2> DEFINE X == UNION {e[1]..(e[2] - 1) : e \in ToSet(s)}
  <2> DEFINE Y == {i - 1 : i \in {j \in DOMAIN bytes : ~Printed(bytes[j]) \/ bytes[j] = "return"}}
  <2>8. \A p : p \in X <=> p \in Y
    BY <2>5, <2>6, <2>7, Zenon
  <2> HIDE DEF X, Y
  <2>9. X = Y
    BY <2>8
  <2> QED  BY <2>9 DEF X, Y
<1>10. \A k \in DOMAIN s : k > 1 => s[k - 1][2] < s[k][1]
  BY <1>7 DEF SpansTo
<1> QED  BY <1>8, <1>9, <1>10 DEF TextIsOf

-----------------------------------------------------------------------------
(* The memory view.                                                         *)

MemoryFormed(m) ==
  /\ m = [key |-> m.key, hex |-> m.hex, bytes |-> m.bytes, spin |-> m.spin, width |-> m.width, dump |-> m.dump]
  /\ IsSeq(m.bytes) /\ m.spin \in Nat /\ m.width \in Nat

\* What is shown is of what the view has.
DumpOf(m) ==
  IF m.hex THEN HexIsOf(m.dump, m.bytes, m.width, m.spin) ELSE TextIsOf(m.dump, m.bytes)

\* What the user asked to see has bytes.
Clicked(q) ==
  \A i \in DOMAIN q : q[i].do \in {"memory", "jmemory"} =>
    IsSeq(BytesOf[q[i].row.val.id]) /\ BytesOf[q[i].row.val.id] # << >>

\* A dump that is not of what the view has is about to be drawn.
DumpInv == MemoryFormed(memory) /\ Clicked(wx) /\ ((\A i \in DOMAIN wx : wx[i].do # "redraw") => DumpOf(memory))

\* A dump drawn is one of the bytes, as wide as the view.
LEMMA RedrawIs ==
  ASSUME NEW m, MemoryFormed(m), NEW r, r = RedrawMemory(m)
  PROVE  MemoryFormed(r) /\ DumpOf(r)
<1>1. IsSeq(m.bytes) /\ m.spin \in Nat /\ m.width \in Nat
  BY DEF MemoryFormed
<1>2. PICK d : d = IF m.hex THEN RefreshHexDump(m.bytes, m.width, m.spin) ELSE RefreshAsciiDump(m.bytes)
  OBVIOUS
<1>3. r = [m EXCEPT !.dump = d]
  BY Zenon, <1>2 DEF RedrawMemory
<1>4. /\ r.key = m.key /\ r.hex = m.hex /\ r.bytes = m.bytes /\ r.spin = m.spin /\ r.width = m.width
      /\ r.dump = d
      /\ r = [key |-> r.key, hex |-> r.hex, bytes |-> r.bytes, spin |-> r.spin, width |-> r.width, dump |-> r.dump]
  BY <1>3 DEF MemoryFormed
<1>5. CASE m.hex
  <2>1. d = RefreshHexDump(m.bytes, m.width, m.spin)
    BY <1>2, <1>5
  <2>2. HexIsOf(d, m.bytes, m.width, m.spin)
    BY <1>1, <2>1, HexDumpIs
  <2> QED  BY <1>1, <1>4, <1>5, <2>2 DEF MemoryFormed, DumpOf
<1>6. CASE ~m.hex
  <2>1. d = RefreshAsciiDump(m.bytes)
    BY <1>2, <1>6
  <2>2. TextIsOf(d, m.bytes)
    BY <1>1, <2>1, AsciiDumpIs
  <2> QED  BY <1>1, <1>4, <1>6, <2>2 DEF MemoryFormed, DumpOf
<1> QED  BY <1>5, <1>6

\* Posts that ask for no memory.
Inert(p) == IsSeq(p) /\ \A i \in DOMAIN p : p[i].do \notin {"memory", "jmemory"}

\* Nothing that is posted shows no memory.
LEMMA InertNone == Inert(<< >>)
BY NonePosted DEF Inert

\* An event that is no click of a memory row shows none.
LEMMA InertOne ==
  ASSUME NEW e, e.do \notin {"memory", "jmemory"}
  PROVE  Inert(<<e>>)
<1>1. IsSeq(<<e>>) /\ DOMAIN <<e>> = {1} /\ << e >>[1] = e
  BY OnePosted
<1> DEFINE p == <<e>>
<1>2. IsSeq(p) /\ \A i \in DOMAIN p : p[i] = e
  BY <1>1
<1> HIDE DEF p
<1>3. Inert(p)
  BY <1>2 DEF Inert
<1> QED  BY <1>3 DEF p

\* A signal to the panes shows no memory.
LEMMA InertSignal ==
  ASSUME NEW do \in {"reload", "clear"}, NEW ps, ps \subseteq Views \cup {"stack", "memory"}
  PROVE  Inert(ToWx(do, ps))
<1> DEFINE a == ToWx(do, ps)
<1>1. IsSeq(a) /\ \A i \in DOMAIN a : \E p \in ps \cap (WxViews \cup {"stack"}) : a[i] = Event(do, p)
  BY SignalIs
<1> HIDE DEF a
<1>2. \A p : Event(do, p).do = do
  BY DEF Event
<1>3. Inert(a)
  BY <1>1, <1>2 DEF Inert
<1> QED  BY <1>3 DEF a

\* A request of a view, and the answer to it, show no memory.
LEMMA InertAsked ==
  ASSUME Told, NEW v, NEW x
  PROVE  Inert(Asked(v, x))
<1>1. Asked(v, x) = << >> \/ \E rows : Asked(v, x) = <<Answer("reply", v, rows)>>
  BY AskedIs
<1>2. ASSUME NEW rows PROVE Inert(<<Answer("reply", v, rows)>>)
  <2> DEFINE e == Answer("reply", v, rows)
  <2>1. e.do = "reply"
    BY DEF Answer
  <2> HIDE DEF e
  <2>2. Inert(<<e>>)
    BY <2>1, InertOne
  <2> QED  BY <2>2 DEF e
<1> QED  BY <1>1, <1>2, InertNone

\* A queue from which something else than a redraw was taken, and to which such posts were added.
LEMMA DumpMoved ==
  ASSUME DumpInv, UNCHANGED memory, NEW d, NEW p, Inert(p), Moved(wx, d, p, wx'),
         d = 1 => wx[1].do # "redraw"
  PROVE  DumpInv'
<1>1. Clicked(wx')
  <2> SUFFICES ASSUME NEW i \in DOMAIN wx', wx'[i].do \in {"memory", "jmemory"}
               PROVE  IsSeq(BytesOf[wx'[i].row.val.id]) /\ BytesOf[wx'[i].row.val.id] # << >>
    BY DEF Clicked
  <2>1. (\E k \in DOMAIN wx : k > d /\ wx'[i] = wx[k]) \/ \E k \in DOMAIN p : wx'[i] = p[k]
    BY MovedBack
  <2> QED  BY <2>1 DEF DumpInv, Clicked, Inert
<1>2. ASSUME \A i \in DOMAIN wx' : wx'[i].do # "redraw" PROVE \A i \in DOMAIN wx : wx[i].do # "redraw"
  <2> SUFFICES ASSUME NEW i \in DOMAIN wx PROVE wx[i].do # "redraw"
    OBVIOUS
  <2>1. /\ Len(wx) \in Nat /\ Len(p) \in Nat /\ DOMAIN wx = 1..Len(wx) /\ DOMAIN wx' = 1..Len(wx')
        /\ Len(wx') = Len(wx) - d + Len(p) /\ d \in {0, 1}
    BY SeqHas DEF Moved
  <2>2. CASE i = 1 /\ d = 1
    BY <2>2
  <2>3. CASE ~(i = 1 /\ d = 1)
    <3>1. i - d \in 1..(Len(wx) - d) /\ (i - d) + d = i /\ i - d \in DOMAIN wx'
      BY <2>1, <2>3
    <3>2. wx'[i - d] = wx[i]
      BY <3>1 DEF Moved
    <3> QED  BY <1>2, <3>1, <3>2
  <2> QED  BY <2>2, <2>3
<1>3. MemoryFormed(memory') /\ (DumpOf(memory) => DumpOf(memory'))
  BY DEF DumpInv
<1> QED  BY <1>1, <1>2, <1>3 DEF DumpInv

\* The queue is left alone.
LEMMA DumpStays ==
  ASSUME DumpInv, UNCHANGED <<memory, wx>>
  PROVE  DumpInv'
BY DEF DumpInv, Clicked, MemoryFormed, DumpOf

\* Something is posted.
LEMMA DumpPosts ==
  ASSUME Formed, DumpInv, UNCHANGED memory, NEW p, Inert(p), wx' = wx \o p
  PROVE  DumpInv'
<1>1. Moved(wx, 0, p, wx')
  BY PostedMoves DEF Formed, Inert
<1> QED  BY <1>1, DumpMoved

\* An event that shows no memory is posted, and the view is left alone.
LEMMA DumpAppends ==
  ASSUME Formed, DumpInv, UNCHANGED memory, NEW e, e.do \notin {"memory", "jmemory"}, wx' = Append(wx, e)
  PROVE  DumpInv'
<1> DEFINE p == <<e>>
<1>1. wx' = wx \o p
  BY AppendIs DEF Formed
<1>2. Inert(p)
  BY InertOne
<1> HIDE DEF p
<1> QED  BY <1>1, <1>2, DumpPosts

\* A view is asked to reload, which leaves the memory view alone.
LEMMA DumpReloads ==
  ASSUME Formed, DumpInv, UNCHANGED memory, NEW v, wx' = wx \o DoReload(v)
  PROVE  DumpInv'
<1>1. CASE listening
  <2> DEFINE e == Event("reload", v)
  <2>1. e.do = "reload"
    BY DEF Event
  <2> DEFINE p == <<e>>
  <2>2. wx' = wx \o p
    BY <1>1 DEF DoReload
  <2> HIDE DEF e
  <2>3. Inert(p)
    BY <2>1, InertOne
  <2> HIDE DEF p
  <2> QED  BY <2>2, <2>3, DumpPosts
<1>2. CASE ~listening
  <2>1. wx' = wx \o << >>
    BY <1>2 DEF DoReload
  <2> QED  BY <2>1, InertNone, DumpPosts
<1> QED  BY <1>1, <1>2

\* The panes are told to reload or to empty themselves.
LEMMA DumpSignals ==
  ASSUME Formed, DumpInv, UNCHANGED memory, NEW do \in {"reload", "clear"},
         NEW ps, ps \subseteq Views \cup {"stack", "memory"}, Signal(do, ps)
  PROVE  DumpInv'
<1> DEFINE p == ToWx(do, ps)
<1>1. Inert(p) /\ wx' = wx \o p
  BY InertSignal DEF Signal
<1> HIDE DEF p
<1> QED  BY <1>1, DumpPosts

\* The first event is handled.
LEMMA DumpHandles ==
  ASSUME Formed, DumpInv, UNCHANGED memory, wx # << >>, Head(wx).do # "redraw", NEW p, Inert(p), Handled(p)
  PROVE  DumpInv'
<1>1. Moved(wx, 1, p, wx') /\ wx[1].do # "redraw"
  BY HandledIs, HeadIs DEF Inert
<1> QED  BY <1>1, DumpMoved

\* What is drawn now.
LEMMA DumpDrawn ==
  ASSUME DumpInv, NEW m, MemoryFormed(m), memory' = RedrawMemory(m), Clicked(wx')
  PROVE  DumpInv'
<1>1. MemoryFormed(memory') /\ DumpOf(memory')
  BY RedrawIs
<1>2. MemoryFormed(memory)' /\ DumpOf(memory)'
  BY <1>1 DEF MemoryFormed, DumpOf
<1>3. Clicked(wx)'
  BY DEF Clicked
<1> QED  BY <1>2, <1>3 DEF DumpInv

\* What is posted that shows no memory leaves what was clicked as it was.
LEMMA ClickedStays ==
  ASSUME NEW w, NEW p, NEW w2, Clicked(w), Inert(p), Moved(w, 0, p, w2)
  PROVE  Clicked(w2)
<1>1. \A k \in DOMAIN w2 : \/ \E j \in DOMAIN w : j > 0 /\ w2[k] = w[j]
                          \/ \E j \in DOMAIN p : w2[k] = p[j]
  BY MovedBack
<1> SUFFICES ASSUME NEW i \in DOMAIN w2, w2[i].do \in {"memory", "jmemory"}
             PROVE  IsSeq(BytesOf[w2[i].row.val.id]) /\ BytesOf[w2[i].row.val.id] # << >>
  BY DEF Clicked
<1>2. (\E j \in DOMAIN w : j > 0 /\ w2[i] = w[j]) \/ (\E j \in DOMAIN p : w2[i] = p[j])
  BY <1>1
<1>3. CASE \E j \in DOMAIN p : w2[i] = p[j]
  BY <1>3 DEF Inert
<1>4. CASE \E j \in DOMAIN w : j > 0 /\ w2[i] = w[j]
  BY <1>4 DEF Clicked
<1> QED  BY <1>2, <1>3, <1>4

\* What is to be drawn.
LEMMA DumpDue ==
  ASSUME Formed, DumpInv, MemoryFormed(memory'), wx' = Append(wx, Event("redraw", "memory"))
  PROVE  DumpInv'
<1> DEFINE e == Event("redraw", "memory")
<1>1. e.do = "redraw"
  BY DEF Event
<1> DEFINE p == <<e>>
<1> HIDE DEF e
<1>2. IsSeq(wx) /\ IsSeq(p) /\ Len(p) = 1 /\ p[1] = e /\ Inert(p)
  BY <1>1, OneIs, InertOne DEF Formed
<1>3. wx' = wx \o p
  BY <1>2, AppendIs DEF e
<1> HIDE DEF p
<1>4. Moved(wx, 0, p, wx')
  BY <1>2, <1>3, PostedMoves
<1>5. \E i \in DOMAIN wx' : wx'[i].do = "redraw"
  <2>1. IsSeq(wx') /\ Len(wx') = Len(wx) + 1 /\ wx'[Len(wx) + 1] = e /\ Len(wx) \in Nat
    <3>0. IsSeq(wx)
      BY <1>2
    <3>1. IsSeq(p)
      BY <1>2
    <3>2. IsSeq(wx \o p) /\ Len(wx \o p) = Len(wx) + Len(p)
      BY <3>0, <3>1, CatIs
    <3>3. \A i \in 1..Len(p) : (wx \o p)[Len(wx) + i] = p[i]
      BY <3>0, <3>1, CatIs
    <3>4. 1 \in 1..Len(p)
      BY <1>2
    <3>5. (wx \o p)[Len(wx) + 1] = p[1]
      BY <3>3, <3>4
    <3> QED  BY <1>2, <1>3, <3>0, <3>2, <3>5, SeqHas
  <2>2. Len(wx) + 1 \in DOMAIN wx'
    BY <2>1, SeqHas
  <2> QED  BY <1>1, <2>1, <2>2
<1>6. Clicked(wx')
  BY <1>2, <1>4, ClickedStays DEF DumpInv
<1> QED  BY <1>5, <1>6 DEF DumpInv, MemoryFormed, Clicked

\* The initial view is as wide as it can be.
LEMMA DumpStarts == InspectInit => DumpInv
<1> SUFFICES ASSUME InspectInit PROVE DumpInv
  OBVIOUS
<1>1. Max(Widths) \in Nat
  <2>1. PICK w \in Widths : \A x \in Widths : x <= w
    BY MemoryAssumption
  <2>2. \A x \in Widths : w >= x
    BY <2>1, MemoryAssumption
  <2>3. Max(Widths) \in Widths
    BY <2>2 DEF Max
  <2> QED  BY <2>3, MemoryAssumption
<1> DEFINE d == RefreshHexDump(<< >>, Max(Widths), 0)
<1>2. memory = [key |-> Named(""), hex |-> TRUE, bytes |-> << >>, spin |-> 0, width |-> Max(Widths), dump |-> d]
  BY DEF InspectInit, NoMemory
<1>3. IsSeq(<< >>) /\ 0 \in Nat
  BY NonePosted
<1>4. HexIsOf(d, << >>, Max(Widths), 0)
  BY <1>1, <1>3, HexDumpIs
<1> HIDE DEF d
<1>5. MemoryFormed(memory) /\ DumpOf(memory)
  BY <1>1, <1>2, <1>3, <1>4 DEF MemoryFormed, DumpOf
<1>6. Clicked(wx)
  <2>1. wx = << >>
    BY DEF InspectInit
  <2> QED  BY <2>1, NonePosted DEF Clicked
<1> QED  BY <1>5, <1>6 DEF DumpInv

\* Steps that neither draw nor post.
LEMMA AsideDumps ==
  ASSUME DumpInv, NEW i,
         BeginEdit(i) \/ CancelToolTip \/ paintCell \/ ResetProject \/ Start \/ DaemonDies(i)
         \/ ResumeExecution \/ OnRightDown(i) \/ JuceSet \/ JuceClear \/ handleAsyncUpdate
  PROVE  DumpInv'
<1>1. UNCHANGED <<wx, memory>>
  BY DEF BeginEdit, CancelToolTip, paintCell, ResetProject, Start, DaemonDies, ResumeExecution,
         OnRightDown, JuceSet, JuceClear, handleAsyncUpdate, aside
<1> QED  BY <1>1, DumpStays

\* Steps of the daemon that are told to the panes.
LEMMA ToldDumps ==
  ASSUME InspectInv, DumpInv, NEW i,
         \/ Pause(i) \/ SessionEnds \/ LostConnection \/ (i \in Panes /\ SelectPane(i)) \/ OnShowVarPaths
         \/ OnItemActivated(i)
  PROVE  DumpInv'
<1>0. Formed /\ UNCHANGED memory
  BY DEF InspectInv, Pause, SessionEnds, LostConnection, SelectPane, OnShowVarPaths, OnItemActivated, aside
<1>1. Panes \subseteq Views \cup {"stack", "memory"} /\ front \subseteq Panes
  BY <1>0, PanesAssumption DEF Formed
<1>2. front \subseteq Views \cup {"stack", "memory"} /\ (i \in Panes => {i} \subseteq Views \cup {"stack", "memory"})
      /\ Views \cap Panes \subseteq Views \cup {"stack", "memory"}
  BY <1>1
<1>3. CASE Pause(i)
  <2> DEFINE e == Event("suspended", "")
  <2>1. wx' = Append(wx, e) /\ e.do = "suspended"
    BY <1>3 DEF Pause, Event
  <2> HIDE DEF e
  <2> QED  BY <1>0, <2>1, DumpAppends
<1>4. CASE SessionEnds \/ LostConnection
  <2>1. Signal("clear", front)
    BY <1>4 DEF SessionEnds, LostConnection, ClearVarViews, ShownPages
  <2> QED  BY <1>0, <1>2, <2>1, DumpSignals
<1>5. CASE i \in Panes /\ SelectPane(i)
  <2>1. Signal("reload", {i})
    BY <1>5 DEF SelectPane, OnChildPageEmerged
  <2> QED  BY <1>0, <1>2, <1>5, <2>1, DumpSignals
<1>6. CASE OnShowVarPaths
  <2>1. Signal("reload", Views \cap Panes)
    BY <1>6 DEF OnShowVarPaths, ResetColumns
  <2> QED  BY <1>0, <1>2, <2>1, DumpSignals
<1>7. CASE OnItemActivated(i)
  <2>1. Signal("reload", front) \/ wx' = wx
    BY <1>7 DEF OnItemActivated, ShownPages
  <2>2. CASE Signal("reload", front)
    BY <1>0, <1>2, <2>2, DumpSignals
  <2>3. CASE wx' = wx
    BY <1>0, <2>3, DumpStays
  <2> QED  BY <2>1, <2>2, <2>3
<1> QED  BY <1>3, <1>4, <1>5, <1>6, <1>7

\* What the user does to a view, a watch or a word.
LEMMA ViewDumps ==
  ASSUME InspectInv, DumpInv, NEW v, NEW i, NEW t,
         \/ ToggleTable(v, i) \/ CollapseAll(v) \/ OnAutoButtonToggled(v) \/ OnVarToggleButton(v, t)
         \/ EndEdit(t) \/ JuceToggle(i) \/ JuceReload \/ OnListItemDelete(i) \/ OnMouseMove(i)
  PROVE  DumpInv'
<1>0. Formed /\ UNCHANGED memory
  BY DEF InspectInv, ToggleTable, CollapseAll, OnAutoButtonToggled, OnVarToggleButton, EndEdit, JuceToggle,
         JuceReload, OnListItemDelete, OnMouseMove, aside
<1>1. CASE ToggleTable(v, i) \/ CollapseAll(v) \/ OnAutoButtonToggled(v) \/ OnVarToggleButton(v, t)
  <2>1. wx' = wx \o DoReload(v)
    BY <1>1 DEF ToggleTable, CollapseAll, OnAutoButtonToggled, OnVarToggleButton
  <2> QED  BY <1>0, <2>1, DumpReloads
<1>2. CASE EndEdit(t)
  <2>1. wx' = wx \/ wx' = wx \o DoReload("watches")
    BY <1>2 DEF EndEdit
  <2> QED  BY <1>0, <2>1, DumpStays, DumpReloads
<1>3. CASE JuceToggle(i) \/ JuceReload
  <2>1. \E e : e.do = "jreload" /\ wx' = Append(wx, e)
    <3>1. CASE JuceToggle(i)
      BY <3>1 DEF JuceToggle
    <3>2. CASE JuceReload
      BY <3>2 DEF JuceReload
    <3> QED  BY <1>3, <3>1, <3>2
  <2> QED  BY <1>0, <2>1, DumpAppends
<1>4. ASSUME NEW do \in {"reply", "solved"}, NEW u, NEW rows, wx' = wx \o <<Answer(do, u, rows)>>
      PROVE  DumpInv'
  <2> DEFINE e == Answer(do, u, rows)
  <2>1. e.do = do
    BY DEF Answer
  <2> DEFINE p == <<e>>
  <2>2. wx' = wx \o p
    BY <1>4
  <2> HIDE DEF e
  <2>3. Inert(p)
    BY <2>1, InertOne
  <2> HIDE DEF p
  <2> QED  BY <1>0, <2>2, <2>3, DumpPosts
<1>5. CASE wx' = wx \o << >>
  BY <1>0, <1>5, InertNone, DumpPosts
<1>6. CASE OnListItemDelete(i)
  <2>1. wx' = wx \o << >> \/ \E rows : wx' = wx \o <<Answer("reply", "watches", rows)>>
    BY Zenon, <1>6 DEF OnListItemDelete
  <2> QED  BY <1>4, <1>5, <2>1
<1>7. CASE OnMouseMove(i)
  <2>1. wx' = wx \/ wx' = wx \o << >> \/ \E rows : wx' = wx \o <<Answer("solved", "", rows)>>
    BY Zenon, <1>7 DEF OnMouseMove, Solved
  <2> QED  BY <1>0, <1>4, <1>5, <2>1, DumpStays
<1> QED  BY <1>1, <1>2, <1>3, <1>6, <1>7

\* Events that show no memory.
LEMMA HandledDumps ==
  ASSUME InspectInv, DumpInv, wx # << >>,
         \/ OnLuaSuspended \/ RequestVarReload \/ OnWxThread \/ ReloadStack \/ DispatchReply
         \/ OnPostedCollectedMessage \/ OnClear \/ SetSolvedVariable
  PROVE  DumpInv'
<1>0. Formed /\ Told /\ UNCHANGED memory
  BY DEF InspectInv, OnLuaSuspended, RequestVarReload, OnWxThread, ReloadStack, DispatchReply,
         OnPostedCollectedMessage, OnClear, SetSolvedVariable, aside
<1>1. Head(wx).do # "redraw"
  <2>1. CASE ReloadStack
    <3>1. Head(wx).do = "reload"
      BY <2>1 DEF ReloadStack, Event
    <3> QED  BY <3>1
  <2> QED  BY <2>1 DEF OnLuaSuspended, RequestVarReload, OnWxThread, DispatchReply,
                       OnPostedCollectedMessage, OnClear, SetSolvedVariable
<1>2. CASE OnLuaSuspended
  <2> DEFINE p == ToWx("reload", front)
  <2>1. front \subseteq Views \cup {"stack", "memory"}
    BY <1>0, PanesAssumption DEF Formed
  <2>2. Inert(p) /\ Handled(p)
    BY <1>2, <2>1, InertSignal DEF OnLuaSuspended, ShownPages
  <2> HIDE DEF p
  <2> QED  BY <1>0, <1>1, <2>2, DumpHandles
<1>3. CASE RequestVarReload \/ OnWxThread
  <2>1. \E v, x : Handled(Asked(v, x))
    BY <1>3 DEF RequestVarReload, OnWxThread
  <2>2. PICK v, x : Handled(Asked(v, x))
    BY <2>1
  <2> DEFINE p == Asked(v, x)
  <2>3. Inert(p) /\ Handled(p)
    BY <1>0, <2>2, InertAsked
  <2> HIDE DEF p
  <2> QED  BY <1>0, <1>1, <2>3, DumpHandles
<1>4. CASE Handled(<< >>)
  BY <1>0, <1>1, <1>4, InertNone, DumpHandles
<1>5. CASE DispatchReply
  <2> DEFINE list == [Head(wx) EXCEPT !.do = "list"]
  <2>1. Handled(<< >>) \/ Handled(<<list>>)
    BY <1>5 DEF DispatchReply
  <2>2. list.do = "list"
    BY <1>0, <1>5, HeadIs DEF DispatchReply, WxOk
  <2> DEFINE p == <<list>>
  <2>3. Handled(<< >>) \/ Handled(p)
    BY <2>1
  <2> HIDE DEF list
  <2>4. Inert(p)
    BY <2>2, InertOne
  <2> HIDE DEF p
  <2> QED  BY <1>0, <1>1, <1>4, <2>3, <2>4, DumpHandles
<1>6. ReloadStack \/ OnPostedCollectedMessage \/ OnClear \/ SetSolvedVariable => Handled(<< >>)
  BY DEF ReloadStack, OnPostedCollectedMessage, OnClear, SetSolvedVariable
<1> QED  BY <1>2, <1>3, <1>4, <1>5, <1>6

\* The user asks for the memory of a row, which has bytes.
LEMMA ClickDumps ==
  ASSUME InspectInv, DumpInv, NEW v, NEW i, ShowMemory(v, i)
  PROVE  DumpInv'
<1>0. Formed /\ UNCHANGED memory
  BY DEF InspectInv, ShowMemory, aside
<1> DEFINE row == views[v].rows[i]
<1> DEFINE bytes == BytesOf[row.val.id]
<1>1. row.val.id \in DOMAIN BytesOf /\ IsMemoryURL(bytes)
  BY DEF ShowMemory
<1>2. IsSeq(bytes)
  BY <1>1, MemoryAssumption
<1>3. bytes # << >>
  <2> HIDE DEF bytes
  <2> SUFFICES ASSUME bytes = << >> PROVE FALSE
    OBVIOUS
  <2>1. Len(bytes) = 0 /\ \A j \in DOMAIN bytes : FALSE
    BY NonePosted, SeqHas
  <2>2. ~(Len(bytes) > Huge)
    BY <2>1, HugeAssumption
  <2>3. GetValDataType(bytes) = "ascii"
    BY <2>1, <2>2 DEF GetValDataType
  <2> QED  BY <1>1, <2>3 DEF IsMemoryURL
<1>4. PICK e : e.row = row /\ e.do \in {"memory", "jmemory"} /\ wx' = Append(wx, e)
  BY DEF ShowMemory, SetMemoryWatch
<1>5. Moved(wx, 0, <<e>>, wx') /\ DOMAIN <<e>> = {1} /\ << e >>[1] = e
  <2>1. IsSeq(wx)
    BY <1>0 DEF Formed
  <2>2. wx' = wx \o <<e>>
    BY <1>4, <2>1, AppendIs
  <2>3. IsSeq(<<e>>) /\ DOMAIN <<e>> = {1} /\ << e >>[1] = e
    BY OnePosted
  <2>4. IsSeq(<<e>>)
    BY <2>3
  <2>5. Moved(wx, 0, <<e>>, wx \o <<e>>)
    BY <2>1, <2>4, PostedMoves
  <2> QED  BY <2>2, <2>3, <2>5
<1> DEFINE p == <<e>>
<1>6. Moved(wx, 0, p, wx') /\ \A k \in DOMAIN p : p[k] = e
  BY <1>5
<1> HIDE DEF p, row, bytes
<1>7. Clicked(wx')
  <2> SUFFICES ASSUME NEW k \in DOMAIN wx', wx'[k].do \in {"memory", "jmemory"}
               PROVE  IsSeq(BytesOf[wx'[k].row.val.id]) /\ BytesOf[wx'[k].row.val.id] # << >>
    BY DEF Clicked
  <2>1. \A n \in DOMAIN wx' : \/ \E j \in DOMAIN wx : j > 0 /\ wx'[n] = wx[j]
                             \/ \E j \in DOMAIN p : wx'[n] = p[j]
    BY <1>6, MovedBack
  <2>2. (\E j \in DOMAIN wx : j > 0 /\ wx'[k] = wx[j]) \/ wx'[k] = e
    BY <1>6, <2>1
  <2>3. CASE wx'[k] = e
    BY <1>2, <1>3, <1>4, <2>3 DEF bytes
  <2>4. CASE \E j \in DOMAIN wx : j > 0 /\ wx'[k] = wx[j]
    BY <2>4 DEF DumpInv, Clicked
  <2> QED  BY <2>2, <2>3, <2>4
<1>8. ASSUME \A k \in DOMAIN wx' : wx'[k].do # "redraw" PROVE \A k \in DOMAIN wx : wx[k].do # "redraw"
  <2> SUFFICES ASSUME NEW k \in DOMAIN wx PROVE wx[k].do # "redraw"
    OBVIOUS
  <2>1. /\ Len(wx) \in Nat /\ Len(p) \in Nat /\ DOMAIN wx = 1..Len(wx) /\ DOMAIN wx' = 1..Len(wx')
        /\ Len(wx') = Len(wx) - 0 + Len(p)
    BY <1>6, SeqHas DEF Moved
  <2>2. k \in 1..(Len(wx) - 0) /\ k + 0 = k /\ k \in DOMAIN wx'
    BY <2>1
  <2>3. wx'[k] = wx[k]
    BY <1>6, <2>2 DEF Moved
  <2> QED  BY <1>8, <2>2, <2>3
<1>9. MemoryFormed(memory') /\ (DumpOf(memory) => DumpOf(memory'))
  BY <1>0 DEF DumpInv
<1> QED  BY <1>7, <1>8, <1>9 DEF DumpInv

\* It is passed on to the wx thread.
LEMMA PassDumps ==
  ASSUME InspectInv, DumpInv, wx # << >>, PassShowMemory
  PROVE  DumpInv'
<1>0. Formed /\ UNCHANGED memory
  BY DEF InspectInv, PassShowMemory, aside
<1> DEFINE e == [wx[1] EXCEPT !.do = "memory"]
<1>1. wx[1].do = "jmemory" /\ WxOk(wx[1]) /\ Handled(<<e>>) /\ 1 \in DOMAIN wx
  BY <1>0, HeadIs DEF PassShowMemory
<1>2. e.do = "memory" /\ e.row = wx[1].row
  BY <1>1 DEF WxOk
<1> DEFINE p == <<e>>
<1>3. Handled(p)
  BY <1>1
<1> HIDE DEF e
<1>4. IsSeq(p) /\ \A k \in DOMAIN p : p[k] = e
  BY OnePosted
<1> HIDE DEF p
<1>5. Moved(wx, 1, p, wx')
  BY <1>0, <1>3, <1>4, HandledIs
<1>6. Clicked(wx')
  <2> SUFFICES ASSUME NEW k \in DOMAIN wx', wx'[k].do \in {"memory", "jmemory"}
               PROVE  IsSeq(BytesOf[wx'[k].row.val.id]) /\ BytesOf[wx'[k].row.val.id] # << >>
    BY DEF Clicked
  <2>1. (\E j \in DOMAIN wx : j > 1 /\ wx'[k] = wx[j]) \/ wx'[k] = e
    BY <1>4, <1>5, MovedBack
  <2> QED  BY <1>1, <1>2, <2>1 DEF DumpInv, Clicked
<1>7. ASSUME \A k \in DOMAIN wx' : wx'[k].do # "redraw" PROVE \A k \in DOMAIN wx : wx[k].do # "redraw"
  <2> SUFFICES ASSUME NEW k \in DOMAIN wx PROVE wx[k].do # "redraw"
    OBVIOUS
  <2>1. /\ Len(wx) \in Nat /\ Len(p) \in Nat /\ DOMAIN wx = 1..Len(wx) /\ DOMAIN wx' = 1..Len(wx')
        /\ Len(wx') = Len(wx) - 1 + Len(p)
    BY <1>5, SeqHas DEF Moved
  <2>2. CASE k = 1
    BY <1>1, <2>2
  <2>3. CASE k # 1
    <3>1. k - 1 \in 1..(Len(wx) - 1) /\ (k - 1) + 1 = k /\ k - 1 \in DOMAIN wx'
      BY <2>1, <2>3
    <3>2. wx'[k - 1] = wx[k]
      BY <1>5, <3>1 DEF Moved
    <3> QED  BY <1>7, <3>1, <3>2
  <2> QED  BY <2>2, <2>3
<1>8. MemoryFormed(memory') /\ (DumpOf(memory) => DumpOf(memory'))
  BY <1>0 DEF DumpInv
<1> QED  BY <1>6, <1>7, <1>8 DEF DumpInv

\* What is left in the queue has bytes.
LEMMA ClickedTail ==
  ASSUME Formed, DumpInv, wx # << >>, Handled(<< >>)
  PROVE  Clicked(wx')
<1>1. Moved(wx, 1, << >>, wx') /\ \A i \in DOMAIN << >> : FALSE
  BY HandledIs, NonePosted
<1> SUFFICES ASSUME NEW k \in DOMAIN wx', wx'[k].do \in {"memory", "jmemory"}
             PROVE  IsSeq(BytesOf[wx'[k].row.val.id]) /\ BytesOf[wx'[k].row.val.id] # << >>
  BY DEF Clicked
<1>2. \E j \in DOMAIN wx : j > 1 /\ wx'[k] = wx[j]
  BY <1>1, MovedBack
<1> QED  BY <1>2 DEF DumpInv, Clicked

\* The memory is shown: another name, or the same one with other bytes.
LEMMA ShowDumps ==
  ASSUME InspectInv, DumpInv, wx # << >>, OnShowMemory
  PROVE  DumpInv'
<1>0. Formed
  BY DEF InspectInv
<1> DEFINE r == wx[1].row
<1> DEFINE key == r.path[Len(r.path)]
<1> DEFINE bytes == BytesOf[r.val.id]
<1> DEFINE same == memory.key = key
<1> DEFINE m == [memory EXCEPT !.key = key, !.bytes = bytes,
                   !.hex = IF same THEN @ ELSE IsBinaryData(bytes),
                   !.spin = IF ~same THEN 0 ELSE IF @ < Len(bytes) THEN @ ELSE Len(bytes) - 1]
<1>1. Head(wx) = wx[1] /\ 1 \in DOMAIN wx /\ wx[1].do = "memory"
  BY <1>0, HeadIs DEF OnShowMemory
<1>2. memory' = RedrawMemory(m) /\ Handled(<< >>)
  <2>1. /\ memory' = RedrawMemory(
             [memory EXCEPT !.key = Head(wx).row.path[Len(Head(wx).row.path)], !.bytes = BytesOf[Head(wx).row.val.id],
                !.hex = IF memory.key = Head(wx).row.path[Len(Head(wx).row.path)] THEN @ ELSE IsBinaryData(BytesOf[Head(wx).row.val.id]),
                !.spin = IF ~(memory.key = Head(wx).row.path[Len(Head(wx).row.path)]) THEN 0
                         ELSE IF @ < Len(BytesOf[Head(wx).row.val.id]) THEN @ ELSE Len(BytesOf[Head(wx).row.val.id]) - 1])
        /\ Handled(<< >>)
    BY Zenon DEF OnShowMemory
  <2> QED  BY Zenon, <1>1, <2>1
<1>3. IsSeq(bytes) /\ bytes # << >>
  BY <1>1 DEF DumpInv, Clicked
<1>4. Len(bytes) \in Nat /\ Len(bytes) # 0
  BY <1>3, SeqHas
<1> DEFINE hex == IF same THEN memory.hex ELSE IsBinaryData(bytes)
<1> DEFINE spin == IF ~same THEN 0 ELSE IF memory.spin < Len(bytes) THEN memory.spin ELSE Len(bytes) - 1
<1> HIDE DEF key, bytes, same
<1>5. /\ m.key = key /\ m.bytes = bytes /\ m.hex = (IF same THEN memory.hex ELSE IsBinaryData(bytes))
      /\ m.spin = (IF ~same THEN 0 ELSE IF memory.spin < Len(bytes) THEN memory.spin ELSE Len(bytes) - 1)
      /\ m.width = memory.width /\ m.dump = memory.dump
      /\ m = [key |-> m.key, hex |-> m.hex, bytes |-> m.bytes, spin |-> m.spin, width |-> m.width, dump |-> m.dump]
  <2>1. m = [memory EXCEPT !.key = key, !.bytes = bytes, !.hex = hex, !.spin = spin]
    OBVIOUS
  <2>2. PICK k0, h0, b0, s0, w0, d0 :
          memory = [key |-> k0, hex |-> h0, bytes |-> b0, spin |-> s0, width |-> w0, dump |-> d0]
    BY DEF DumpInv, MemoryFormed
  <2> HIDE DEF hex, spin, m
  <2>3. m = [key |-> key, hex |-> hex, bytes |-> bytes, spin |-> spin, width |-> w0, dump |-> d0]
    BY <2>1, <2>2
  <2>4. /\ m.key = key /\ m.bytes = bytes /\ m.hex = hex /\ m.spin = spin
        /\ m.width = memory.width /\ m.dump = memory.dump
        /\ m = [key |-> m.key, hex |-> m.hex, bytes |-> m.bytes, spin |-> m.spin, width |-> m.width, dump |-> m.dump]
    BY <2>2, <2>3
  <2> QED  BY <2>4 DEF hex, spin
<1> HIDE DEF m
<1>6. m.spin \in Nat /\ m.width \in Nat /\ IsSeq(m.bytes)
  <2>1. memory.spin \in Nat /\ memory.width \in Nat
    BY DEF DumpInv, MemoryFormed
  <2> QED  BY <1>3, <1>4, <1>5, <2>1
<1>7. MemoryFormed(m)
  BY <1>5, <1>6 DEF MemoryFormed
<1>8. Clicked(wx')
  BY <1>0, <1>2, ClickedTail
<1> QED  BY <1>2, <1>7, <1>8, DumpDrawn

\* A dump is drawn, late or at once.
LEMMA DrawnDumps ==
  ASSUME InspectInv, DumpInv, (wx # << >> /\ OnRedraw) \/ OnRefreshMemoryView
  PROVE  DumpInv'
<1>0. Formed /\ MemoryFormed(memory)
  BY DEF InspectInv, DumpInv
<1>1. CASE wx # << >> /\ OnRedraw
  <2>1. memory' = RedrawMemory(memory) /\ Handled(<< >>)
    BY <1>1 DEF OnRedraw
  <2>2. Clicked(wx')
    BY <1>0, <1>1, <2>1, ClickedTail
  <2> QED  BY <1>0, <2>1, <2>2, DumpDrawn
<1>2. CASE OnRefreshMemoryView
  <2> DEFINE m == [memory EXCEPT !.hex = ~memory.hex]
  <2>1. memory' = RedrawMemory(m) /\ wx' = wx
    BY <1>2 DEF OnRefreshMemoryView
  <2>2. MemoryFormed(m)
    BY <1>0 DEF MemoryFormed
  <2>3. Clicked(wx')
    BY <2>1 DEF DumpInv, Clicked
  <2> HIDE DEF m
  <2> QED  BY <2>1, <2>2, <2>3, DumpDrawn
<1> QED  BY <1>1, <1>2

\* The position or the size changes: the dump is drawn later.
LEMMA DueDumps ==
  ASSUME InspectInv, DumpInv, NEW k, OnSpinRangeEvent(k) \/ (k \in Widths /\ OnResizeEvent(k))
  PROVE  DumpInv'
<1>0. Formed /\ MemoryFormed(memory)
  BY DEF InspectInv, DumpInv
<1>1. wx' = Append(wx, Event("redraw", "memory"))
  BY DEF OnSpinRangeEvent, OnResizeEvent
<1>2. CASE OnSpinRangeEvent(k)
  <2>1. memory' = [memory EXCEPT !.spin = k] /\ k \in 0..(IF memory.bytes = << >> THEN 1 ELSE Len(memory.bytes) - 1)
    BY <1>2 DEF OnSpinRangeEvent
  <2>2. Len(memory.bytes) \in Nat
    BY <1>0, SeqHas DEF MemoryFormed
  <2>3. k \in Nat
    BY <2>1, <2>2
  <2>4. MemoryFormed(memory')
    BY <1>0, <2>1, <2>3 DEF MemoryFormed
  <2> QED  BY <1>0, <1>1, <2>4, DumpDue
<1>3. CASE k \in Widths /\ OnResizeEvent(k)
  <2>1. memory' = [memory EXCEPT !.width = k] /\ k \in Nat
    BY <1>3, MemoryAssumption DEF OnResizeEvent
  <2>2. MemoryFormed(memory')
    BY <1>0, <2>1 DEF MemoryFormed
  <2> QED  BY <1>0, <1>1, <2>2, DumpDue
<1> QED  BY <1>2, <1>3

\* Every step.
LEMMA DumpsStep ==
  ASSUME InspectInv, DumpInv, [InspectNext]_inspectVars
  PROVE  DumpInv'
<1>1. CASE UNCHANGED inspectVars
  BY <1>1, DumpStays DEF inspectVars, aside
<1>2. CASE Start \/ (\E p \in Programs : Pause(p)) \/ ResumeExecution \/ SessionEnds
           \/ LostConnection \/ ResetProject \/ (\E p \in Programs : DaemonDies(p))
  BY <1>2, AsideDumps, ToldDumps
<1>3. CASE Handle
  <2>1. ASSUME wx # << >>, \/ OnLuaSuspended \/ RequestVarReload \/ OnWxThread \/ ReloadStack \/ DispatchReply
                           \/ OnPostedCollectedMessage \/ OnClear \/ SetSolvedVariable
                           \/ OnShowMemory \/ PassShowMemory \/ OnRedraw
        PROVE  DumpInv'
    BY <2>1, HandledDumps, ShowDumps, PassDumps, DrawnDumps
  <2>2. ASSUME JuceReload \/ JuceSet \/ JuceClear \/ handleAsyncUpdate
        PROVE  DumpInv'
    BY <2>2, AsideDumps, ViewDumps
  <2> QED  BY <1>3, <2>1, <2>2 DEF Handle
<1>4. CASE Use
  <2>1. ASSUME NEW v, OnGridEvent(v) PROVE DumpInv'
    BY <2>1, ViewDumps, ClickDumps, AsideDumps DEF OnGridEvent
  <2> QED  BY <1>4, <2>1, ToldDumps, ViewDumps, ClickDumps, AsideDumps, DrawnDumps, DueDumps DEF Use
<1>5. CASE CancelToolTip \/ paintCell \/ (\E word \in Words \cup {Named("")} : EndEdit(word))
           \/ (\E i \in DOMAIN stack.rows : OnItemActivated(i))
  BY <1>5, AsideDumps, ViewDumps, ToldDumps
<1> QED  BY <1>1, <1>2, <1>3, <1>4, <1>5 DEF InspectNext

\* Once nothing is to be drawn any more the memory view shows its bytes, whatever they are
\* and however wide it is: in hex each zero and the selected byte in colour where their
\* digits are, and the characters of all lines in one column, since the last line is padded;
\* in text the runs of bytes that are no characters (MemoryViewCtrl::RefreshHexDump() and
\* RefreshAsciiDump()). What is clicked, selected, resized or switched is drawn at once
\* or posts a redraw.
THEOREM DumpIsOfTheBufferAlways == InspectSpec => []DumpIsOfTheBuffer
<1>1. InspectInit => InspectInv /\ DumpInv
  BY InspectStarts, DumpStarts
<1>2. InspectInv /\ DumpInv /\ [InspectNext]_inspectVars => InspectInv' /\ DumpInv'
  BY InspectStep, DumpsStep
<1>3. DumpInv => DumpIsOfTheBuffer
  BY DEF DumpInv, DumpOf, DumpIsOfTheBuffer
<1> QED  BY <1>1, <1>2, <1>3, PTL DEF InspectSpec
=============================================================================
