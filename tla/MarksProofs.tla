---------------------------- MODULE MarksProofs ----------------------------
(***************************************************************************)
(* Proofs about MODULE Marks: the marks of the styled editor are the        *)
(* breakpoints of the source it shows, and a row of the list of functions    *)
(* leads to its function, for all sources, texts, breakpoints and bounds.     *)
(***************************************************************************)
EXTENDS Marks, SequenceTheorems, FiniteSetTheorems, TLAPS

\* A set that holds 0 and the successor of all it holds has every natural number: else
\* "plus 1" would map its members below one that is missing into themselves, one to one
\* but not onto.
LEMMA NaturalsAreReached ==
  ASSUME NEW Q, 0 \in Q, \A n \in Nat : n \in Q => n + 1 \in Q
  PROVE  Nat \subseteq Q
<1> SUFFICES ASSUME NEW n \in Nat, n \notin Q PROVE FALSE
  OBVIOUS
<1> DEFINE S == {x \in 0..n : x \in Q}
<1> DEFINE f == [x \in S |-> x + 1]
<1>1. IsFiniteSet(S)
  <2>1. IsFiniteSet(0..n)
    BY FS_Interval
  <2>2. S \in SUBSET (0..n)
    OBVIOUS
  <2> HIDE DEF S
  <2> QED  BY <2>1, <2>2, FS_Subset
<1>2. f \in [S -> S] /\ \A a, b \in S : f[a] = f[b] => a = b
  <2>1. \A x \in S : x + 1 \in S
    OBVIOUS
  <2> QED  BY <2>1
<1>3. f \in Injection(S, S)
  BY <1>2 DEF Injection, IsInjective
<1>4. f \in Surjection(S, S)
  <2> HIDE DEF f, S
  <2> QED  BY <1>1, <1>3, FS_Injection
<1>5. PICK x \in S : f[x] = 0
  <2>1. 0 \in S
    OBVIOUS
  <2> QED  BY <1>4, <2>1 DEF Surjection
<1> QED  BY <1>5

\* Lines up to a number can be put in ascending order.
LEMMA OrderExists ==
  ASSUME NEW n \in Nat, NEW F \in SUBSET (1..n)
  PROVE  /\ Cardinality(F) \in Nat
         /\ \E at \in [1..Cardinality(F) -> F] :
              \A k, l \in 1..Cardinality(F) : k < l => at[k] < at[l]
<1> DEFINE Ordered(G) == /\ IsFiniteSet(G) /\ Cardinality(G) \in Nat
                         /\ \E at \in [1..Cardinality(G) -> G] :
                              \A k, l \in 1..Cardinality(G) : k < l => at[k] < at[l]
<1> DEFINE Q == {m \in Nat : \A G \in SUBSET (1..m) : Ordered(G)}
<1> HIDE DEF Ordered
<1>1. 0 \in Q
  <2> SUFFICES ASSUME NEW G \in SUBSET (1..0) PROVE Ordered(G)
    OBVIOUS
  <2>0. 1..0 = {}
    OBVIOUS
  <2>1. G = {} /\ IsFiniteSet(G) /\ Cardinality(G) = 0
    <3>1. G = {}
      BY <2>0
    <3> QED  BY <3>1, FS_EmptySet
  <2> DEFINE c == Cardinality(G)
  <2>2. 1..c = {}
    BY <2>0, <2>1
  <2>3. Cardinality(G) \in Nat
    BY <2>1
  <2>4. \E at \in [1..c -> G] : \A k, l \in 1..c : k < l => at[k] < at[l]
    <3> DEFINE at == [k \in 1..c |-> k]
    <3> HIDE DEF c
    <3>1. at \in [1..c -> G]
      BY <2>2
    <3> QED  BY <2>2, <3>1
  <2> QED  BY Zenon, <2>1, <2>3, <2>4 DEF Ordered
<1>2. \A m \in Nat : m \in Q => m + 1 \in Q
  <2> SUFFICES ASSUME NEW m \in Nat, \A G \in SUBSET (1..m) : Ordered(G), NEW G \in SUBSET (1..(m + 1))
               PROVE  Ordered(G)
    OBVIOUS
  <2>1. CASE m + 1 \notin G
    <3>1. G \in SUBSET (1..m)
      BY <2>1
    <3> QED  BY <3>1
  <2>2. CASE m + 1 \in G
    <3> DEFINE H == G \ {m + 1}
    <3>1. H \in SUBSET (1..m) /\ G = H \cup {m + 1} /\ m + 1 \notin H
      BY <2>2
    <3> HIDE DEF H
    <3>2. Ordered(H)
      BY <3>1
    <3>3. IsFiniteSet(G) /\ Cardinality(G) = Cardinality(H) + 1
      <4>1. IsFiniteSet(H)
        BY <3>2 DEF Ordered
      <4> QED  BY <3>1, <4>1, FS_AddElement
    <3> DEFINE c == Cardinality(H)
    <3>4. c \in Nat
      BY <3>2 DEF Ordered
    <3>5. PICK at \in [1..c -> H] : \A k, l \in 1..c : k < l => at[k] < at[l]
      BY <3>2 DEF Ordered
    <3> HIDE DEF c
    <3> DEFINE all == [k \in 1..(c + 1) |-> IF k = c + 1 THEN m + 1 ELSE at[k]]
    <3>6. \A k \in 1..c : at[k] \in H /\ at[k] \in 1..m
      BY <3>1, <3>4, <3>5
    <3>7. all \in [1..(c + 1) -> G]
      <4>1. \A k \in 1..(c + 1) : k = c + 1 \/ k \in 1..c
        BY <3>4
      <4> QED  BY <3>1, <3>6, <4>1
    <3>8. ASSUME NEW k \in 1..(c + 1), NEW l \in 1..(c + 1), k < l PROVE all[k] < all[l]
      <4>1. k \in 1..c /\ all[k] = at[k]
        BY <3>4, <3>8
      <4>2. CASE l = c + 1
        <5>1. all[l] = m + 1 /\ at[k] \in 1..m
          BY <3>6, <4>1, <4>2
        <5> QED  BY <4>1, <5>1
      <4>3. CASE l # c + 1
        <5>1. l \in 1..c /\ all[l] = at[l]
          BY <3>4, <4>3
        <5> QED  BY <3>5, <3>8, <4>1, <5>1
      <4> QED  BY <4>2, <4>3
    <3>9. Cardinality(G) = c + 1
      BY <3>3 DEF c
    <3> HIDE DEF all
    <3>10. \A k, l \in 1..(c + 1) : k < l => all[k] < all[l]
      BY <3>8
    <3> QED  BY <3>3, <3>4, <3>7, <3>9, <3>10 DEF Ordered
  <2> QED  BY <2>1, <2>2
<1> HIDE DEF Q
<1>3. Nat \subseteq Q
  BY <1>1, <1>2, NaturalsAreReached
<1>4. Ordered(F)
  BY <1>3 DEF Q
<1> QED  BY <1>4 DEF Ordered

\* The rows made of a text name a function and a line counted from 1; where no line is
\* gone, the line of the function.
LEMMA RowsOfText ==
  ASSUME NEW text \in Seq(Nat), NEW now \in Nat \ {0}
  PROVE  LET rows == FunctionsIn(text, now)
         IN /\ rows \in Seq([m_Name : Nat, m_Line : Nat \ {0}])
            /\ now = Len(text) =>
                 \A k \in DOMAIN rows : /\ rows[k].m_Line \in 1..Len(text)
                                        /\ text[rows[k].m_Line] = rows[k].m_Name
<1> DEFINE F == {i \in DOMAIN text : text[i] \in Functions}
<1> DEFINE c == Cardinality(F)
<1> DEFINE last(i) == IF i < now THEN i ELSE now
<1>1. Len(text) \in Nat /\ F \in SUBSET (1..Len(text))
  OBVIOUS
<1>2. \A i \in F : i \in Nat \ {0} /\ text[i] \in Nat
  OBVIOUS
<1> HIDE DEF F
<1>3. c \in Nat /\ Ascending(F) \in [1..c -> F]
  BY <1>1, OrderExists DEF Ascending
<1> HIDE DEF c
<1> DEFINE at == Ascending(F)
<1>4. FunctionsIn(text, now) = [k \in DOMAIN at |-> [m_Name |-> text[at[k]], m_Line |-> last(at[k])]]
  BY DEF FunctionsIn, F
<1>5. DOMAIN at = 1..c /\ \A k \in 1..c : at[k] \in F
  BY <1>3
<1> HIDE DEF at
<1>6. \A k \in 1..c : [m_Name |-> text[at[k]], m_Line |-> last(at[k])] \in [m_Name : Nat, m_Line : Nat \ {0}]
  BY <1>2, <1>5
<1>7. FunctionsIn(text, now) \in Seq([m_Name : Nat, m_Line : Nat \ {0}])
  BY <1>3, <1>4, <1>5, <1>6
<1>8. ASSUME now = Len(text), NEW k \in DOMAIN FunctionsIn(text, now)
      PROVE  LET row == FunctionsIn(text, now)[k]
             IN row.m_Line \in 1..Len(text) /\ text[row.m_Line] = row.m_Name
  <2>1. k \in 1..c /\ at[k] \in F /\ at[k] \in 1..Len(text)
    BY <1>1, <1>4, <1>5, <1>8
  <2>2. last(at[k]) = at[k]
    BY <1>1, <1>8, <2>1
  <2>3. FunctionsIn(text, now)[k] = [m_Name |-> text[at[k]], m_Line |-> at[k]]
    BY <1>4, <1>5, <2>1, <2>2
  <2> QED  BY <2>1, <2>3
<1> QED  BY <1>7, <1>8

-----------------------------------------------------------------------------
(* The editor and the sources put aside. *)

MarksInv == TypeOK /\ MarksAreBreakpoints

\* The editor shows one of its lines, counted from 1, or its last.
LEMMA LineShown ==
  ASSUME NEW ed \in Editors, NEW ln \in Nat \ {0}
  PROVE  LET shown == ShowLine(ed, ln)
         IN /\ shown \in Editors /\ shown.sfc = ed.sfc /\ shown.text = ed.text
            /\ shown.marks = ed.marks
            /\ ln <= Len(ed.text) => shown.cursor + 1 = ln
<1>1. ed.text \in Seq(Nat) /\ Len(ed.text) \in Nat /\ ed.cursor \in Nat /\ ed.cursor < Len(ed.text)
  BY DEF Editors
<1> DEFINE c == Clipped(ln - 1, ed.text)
<1>2. c \in Nat /\ c < Len(ed.text) /\ (ln <= Len(ed.text) => c + 1 = ln)
  BY <1>1 DEF Clipped
<1>3. ShowLine(ed, ln) = [ed EXCEPT !.cursor = c]
  BY DEF ShowLine
<1> HIDE DEF c
<1> QED  BY <1>2, <1>3 DEF Editors

\* A source that is loaded into the editor comes with the marks of its breakpoints.
LEMMA SourceLoaded ==
  ASSUME TypeOK, NEW f \in Files
  PROVE  /\ Loaded(f) \in Editors /\ Loaded(f).sfc = f
         /\ Loaded(f).marks = MarksIn(Loaded(f).text, BreakpointsOf(f, bps))
<1> DEFINE text == Append(docs[f].text, 0)
<1>1. docs[f] \in Docs
  BY DEF TypeOK, UiTypes
<1>2. text \in Seq(Nat) /\ Len(text) = Len(docs[f].text) + 1 /\ docs[f].cursor \in Nat
        /\ docs[f].cursor < Len(text)
  BY <1>1 DEF Docs
<1>3. BreakpointsOf(f, bps) \in SUBSET Nat
  BY DEF TypeOK, UiTypes, BreakpointsOf
<1> HIDE DEF text
<1>4. Loaded(f) = [sfc |-> f, text |-> text, marks |-> MarksIn(text, BreakpointsOf(f, bps)),
                   cursor |-> docs[f].cursor]
  BY DEF Loaded, text
<1> QED  BY <1>2, <1>3, <1>4 DEF MarksIn, Editors

\* The text the editor leaves is put aside with its cursor.
LEMMA SourceLeft ==
  ASSUME TypeOK
  PROVE  Left \in [Files -> Docs]
<1>1. CASE editor.sfc = None
  BY <1>1 DEF Left, TypeOK, UiTypes
<1>2. CASE editor.sfc # None
  <2> DEFINE d == [text |-> editor.text, cursor |-> editor.cursor]
  <2>1. editor.sfc \in Files /\ d \in Docs
    BY <1>2 DEF TypeOK, UiTypes, Editors, Docs
  <2>2. Left = [docs EXCEPT ![editor.sfc] = d]
    BY <1>2 DEF Left
  <2> QED  BY <2>1, <2>2 DEF TypeOK, UiTypes
<1> QED  BY <1>1, <1>2

\* Whatever source is opened, or shown at another line, the marks are its breakpoints.
LEMMA OpenKeeps ==
  ASSUME TypeOK, MarksAreBreakpoints, NEW f \in Files, NEW ed \in Editors, Open(f, ed),
         ed.sfc = f, ed.text = Opened(f).text, ed.marks = Opened(f).marks
  PROVE  /\ editor' \in Editors /\ docs' \in [Files -> Docs] /\ apart' \in BOOLEAN
         /\ later' \subseteq {"ReloadStylCache", "OnReloadLuaFunctions"}
         /\ editor' = ed
         /\ ~apart' => ed.marks = MarksIn(ed.text, BreakpointsOf(f, bps))
<1>1. docs' \in [Files -> Docs]
  BY SourceLeft DEF Open, TypeOK, UiTypes
<1>2. later' \subseteq {"ReloadStylCache", "OnReloadLuaFunctions"}
  BY DEF Open, TypeOK, UiTypes
<1>3. editor' = ed /\ apart' \in BOOLEAN /\ (f = editor.sfc /\ ~apart' => ~apart)
  BY DEF Open, TypeOK, UiTypes
<1>4. f # None
  BY MarksAssumption DEF None
<1>5. CASE f = editor.sfc
  BY <1>1, <1>2, <1>3, <1>4, <1>5 DEF Opened, MarksAreBreakpoints
<1>6. CASE f # editor.sfc
  BY <1>1, <1>2, <1>3, <1>6, SourceLoaded DEF Opened
<1> QED  BY <1>5, <1>6

\* The editor of a source opened, at the line it is at.
LEMMA SourceOpened ==
  ASSUME TypeOK, NEW f \in Files
  PROVE  Opened(f) \in Editors /\ Opened(f).sfc = f
BY SourceLoaded DEF Opened, TypeOK, UiTypes

\* A location leads to its source and line, or to a source that is not of the project.
LEMMA LocationKeeps ==
  ASSUME TypeOK, MarksAreBreakpoints, NEW name, NEW ln \in Nat \ {0}, OnShowLocation(name, ln),
         over = ""
  PROVE  /\ UiTypes' /\ MarksAreBreakpoints'
         /\ over' \in {"", "assert(sfc)"} /\ UNCHANGED <<juce, inbox>>
         /\ over' = "" => editor' = ShowLine(Opened(name), ln) /\ Opened(name) \in Editors
<1>1. UNCHANGED <<sources, bps, cache, cached, edits, juce, inbox>>
  BY DEF OnShowLocation
<1>2. CASE name \in sources
  <2>1. name \in Files /\ Open(name, ShowLine(Opened(name), ln)) /\ over' = over
    BY <1>2 DEF OnShowLocation, TypeOK, UiTypes
  <2>2. Opened(name) \in Editors /\ Opened(name).sfc = name
    BY <2>1, SourceOpened
  <2> DEFINE ed == ShowLine(Opened(name), ln)
  <2>3. ed \in Editors /\ ed.sfc = name /\ ed.text = Opened(name).text /\ ed.marks = Opened(name).marks
    BY <2>2, LineShown
  <2> HIDE DEF ed
  <2>4. /\ editor' \in Editors /\ docs' \in [Files -> Docs] /\ apart' \in BOOLEAN
        /\ later' \subseteq {"ReloadStylCache", "OnReloadLuaFunctions"} /\ editor' = ed
        /\ ~apart' => ed.marks = MarksIn(ed.text, BreakpointsOf(name, bps))
    BY <2>1, <2>3, OpenKeeps DEF ed
  <2>5. UiTypes'
    BY <1>1, <2>4 DEF TypeOK, UiTypes
  <2>6. MarksAreBreakpoints'
    BY <1>1, <2>3, <2>4 DEF MarksAreBreakpoints
  <2> QED  BY <1>1, <2>1, <2>2, <2>4, <2>5, <2>6 DEF ed
<1>3. CASE name \notin sources
  <2>1. over' = "assert(sfc)" /\ UNCHANGED <<docs, editor, later, apart>>
    BY <1>3 DEF OnShowLocation
  <2>2. UiTypes' /\ MarksAreBreakpoints'
    BY <1>1, <2>1 DEF TypeOK, UiTypes, MarksAreBreakpoints
  <2> QED  BY <1>1, <2>1, <2>2
<1> QED  BY <1>2, <1>3

\* The user chooses another source.
LEMMA PageKeeps ==
  ASSUME MarksInv, NEW f \in Files, ShowNotebookPage(f)
  PROVE  MarksInv'
<1>1. /\ TypeOK /\ MarksAreBreakpoints /\ f # editor.sfc /\ Open(f, Loaded(f))
      /\ UNCHANGED <<sources, bps, cache, cached, edits, juce, posted, inbox, over>>
  BY DEF ShowNotebookPage, MarksInv
<1>2. Loaded(f) \in Editors /\ Loaded(f).sfc = f /\ Opened(f) = Loaded(f)
  BY <1>1, SourceLoaded DEF Opened
<1>3. /\ editor' \in Editors /\ docs' \in [Files -> Docs] /\ apart' \in BOOLEAN
      /\ later' \subseteq {"ReloadStylCache", "OnReloadLuaFunctions"} /\ editor' = Loaded(f)
      /\ ~apart' => Loaded(f).marks = MarksIn(Loaded(f).text, BreakpointsOf(f, bps))
  BY <1>1, <1>2, OpenKeeps
<1>4. TypeOK'
  BY <1>1, <1>3 DEF TypeOK, UiTypes, ListTypes, juce
<1>5. MarksAreBreakpoints'
  BY <1>1, <1>2, <1>3 DEF MarksAreBreakpoints
<1> QED  BY <1>4, <1>5 DEF MarksInv

\* The text after a line end is typed or deleted, with the cursor and the marks it gets.
LEMMA TextEdited ==
  ASSUME TypeOK, NEW n \in 0..(NumLines - 1), InsertLine(n) \/ DeleteLine(n)
  PROVE  editor' \in Editors /\ editor'.sfc = editor.sfc
<1> DEFINE t == editor.text
<1>1. /\ editor \in [sfc : Files \cup {None}, text : Seq(Nat), marks : SUBSET Nat, cursor : Nat]
      /\ t \in Seq(Nat) /\ Len(t) \in Nat /\ n \in Nat /\ n < Len(t)
  BY DEF TypeOK, UiTypes, Editors, NumLines
<1>2. CASE InsertLine(n)
  <2> DEFINE new == InsertAt(t, n + 1, 0)
  <2>1. new \in Seq(Nat) /\ Len(new) = Len(t) + 1
    <3>1. new = SubSeq(t, 1, n) \o <<0>> \o SubSeq(t, n + 1, Len(t))
      <4>1. (n + 1) - 1 = n
        BY <1>1
      <4> QED  BY <4>1 DEF InsertAt
    <3>2. SubSeq(t, 1, n) \in Seq(Nat) /\ Len(SubSeq(t, 1, n)) = n
      BY <1>1
    <3>3. SubSeq(t, n + 1, Len(t)) \in Seq(Nat) /\ Len(SubSeq(t, n + 1, Len(t))) = Len(t) - n
      BY <1>1
    <3>4. <<0>> \in Seq(Nat) /\ Len(<<0>>) = 1
      OBVIOUS
    <3> DEFINE front == SubSeq(t, 1, n)
    <3> DEFINE back == SubSeq(t, n + 1, Len(t))
    <3> HIDE DEF new, front, back
    <3>5. front \o <<0>> \in Seq(Nat) /\ Len(front \o <<0>>) = n + 1
      BY <1>1, <3>2, <3>4, ConcatProperties DEF front
    <3>6. /\ (front \o <<0>>) \o back \in Seq(Nat)
          /\ Len((front \o <<0>>) \o back) = Len(front \o <<0>>) + Len(back)
      BY <3>3, <3>5, ConcatProperties DEF back
    <3>7. new = (front \o <<0>>) \o back
      BY <3>1 DEF front, back
    <3>8. Len(back) = Len(t) - n
      BY <3>3 DEF back
    <3>9. Len(new) = (n + 1) + (Len(t) - n)
      BY <3>5, <3>6, <3>7, <3>8
    <3>10. Len(new) = Len(t) + 1
      BY <1>1, <3>9
    <3> QED  BY <3>6, <3>7, <3>10
  <2> DEFINE marks == {IF k < n THEN k ELSE k + 1 : k \in editor.marks}
  <2>2. marks \in SUBSET Nat
    BY <1>1
  <2>3. editor' = [editor EXCEPT !.text = new, !.cursor = n + 1, !.marks = marks]
    BY <1>2 DEF InsertLine
  <2> HIDE DEF new, marks
  <2>4. n + 1 \in Nat /\ n + 1 < Len(new)
    BY <1>1, <2>1
  <2>5. editor' \in [sfc : Files \cup {None}, text : Seq(Nat), marks : SUBSET Nat, cursor : Nat]
    BY <1>1, <2>1, <2>2, <2>3, <2>4
  <2>6. editor'.cursor = n + 1 /\ editor'.text = new /\ editor'.sfc = editor.sfc
    BY <1>1, <2>3
  <2> QED  BY <2>4, <2>5, <2>6 DEF Editors
<1>3. CASE DeleteLine(n)
  <2> DEFINE new == RemoveAt(t, n + 1)
  <2>0. n > 0
    BY <1>3 DEF DeleteLine
  <2>1. new \in Seq(Nat) /\ Len(new) = Len(t) - 1
    <3>1. new = SubSeq(t, 1, n) \o SubSeq(t, n + 2, Len(t))
      <4>1. (n + 1) - 1 = n /\ (n + 1) + 1 = n + 2
        BY <1>1
      <4> QED  BY <4>1 DEF RemoveAt
    <3>2. SubSeq(t, 1, n) \in Seq(Nat) /\ Len(SubSeq(t, 1, n)) = n
      BY <1>1
    <3>3. SubSeq(t, n + 2, Len(t)) \in Seq(Nat) /\ Len(SubSeq(t, n + 2, Len(t))) = Len(t) - n - 1
      BY <1>1
    <3> HIDE DEF new
    <3> DEFINE front == SubSeq(t, 1, n)
    <3> DEFINE back == SubSeq(t, n + 2, Len(t))
    <3> HIDE DEF front, back
    <3>4. new = front \o back /\ front \in Seq(Nat) /\ back \in Seq(Nat)
      BY <3>1, <3>2, <3>3 DEF front, back
    <3>5. new \in Seq(Nat) /\ Len(new) = Len(front) + Len(back)
      BY Zenon, <3>4, ConcatProperties
    <3>6. Len(front) = n /\ Len(back) = Len(t) - n - 1
      BY <3>2, <3>3 DEF front, back
    <3>7. Len(new) = Len(t) - 1
      BY <1>1, <3>5, <3>6
    <3> QED  BY <3>5, <3>7
  <2> DEFINE marks == {IF k < n THEN k ELSE k - 1 : k \in editor.marks}
  <2>2. marks \in SUBSET Nat
    <3>1. \A k \in Nat : (IF k < n THEN k ELSE k - 1) \in Nat
      BY <1>1, <2>0
    <3> QED  BY <1>1, <3>1
  <2>3. editor' = [editor EXCEPT !.text = new, !.cursor = n - 1, !.marks = marks]
    BY <1>3 DEF DeleteLine
  <2> HIDE DEF new, marks
  <2>4. n - 1 \in Nat /\ n - 1 < Len(new)
    BY <1>1, <2>0, <2>1
  <2>5. editor' \in [sfc : Files \cup {None}, text : Seq(Nat), marks : SUBSET Nat, cursor : Nat]
    BY <1>1, <2>1, <2>2, <2>3, <2>4
  <2>6. editor'.cursor = n - 1 /\ editor'.text = new /\ editor'.sfc = editor.sfc
    BY <1>1, <2>3
  <2> QED  BY <2>4, <2>5, <2>6 DEF Editors
<1> QED  BY <1>2, <1>3

\* An edit that leaves the marks, and the lines of the breakpoints in the text, leaves them
\* the same.
LEMMA EditKeeps ==
  ASSUME MarksInv, NEW n \in 0..(NumLines - 1), EditText(n)
  PROVE  MarksInv'
<1> DEFINE ls == BreakpointsOf(editor.sfc, bps)
<1>1. /\ TypeOK /\ MarksAreBreakpoints /\ (InsertLine(n) \/ DeleteLine(n)) /\ edits' = edits + 1
      /\ later' = later \cup {"ReloadStylCache"}
      /\ UNCHANGED <<sources, docs, bps, cache, cached, juce, posted, inbox, over>>
  BY DEF EditText, OnTextModified, MarksInv
<1>2. apart' = (apart \/ editor'.marks # editor.marks
                     \/ MarksIn(editor'.text, ls) # MarksIn(editor.text, ls))
  BY DEF EditText
<1>3. editor' \in Editors /\ editor'.sfc = editor.sfc
  BY <1>1, TextEdited
<1>4. TypeOK'
  <2>1. apart' \in BOOLEAN
    BY <1>2
  <2>2. edits' \in Nat
    BY <1>1 DEF TypeOK, UiTypes
  <2> QED  BY <1>1, <1>3, <2>1, <2>2 DEF TypeOK, UiTypes, ListTypes, juce
<1>5. MarksAreBreakpoints'
  BY <1>1, <1>2, <1>3 DEF MarksAreBreakpoints
<1> QED  BY <1>4, <1>5 DEF MarksInv

\* The cursor is moved to a line of the text.
LEMMA GotoKeeps ==
  ASSUME MarksInv, NEW ln \in 1..NumLines, OnGotoLineNumber(ln)
  PROVE  MarksInv'
<1>1. /\ TypeOK /\ MarksAreBreakpoints /\ editor \in Editors /\ editor' = ShowLine(editor, ln)
      /\ UNCHANGED <<sources, docs, bps, cache, cached, later, edits, apart, juce, posted, inbox, over>>
  BY DEF OnGotoLineNumber, MarksInv, TypeOK, UiTypes
<1>2. ln \in Nat \ {0}
  BY <1>1 DEF NumLines, Editors
<1>3. /\ editor' \in Editors /\ editor'.sfc = editor.sfc /\ editor'.text = editor.text
      /\ editor'.marks = editor.marks
  BY <1>1, <1>2, LineShown
<1>4. TypeOK'
  BY <1>1, <1>3 DEF TypeOK, UiTypes, ListTypes, juce
<1>5. MarksAreBreakpoints'
  BY <1>1, <1>3 DEF MarksAreBreakpoints
<1> QED  BY <1>4, <1>5 DEF MarksInv

\* Breakpoints that are set draw their marks, over those of another source as well.
LEMMA SetKeeps ==
  ASSUME MarksInv, NEW f, NEW set \in SUBSET (Files \X Nat), SetBreakpoint(f, set)
  PROVE  MarksInv'
<1> DEFINE marks == MarksIn(editor.text, BreakpointsOf(f, set))
<1>1. /\ TypeOK /\ editor \in Editors /\ bps' = set /\ editor' = [editor EXCEPT !.marks = marks]
      /\ apart' = (f # editor.sfc)
      /\ UNCHANGED <<sources, docs, cache, cached, later, edits, juce, posted, inbox, over>>
  BY DEF SetBreakpoint, MarksInv, TypeOK, UiTypes
<1>2. marks \in SUBSET Nat
  BY DEF MarksIn, BreakpointsOf
<1>3. /\ editor' \in Editors /\ editor'.marks = marks /\ editor'.text = editor.text
      /\ editor'.sfc = editor.sfc
  <2> HIDE DEF marks
  <2> QED  BY <1>1, <1>2 DEF Editors
<1> HIDE DEF marks
<1>4. TypeOK'
  BY <1>1, <1>3 DEF TypeOK, UiTypes, ListTypes, juce
<1>5. MarksAreBreakpoints'
  BY <1>1, <1>3 DEF MarksAreBreakpoints, marks
<1> QED  BY <1>4, <1>5 DEF MarksInv

\* A breakpoint is set or taken away at a line.
LEMMA ToggleKeeps ==
  ASSUME MarksInv, NEW ln \in Nat, ToggleBreakpoint(ln)
  PROVE  MarksInv'
<1> DEFINE b == <<editor.sfc, ln>>
<1> DEFINE set == IF b \in bps THEN bps \ {b} ELSE bps \cup {b}
<1>1. editor.sfc \in Files /\ bps \subseteq Files \X Nat /\ SetBreakpoint(editor.sfc, set)
  BY DEF ToggleBreakpoint, MarksInv, TypeOK, UiTypes, Editors
<1>2. set \in SUBSET (Files \X Nat)
  BY <1>1
<1> HIDE DEF set
<1> QED  BY <1>1, <1>2, SetKeeps

\* A source is removed with its breakpoints, and another is shown, or none.
LEMMA DeleteKeeps ==
  ASSUME MarksInv, NEW f \in Files, DeleteSFC(f)
  PROVE  MarksInv'
<1>1. /\ TypeOK /\ MarksAreBreakpoints /\ sources' = sources \ {f} /\ bps' = {b \in bps : b[1] # f}
      /\ UNCHANGED <<cache, cached, edits, juce, posted, inbox, over>>
  BY DEF DeleteSFC, MarksInv
<1>2. sources' \subseteq Files /\ bps' \subseteq Files \X Nat /\ cache' \in Seq(Nat) /\ edits' \in Nat
      /\ cached' \in Nat
  BY <1>1 DEF TypeOK, UiTypes
<1>3. \A g : g # f => BreakpointsOf(g, bps') = BreakpointsOf(g, bps)
  BY <1>1 DEF BreakpointsOf
<1>4. ListTypes'
  BY <1>1 DEF TypeOK, ListTypes, juce
<1>5. CASE f # editor.sfc
  <2>1. UNCHANGED <<docs, editor, later, apart>>
    BY <1>5 DEF DeleteSFC
  <2>2. UiTypes'
    BY <1>1, <1>2, <2>1 DEF TypeOK, UiTypes
  <2>3. MarksAreBreakpoints'
    BY <1>1, <1>3, <1>5, <2>1 DEF MarksAreBreakpoints
  <2> QED  BY <1>4, <2>2, <2>3 DEF MarksInv, TypeOK
<1>6. ASSUME f = editor.sfc, NEW g \in sources', Open(g, Loaded(g))
      PROVE  MarksInv'
  <2>1. g \in Files /\ g # editor.sfc
    BY <1>1, <1>2, <1>6
  <2>2. Loaded(g) \in Editors /\ Loaded(g).sfc = g /\ Opened(g) = Loaded(g)
    BY <1>1, <2>1, SourceLoaded DEF Opened
  <2>3. /\ editor' \in Editors /\ docs' \in [Files -> Docs] /\ apart' \in BOOLEAN
        /\ later' \subseteq {"ReloadStylCache", "OnReloadLuaFunctions"} /\ editor' = Loaded(g)
        /\ ~apart' => Loaded(g).marks = MarksIn(Loaded(g).text, BreakpointsOf(g, bps))
    BY <1>1, <1>6, <2>1, <2>2, OpenKeeps
  <2>4. UiTypes'
    BY <1>2, <2>3 DEF UiTypes
  <2>5. MarksAreBreakpoints'
    BY <1>3, <1>6, <2>1, <2>2, <2>3 DEF MarksAreBreakpoints
  <2> QED  BY <1>4, <2>4, <2>5 DEF MarksInv, TypeOK
<1>7. ASSUME f = editor.sfc, docs' = Left, later' = later \ {"OnReloadLuaFunctions"}, apart' = FALSE,
             editor' = [sfc |-> None, text |-> << 0 >>, marks |-> {}, cursor |-> 0]
      PROVE  MarksInv'
  <2>1. docs' \in [Files -> Docs]
    BY <1>1, <1>7, SourceLeft
  <2>2. editor' \in Editors /\ editor'.sfc = None
    <3>1. <<0>> \in Seq(Nat) /\ Len(<<0>>) = 1 /\ 0 < 1
      OBVIOUS
    <3> QED  BY <1>7, <3>1 DEF Editors
  <2>3. UiTypes'
    BY <1>1, <1>2, <1>7, <2>1, <2>2 DEF UiTypes, TypeOK
  <2>4. MarksAreBreakpoints'
    BY <2>2 DEF MarksAreBreakpoints
  <2> QED  BY <1>4, <2>3, <2>4 DEF MarksInv, TypeOK
<1> QED  BY <1>5, <1>6, <1>7 DEF DeleteSFC

-----------------------------------------------------------------------------
(* What the daemon reports, and the list of functions. *)

\* A pause that is an error shows its line at once; either posts its location.
LEMMA SuspendedKeeps ==
  ASSUME MarksInv, NEW name \in Files \cup Foreign, NEW ln \in Nat \ {0}, NEW error,
         NotifySuspended(name, ln, error)
  PROVE  MarksInv' /\ \E p \in Places : posted' = Append(posted, p)
<1> DEFINE p == [name |-> name, line |-> ln, what |-> 0, of |-> 0]
<1>1. /\ TypeOK /\ MarksAreBreakpoints /\ posted' = Append(posted, p)
      /\ UNCHANGED <<sources, bps, cache, cached, edits, juce, inbox, over>>
  BY DEF NotifySuspended, MarksInv
<1>2. ListTypes' /\ p \in Places
  <2>1. p \in Places
    BY DEF Places, Names
  <2>2. posted \in Seq(Places)
    BY <1>1 DEF TypeOK, ListTypes
  <2> HIDE DEF p
  <2>3. posted' \in Seq(Places)
    BY <1>1, <2>1, <2>2
  <2> QED  BY <1>1, <2>1, <2>3 DEF TypeOK, ListTypes, juce
<1>3. CASE UNCHANGED <<editor, docs, later, apart>>
  <2>1. UiTypes' /\ MarksAreBreakpoints'
    BY <1>1, <1>3 DEF TypeOK, UiTypes, MarksAreBreakpoints
  <2> QED  BY <1>1, <1>2, <2>1 DEF MarksInv, TypeOK
<1>4. CASE name \in sources /\ Open(name, ShowLine(Opened(name), ln))
  <2>1. name \in Files
    BY <1>1, <1>4 DEF TypeOK, UiTypes
  <2>2. Opened(name) \in Editors /\ Opened(name).sfc = name
    BY <1>1, <2>1, SourceOpened
  <2> DEFINE ed == ShowLine(Opened(name), ln)
  <2>3. ed \in Editors /\ ed.sfc = name /\ ed.text = Opened(name).text /\ ed.marks = Opened(name).marks
    BY <2>2, LineShown
  <2> HIDE DEF ed
  <2>4. /\ editor' \in Editors /\ docs' \in [Files -> Docs] /\ apart' \in BOOLEAN
        /\ later' \subseteq {"ReloadStylCache", "OnReloadLuaFunctions"} /\ editor' = ed
        /\ ~apart' => ed.marks = MarksIn(ed.text, BreakpointsOf(name, bps))
    BY <1>1, <1>4, <2>1, <2>3, OpenKeeps DEF ed
  <2>5. UiTypes'
    BY <1>1, <2>4 DEF TypeOK, UiTypes
  <2>6. MarksAreBreakpoints'
    BY <1>1, <2>3, <2>4 DEF MarksAreBreakpoints
  <2> QED  BY <1>1, <1>2, <2>5, <2>6 DEF MarksInv, TypeOK
<1> QED  BY <1>3, <1>4 DEF NotifySuspended

\* The location that was posted first is shown.
LEMMA PostedKeeps ==
  ASSUME MarksInv, ShowPosted
  PROVE  /\ MarksInv' /\ posted # << >> /\ posted \in Seq(Places)
         /\ over' = "" => LET p == Head(posted)
                          IN Opened(p.name) \in Editors /\ editor' = ShowLine(Opened(p.name), p.line)
<1> DEFINE p == Head(posted)
<1>1. /\ TypeOK /\ MarksAreBreakpoints /\ posted \in Seq(Places) /\ posted # << >> /\ over = ""
      /\ posted' = Tail(posted) /\ OnShowLocation(p.name, p.line)
  BY DEF ShowPosted, MarksInv, TypeOK, ListTypes
<1>2. p \in Places /\ Tail(posted) \in Seq(Places)
  BY <1>1, HeadTailProperties
<1>3. p.line \in Nat \ {0}
  BY <1>2 DEF Places
<1> HIDE DEF p
<1>4. /\ UiTypes' /\ MarksAreBreakpoints'
      /\ over' \in {"", "assert(sfc)"} /\ UNCHANGED <<juce, inbox>>
      /\ over' = "" => editor' = ShowLine(Opened(p.name), p.line) /\ Opened(p.name) \in Editors
  BY <1>1, <1>3, LocationKeeps
<1>5. ListTypes'
  BY <1>1, <1>2, <1>4 DEF TypeOK, ListTypes, juce
<1> QED  BY <1>1, <1>4, <1>5 DEF MarksInv, TypeOK, p

\* A location shown at once leaves those that were posted.
LEMMA ShownKeeps ==
  ASSUME MarksInv, NEW name, NEW ln \in Nat \ {0}, over = "", OnShowLocation(name, ln), UNCHANGED posted
  PROVE  MarksInv'
<1>1. TypeOK /\ MarksAreBreakpoints
  BY DEF MarksInv
<1>2. /\ UiTypes' /\ MarksAreBreakpoints'
      /\ over' \in {"", "assert(sfc)"} /\ UNCHANGED <<juce, inbox>>
  BY <1>1, LocationKeeps
<1>3. ListTypes'
  BY <1>1, <1>2 DEF TypeOK, ListTypes, juce
<1> QED  BY <1>2, <1>3 DEF MarksInv, TypeOK

\* The list of functions is made of the cached text.
LEMMA ReloadKeeps ==
  ASSUME MarksInv, ReloadStylCache \/ OnReloadLuaFunctions
  PROVE  MarksInv' /\ UNCHANGED posted
<1>1. /\ TypeOK /\ MarksAreBreakpoints
      /\ UNCHANGED <<sources, docs, editor, bps, edits, apart, bound, pane, drawn, update, posted, over>>
      /\ cached' \in {cached, edits} /\ missed' \in BOOLEAN
  BY DEF MarksInv, TypeOK, ListTypes, ReloadStylCache, OnReloadLuaFunctions, juce
<1>2. MarksAreBreakpoints'
  BY <1>1 DEF MarksAreBreakpoints
<1>3. editor.text \in Seq(Nat) /\ NumLines \in Nat \ {0} /\ editor.sfc \in Files \cup {None}
  BY <1>1 DEF TypeOK, UiTypes, Editors, NumLines
<1>4. cache' \in Seq(Nat) /\ later' \subseteq {"ReloadStylCache", "OnReloadLuaFunctions"}
  BY <1>1, <1>3 DEF ReloadStylCache, OnReloadLuaFunctions, TypeOK, UiTypes
<1>5. inbox' \in Seq(Lists)
  <2>1. CASE ReloadStylCache
    BY <1>1, <2>1 DEF ReloadStylCache, TypeOK, ListTypes
  <2>2. CASE OnReloadLuaFunctions
    <3> DEFINE rows == FunctionsIn(cache, NumLines)
    <3>1. rows \in Seq(Rows)
      BY <1>1, <1>3, RowsOfText DEF TypeOK, UiTypes, Rows
    <3> DEFINE list == [shortname |-> editor.sfc, rows |-> rows, of |-> cached]
    <3>2. inbox' \in {inbox, Append(inbox, list)} /\ inbox \in Seq(Lists) /\ cached \in Nat
      BY <1>1, <2>2 DEF OnReloadLuaFunctions, TypeOK, UiTypes, ListTypes
    <3> HIDE DEF rows
    <3>3. list \in Lists
      BY <1>3, <3>1, <3>2 DEF Lists, Names
    <3> HIDE DEF list
    <3> QED  BY <3>2, <3>3
  <2> QED  BY <2>1, <2>2
<1>6. UiTypes'
  BY <1>1, <1>4 DEF TypeOK, UiTypes
<1>7. ListTypes'
  BY <1>1, <1>5 DEF TypeOK, ListTypes
<1> QED  BY <1>1, <1>2, <1>6, <1>7 DEF MarksInv, TypeOK

\* The other thread takes the list, draws it, and posts the location of a row.
LEMMA ListKeeps ==
  ASSUME MarksInv, SetEntries \/ HandleAsyncUpdate \/ Rebind \/ \E row \in 1..drawn : CellClicked(row)
  PROVE  MarksInv' /\ (posted' = posted \/ \E p \in Places : posted' = Append(posted, p))
<1>1. TypeOK /\ MarksAreBreakpoints /\ UNCHANGED ui
  BY DEF MarksInv, SetEntries, HandleAsyncUpdate, Rebind, CellClicked
<1>2. UiTypes' /\ MarksAreBreakpoints'
  BY <1>1 DEF TypeOK, UiTypes, MarksAreBreakpoints, ui
<1>6. CASE Rebind
  <2>1. bound' = TRUE /\ UNCHANGED <<missed, pane, drawn, update, posted, inbox, over>>
    BY <1>6 DEF Rebind
  <2>2. ListTypes'
    BY <1>1, <2>1 DEF TypeOK, ListTypes
  <2> QED  BY <1>2, <2>1, <2>2 DEF MarksInv, TypeOK
<1>3. CASE SetEntries
  <2>1. /\ inbox \in Seq(Lists) /\ inbox # << >> /\ pane' = Head(inbox) /\ inbox' = Tail(inbox)
        /\ update' = TRUE /\ UNCHANGED <<bound, missed, drawn, posted, over>>
    BY <1>1, <1>3 DEF SetEntries, TypeOK, ListTypes
  <2>2. pane' \in Lists /\ inbox' \in Seq(Lists)
    BY <2>1
  <2>3. ListTypes'
    BY <1>1, <2>1, <2>2 DEF TypeOK, ListTypes
  <2> QED  BY <1>2, <2>1, <2>3 DEF MarksInv, TypeOK
<1>4. CASE HandleAsyncUpdate
  <2>1. drawn' = Len(pane.rows) /\ update' = FALSE /\ UNCHANGED <<bound, missed, pane, posted, inbox, over>>
    BY <1>4 DEF HandleAsyncUpdate
  <2>2. pane.rows \in Seq(Rows)
    BY <1>1 DEF TypeOK, ListTypes, Lists
  <2>3. drawn' \in Nat
    BY <2>1, <2>2
  <2>4. ListTypes'
    BY <1>1, <2>1, <2>3 DEF TypeOK, ListTypes
  <2> QED  BY <1>2, <2>1, <2>4 DEF MarksInv, TypeOK
<1>5. ASSUME NEW row \in 1..drawn, CellClicked(row)
      PROVE  MarksInv' /\ (posted' = posted \/ \E p \in Places : posted' = Append(posted, p))
  <2>1. UNCHANGED <<juce, inbox>>
    BY <1>5 DEF CellClicked
  <2>2. CASE row > Len(pane.rows)
    <3>1. pane.rows \in Seq(Rows) /\ drawn \in Nat
      BY <1>1 DEF TypeOK, ListTypes, Lists
    <3>2. ~(row <= Len(pane.rows))
      BY <2>2, <3>1
    <3>3. over' = "assert(row < m_Bookmarks.size())" /\ UNCHANGED posted
      BY <1>5, <3>2 DEF CellClicked
    <3>4. ListTypes'
      BY <1>1, <2>1, <3>3 DEF TypeOK, ListTypes, juce
    <3> QED  BY <1>2, <3>3, <3>4 DEF MarksInv, TypeOK
  <2>3. CASE row <= Len(pane.rows)
    <3> DEFINE p == [name |-> pane.shortname, line |-> pane.rows[row].m_Line,
                     what |-> pane.rows[row].m_Name, of |-> pane.of]
    <3>1. UNCHANGED over /\ posted' = Append(posted, p)
      BY <1>5, <2>3 DEF CellClicked
    <3>2. pane.rows \in Seq(Rows) /\ pane.shortname \in Names /\ drawn \in Nat /\ posted \in Seq(Places)
      BY <1>1 DEF TypeOK, ListTypes, Lists
    <3>3. row \in 1..Len(pane.rows)
      BY <2>3, <3>2
    <3>4. pane.rows[row] \in Rows
      BY <3>2, <3>3
    <3>5. p \in Places
      <4>1. pane.of \in Nat
        BY <1>1 DEF TypeOK, ListTypes, Lists
      <4> QED  BY <3>2, <3>4, <4>1 DEF Places, Rows
    <3> HIDE DEF p
    <3>6. posted' \in Seq(Places)
      BY <3>1, <3>2, <3>5
    <3>7. ListTypes'
      BY <1>1, <2>1, <3>1, <3>6 DEF TypeOK, ListTypes, juce
    <3> QED  BY <1>2, <3>1, <3>5, <3>7 DEF MarksInv, TypeOK
  <2>4. row <= Len(pane.rows) \/ row > Len(pane.rows)
    <3>1. pane.rows \in Seq(Rows) /\ drawn \in Nat
      BY <1>1 DEF TypeOK, ListTypes, Lists
    <3> QED  BY <3>1
  <2> QED  BY <2>2, <2>3, <2>4
<1> QED  BY <1>3, <1>4, <1>5, <1>6

-----------------------------------------------------------------------------
(* The invariant, and the two properties. *)

\* A step takes the first location posted, and shows it, or leaves the locations, or posts
\* one more.
PostedStep ==
  \/ ShowPosted
  \/ posted' = posted
  \/ \E p \in Places : posted' = Append(posted, p)

\* The lines of a file on disk.
LEMMA DiskHasLines == OnDisk \in Seq(Nat) /\ Len(OnDisk) \in Nat
<1>1. OnDisk \in Seq(Nat \ {0})
  BY Zenon, MarksAssumption
<1>2. Len(OnDisk) \in Nat /\ OnDisk = [i \in 1..Len(OnDisk) |-> OnDisk[i]]
  BY <1>1
<1>3. \A i \in 1..Len(OnDisk) : OnDisk[i] \in Nat
  BY <1>1
<1> QED  BY <1>2, <1>3

\* Nothing is shown when the client starts.
LEMMA InitMarks ==
  ASSUME Init
  PROVE  MarksInv
<1>1. OnDisk \in Seq(Nat) /\ Len(OnDisk) \in Nat /\ 0 <= Len(OnDisk)
  BY DiskHasLines
<1>2. docs \in [Files -> Docs]
  <2> DEFINE d == [text |-> OnDisk, cursor |-> 0]
  <2>1. d \in Docs
    BY <1>1 DEF Docs
  <2>2. docs = [f \in Files |-> d]
    BY Zenon DEF Init
  <2> HIDE DEF d
  <2> QED  BY <2>1, <2>2
<1>3. editor \in Editors /\ editor.sfc = None
  <2>1. editor = [sfc |-> None, text |-> <<0>>, marks |-> {}, cursor |-> 0]
    BY Zenon DEF Init
  <2>2. <<0>> \in Seq(Nat) /\ Len(<<0>>) = 1
    OBVIOUS
  <2> QED  BY <2>1, <2>2 DEF Editors
<1>4. UiTypes
  <2>1. sources = Files /\ bps = {} /\ cache = << >> /\ later = {} /\ edits = 0 /\ apart = FALSE
        /\ cached = 0
    BY Zenon DEF Init
  <2>2. << >> \in Seq(Nat)
    OBVIOUS
  <2>3. cache \in Seq(Nat) /\ bps \subseteq Files \X Nat /\ sources \subseteq Files
    BY Zenon, <2>1, <2>2
  <2>4. later \subseteq {"ReloadStylCache", "OnReloadLuaFunctions"} /\ edits \in Nat /\ apart \in BOOLEAN
        /\ cached \in Nat
    BY <2>1
  <2> QED  BY Zenon, <1>2, <1>3, <2>3, <2>4 DEF UiTypes
<1>5. ListTypes
  <2>1. /\ bound = FALSE /\ missed = FALSE
        /\ pane = [shortname |-> None, rows |-> << >>, of |-> 0] /\ drawn = 0 /\ update = FALSE
        /\ posted = << >> /\ inbox = << >> /\ over = ""
    BY Zenon DEF Init
  <2>2. << >> \in Seq(Rows) /\ << >> \in Seq(Places) /\ << >> \in Seq(Lists)
    OBVIOUS
  <2>3. None \in Names
    BY DEF Names
  <2>4. pane \in Lists
    BY <2>1, <2>2, <2>3 DEF Lists
  <2>5. posted \in Seq(Places) /\ inbox \in Seq(Lists)
    BY Zenon, <2>1, <2>2
  <2>6. drawn \in Nat /\ update \in BOOLEAN /\ bound \in BOOLEAN /\ missed \in BOOLEAN
    BY <2>1
  <2> QED  BY Zenon, <2>1, <2>4, <2>5, <2>6 DEF ListTypes
<1>6. MarksAreBreakpoints
  BY <1>3 DEF MarksAreBreakpoints
<1> QED  BY <1>4, <1>5, <1>6 DEF MarksInv, TypeOK

\* Without a step nothing changes.
LEMMA StutterKeepsMarks ==
  ASSUME MarksInv, UNCHANGED vars
  PROVE  MarksInv' /\ PostedStep
<1>1. /\ TypeOK /\ MarksAreBreakpoints
      /\ UNCHANGED <<sources, docs, editor, bps, cache, cached, later, edits, apart>>
      /\ UNCHANGED <<bound, missed, pane, drawn, update, posted, inbox, over>>
  BY DEF MarksInv, vars, ui, juce
<1>2. TypeOK'
  BY <1>1 DEF TypeOK, UiTypes, ListTypes
<1>3. MarksAreBreakpoints'
  BY <1>1 DEF MarksAreBreakpoints
<1> QED  BY <1>1, <1>2, <1>3 DEF MarksInv, PostedStep

\* Every action keeps the invariant.
LEMMA NextKeepsMarks ==
  ASSUME MarksInv, Next
  PROVE  MarksInv' /\ PostedStep
<1>0. TypeOK /\ editor \in Editors /\ NumLines \in Nat /\ bps \subseteq Files \X Nat /\ sources \subseteq Files
  BY DEF MarksInv, TypeOK, UiTypes, Editors, NumLines
<1>1. CASE System
  <2>1. CASE ReloadStylCache \/ OnReloadLuaFunctions
    BY <2>1, ReloadKeeps DEF PostedStep
  <2>2. CASE SetEntries \/ HandleAsyncUpdate \/ Rebind
    BY <2>2, ListKeeps DEF PostedStep
  <2>3. CASE ShowPosted
    BY <2>3, PostedKeeps DEF PostedStep
  <2> QED  BY <1>1, <2>1, <2>2, <2>3 DEF System
<1>2. ASSUME NEW f \in Files, ShowNotebookPage(f) \/ DeleteSFC(f)
      PROVE  MarksInv' /\ PostedStep
  <2>1. UNCHANGED posted
    BY <1>2 DEF ShowNotebookPage, DeleteSFC
  <2> QED  BY <1>2, <2>1, PageKeeps, DeleteKeeps DEF PostedStep
<1>3. ASSUME NEW n \in 0..(NumLines - 1), EditText(n) \/ OnMarginClick(n)
      PROVE  MarksInv' /\ PostedStep
  <2>1. UNCHANGED posted
    BY <1>3 DEF EditText, OnMarginClick, ToggleBreakpoint, SetBreakpoint
  <2>2. n \in Nat
    BY <1>0
  <2> QED  BY <1>3, <2>1, <2>2, EditKeeps, ToggleKeeps DEF PostedStep, OnMarginClick
<1>4. ASSUME NEW n \in 1..NumLines, OnGotoLineNumber(n)
      PROVE  MarksInv' /\ PostedStep
  <2>1. UNCHANGED posted
    BY <1>4 DEF OnGotoLineNumber
  <2> QED  BY <1>4, <2>1, GotoKeeps DEF PostedStep
<1>5. CASE OnToggleSelectedBreakpoint
  <2>1. UNCHANGED posted
    BY <1>5 DEF OnToggleSelectedBreakpoint, ToggleBreakpoint, SetBreakpoint
  <2>2. editor.cursor \in Nat
    BY <1>0 DEF Editors
  <2> QED  BY <1>5, <2>1, <2>2, ToggleKeeps DEF PostedStep, OnToggleSelectedBreakpoint
<1>6. ASSUME NEW b \in bps, DeleteSelectedBreakpoint(b)
      PROVE  MarksInv' /\ PostedStep
  <2>1. UNCHANGED posted /\ SetBreakpoint(b[1], bps \ {b})
    BY <1>6 DEF DeleteSelectedBreakpoint, SetBreakpoint
  <2>2. bps \ {b} \in SUBSET (Files \X Nat)
    BY <1>0
  <2> QED  BY <2>1, <2>2, SetKeeps DEF PostedStep
<1>7. ASSUME NEW b \in bps, OnItemDoubleClick(b)
      PROVE  MarksInv' /\ PostedStep
  <2>1. over = "" /\ OnShowLocation(b[1], b[2] + 1) /\ UNCHANGED posted
    BY <1>7 DEF OnItemDoubleClick, UserEvent
  <2>2. b[2] + 1 \in Nat \ {0}
    BY <1>0
  <2> QED  BY <2>1, <2>2, ShownKeeps DEF PostedStep
<1>8. ASSUME NEW f \in Files \cup Foreign, NEW n \in 1..Len(OnDisk),
             OnItemActivated(f, n) \/ \E e \in BOOLEAN : NotifySuspended(f, n, e)
      PROVE  MarksInv' /\ PostedStep
  <2>1. n \in Nat \ {0}
    BY DiskHasLines
  <2>2. CASE OnItemActivated(f, n)
    <3>1. over = "" /\ OnShowLocation(f, n) /\ UNCHANGED posted
      BY <2>2 DEF OnItemActivated, UserEvent
    <3> QED  BY <2>1, <3>1, ShownKeeps DEF PostedStep
  <2>3. ASSUME NEW e \in BOOLEAN, NotifySuspended(f, n, e)
        PROVE  MarksInv' /\ PostedStep
    BY <2>1, <2>3, SuspendedKeeps DEF PostedStep
  <2> QED  BY <1>8, <2>2, <2>3
<1>9. ASSUME NEW n \in 1..drawn, CellClicked(n)
      PROVE  MarksInv' /\ PostedStep
  BY <1>9, ListKeeps DEF PostedStep
<1> QED  BY <1>1, <1>2, <1>3, <1>4, <1>5, <1>6, <1>7, <1>8, <1>9 DEF Next

\* A sequence with a first element is not empty, and its tail is one shorter.
LEMMA FirstOf ==
  ASSUME NEW S, NEW s \in Seq(S), 1 \in DOMAIN s
  PROVE  s # << >> /\ s[1] = Head(s) /\ s[1] \in S /\ Len(s) \in Nat /\ Len(Tail(s)) = Len(s) - 1
<1>1. s # << >> /\ s[1] = Head(s) /\ s[1] \in S /\ Len(s) \in Nat
  OBVIOUS
<1> QED  BY <1>1, HeadTailProperties

\* Only the action that shows the first location takes it.
LEMMA OnlyShownIsTaken ==
  ASSUME NEW s \in Seq(Places), Len(Tail(s)) = Len(s) - 1
  PROVE  Tail(s) # s /\ \A q \in Places : Tail(s) # Append(s, q)
<1>1. Len(s) \in Nat
  OBVIOUS
<1>2. Tail(s) # s
  BY <1>1
<1>3. ASSUME NEW q \in Places PROVE Tail(s) # Append(s, q)
  <2>1. Len(Append(s, q)) = Len(s) + 1
    BY AppendProperties
  <2> QED  BY <1>1, <2>1
<1> QED  BY <1>2, <1>3

\* The text of a source, in the editor or put aside.
TextIn(ed, d, f) == IF f = ed.sfc THEN ed.text ELSE d[f].text

\* A row names a line of its source that holds its function, unless lines came or went
\* since its text was cached.
At(f, ln, fn, of, n, ed, d) ==
  /\ of <= n
  /\ of = n => /\ f \in Files /\ ln \in 1..Len(TextIn(ed, d, f))
               /\ TextIn(ed, d, f)[ln] = fn
ListAt(l, n, ed, d) ==
  \A k \in DOMAIN l.rows : At(l.shortname, l.rows[k].m_Line, l.rows[k].m_Name, l.of, n, ed, d)
PlaceAt(p, n, ed, d) == p.what # 0 => At(p.name, p.line, p.what, p.of, n, ed, d)

\* What is scanned is the text in the editor, if no line came or went since it was cached.
CacheInv ==
  /\ later # {} => editor.sfc # None
  /\ cached <= edits
  /\ "OnReloadLuaFunctions" \in later /\ cached = edits => cache = editor.text

RowsInv ==
  /\ CacheInv /\ ListAt(pane, edits, editor, docs)
  /\ \A i \in DOMAIN inbox : ListAt(inbox[i], edits, editor, docs)
  /\ \A i \in DOMAIN posted : PlaceAt(posted[i], edits, editor, docs)

\* A line comes or goes, or every text keeps its lines.
Kept(n, ed, d, n2, ed2, d2) ==
  \/ n2 = n + 1
  \/ /\ n2 = n
     /\ \A f \in Files : \A ln \in 1..Len(TextIn(ed, d, f)) :
          ln \in 1..Len(TextIn(ed2, d2, f)) /\ TextIn(ed2, d2, f)[ln] = TextIn(ed, d, f)[ln]

\* What becomes of the locations and the lists.
PlacesStep ==
  \/ posted' = posted
  \/ posted # << >> /\ posted' = Tail(posted)
  \/ \E p \in Places : posted' = Append(posted, p) /\ PlaceAt(p, edits', editor', docs')
ListsStep ==
  \/ pane' = pane /\ inbox' = inbox
  \/ inbox # << >> /\ pane' = Head(inbox) /\ inbox' = Tail(inbox)
  \/ pane' = pane /\ \E l \in Lists : inbox' = Append(inbox, l) /\ ListAt(l, edits', editor', docs')

\* A row that leads to its function does so when the texts keep their lines.
LEMMA AtKept ==
  ASSUME NEW n \in Nat, NEW ed, NEW d, NEW n2, NEW ed2, NEW d2, Kept(n, ed, d, n2, ed2, d2),
         NEW f, NEW ln, NEW fn, NEW of \in Nat, At(f, ln, fn, of, n, ed, d)
  PROVE  At(f, ln, fn, of, n2, ed2, d2)
<1>1. CASE n2 = n + 1
  BY <1>1 DEF At
<1>2. CASE n2 = n /\ \A g \in Files : \A k \in 1..Len(TextIn(ed, d, g)) :
             k \in 1..Len(TextIn(ed2, d2, g)) /\ TextIn(ed2, d2, g)[k] = TextIn(ed, d, g)[k]
  BY <1>2 DEF At
<1> QED  BY <1>1, <1>2 DEF Kept

\* The elements of a sequence after its first is taken, or one is added.
LEMMA ElementsOf ==
  ASSUME NEW S, NEW s \in Seq(S)
  PROVE  /\ s # << >> => /\ Head(s) = s[1] /\ 1 \in DOMAIN s
                         /\ \A i \in DOMAIN Tail(s) : i + 1 \in DOMAIN s /\ Tail(s)[i] = s[i + 1]
         /\ \A e \in S : \A i \in DOMAIN Append(s, e) :
              (i \in DOMAIN s /\ Append(s, e)[i] = s[i]) \/ Append(s, e)[i] = e
<1>1. Len(s) \in Nat /\ DOMAIN s = 1..Len(s)
  OBVIOUS
<1>2. ASSUME s # << >>
      PROVE  /\ Head(s) = s[1] /\ 1 \in DOMAIN s
             /\ \A i \in DOMAIN Tail(s) : i + 1 \in DOMAIN s /\ Tail(s)[i] = s[i + 1]
  <2>1. Len(Tail(s)) = Len(s) - 1 /\ Len(s) # 0
    BY <1>1, <1>2
  <2> QED  BY <1>1, <1>2, <2>1
<1>3. ASSUME NEW e \in S, NEW i \in DOMAIN Append(s, e)
      PROVE  (i \in DOMAIN s /\ Append(s, e)[i] = s[i]) \/ Append(s, e)[i] = e
  <2>1. i \in 1..(Len(s) + 1)
    BY <1>3
  <2>2. CASE i = Len(s) + 1
    BY <1>1, <2>2
  <2>3. CASE i # Len(s) + 1
    <3>1. i \in 1..Len(s)
      BY <1>1, <2>1, <2>3
    <3> QED  BY <1>1, <3>1
  <2> QED  BY <2>2, <2>3
<1> QED  BY <1>2, <1>3

\* The rows on their way keep to their functions.
LEMMA RowsKept ==
  ASSUME TypeOK, RowsInv, Kept(edits, editor, docs, edits', editor', docs'), CacheInv', PlacesStep, ListsStep
  PROVE  RowsInv'
<1> DEFINE n == edits
<1> DEFINE n2 == edits'
<1> DEFINE ed == editor
<1> DEFINE ed2 == editor'
<1> DEFINE d == docs
<1> DEFINE d2 == docs'
<1>1. n \in Nat /\ pane \in Lists /\ inbox \in Seq(Lists) /\ posted \in Seq(Places)
  BY DEF TypeOK, UiTypes, ListTypes
<1>2. \A f, ln, fn : \A of \in Nat : At(f, ln, fn, of, n, ed, d) => At(f, ln, fn, of, n2, ed2, d2)
  BY <1>1, AtKept
<1>3. \A l \in Lists : ListAt(l, n, ed, d) => ListAt(l, n2, ed2, d2)
  <2>1. \A l \in Lists : l.of \in Nat
    BY DEF Lists
  <2> HIDE DEF n, n2, ed, ed2, d, d2
  <2> QED  BY <1>2, <2>1 DEF ListAt
<1>4. \A p \in Places : PlaceAt(p, n, ed, d) => PlaceAt(p, n2, ed2, d2)
  <2>1. \A p \in Places : p.of \in Nat
    BY DEF Places
  <2> HIDE DEF n, n2, ed, ed2, d, d2
  <2> QED  BY <1>2, <2>1 DEF PlaceAt
<1>5. /\ ListAt(pane, n, ed, d)
      /\ \A i \in DOMAIN inbox : inbox[i] \in Lists /\ ListAt(inbox[i], n, ed, d)
      /\ \A i \in DOMAIN posted : posted[i] \in Places /\ PlaceAt(posted[i], n, ed, d)
  BY <1>1 DEF RowsInv
<1> HIDE DEF n, n2, ed, ed2, d, d2
<1>6. /\ ListAt(pane, n2, ed2, d2)
      /\ \A i \in DOMAIN inbox : ListAt(inbox[i], n2, ed2, d2)
      /\ \A i \in DOMAIN posted : PlaceAt(posted[i], n2, ed2, d2)
  BY <1>1, <1>3, <1>4, <1>5
<1>7. \A i \in DOMAIN posted' : PlaceAt(posted'[i], n2, ed2, d2)
  <2>1. CASE posted' = posted
    BY <1>6, <2>1
  <2>2. CASE posted # << >> /\ posted' = Tail(posted)
    <3>1. \A i \in DOMAIN Tail(posted) : i + 1 \in DOMAIN posted /\ Tail(posted)[i] = posted[i + 1]
      BY Zenon, <1>1, <2>2, ElementsOf
    <3> QED  BY <1>6, <2>2, <3>1
  <2>3. ASSUME NEW p \in Places, posted' = Append(posted, p), PlaceAt(p, n2, ed2, d2)
        PROVE  \A i \in DOMAIN posted' : PlaceAt(posted'[i], n2, ed2, d2)
    <3>0. \A e \in Places : \A i \in DOMAIN Append(posted, e) :
            (i \in DOMAIN posted /\ Append(posted, e)[i] = posted[i]) \/ Append(posted, e)[i] = e
      BY <1>1, ElementsOf
    <3>1. \A i \in DOMAIN Append(posted, p) :
            (i \in DOMAIN posted /\ Append(posted, p)[i] = posted[i]) \/ Append(posted, p)[i] = p
      BY <2>3, <3>0
    <3> QED  BY Zenon, <1>6, <2>3, <3>1
  <2> QED  BY Zenon, <2>1, <2>2, <2>3 DEF PlacesStep, n2, ed2, d2
<1>8. ListAt(pane', n2, ed2, d2) /\ \A i \in DOMAIN inbox' : ListAt(inbox'[i], n2, ed2, d2)
  <2>1. CASE pane' = pane /\ inbox' = inbox
    BY <1>6, <2>1
  <2>2. CASE inbox # << >> /\ pane' = Head(inbox) /\ inbox' = Tail(inbox)
    <3>1. /\ Head(inbox) = inbox[1] /\ 1 \in DOMAIN inbox
          /\ \A i \in DOMAIN Tail(inbox) : i + 1 \in DOMAIN inbox /\ Tail(inbox)[i] = inbox[i + 1]
      BY Zenon, <1>1, <2>2, ElementsOf
    <3> QED  BY <1>6, <2>2, <3>1
  <2>3. ASSUME pane' = pane, NEW l \in Lists, inbox' = Append(inbox, l), ListAt(l, n2, ed2, d2)
        PROVE  ListAt(pane', n2, ed2, d2) /\ \A i \in DOMAIN inbox' : ListAt(inbox'[i], n2, ed2, d2)
    <3>0. \A e \in Lists : \A i \in DOMAIN Append(inbox, e) :
            (i \in DOMAIN inbox /\ Append(inbox, e)[i] = inbox[i]) \/ Append(inbox, e)[i] = e
      BY <1>1, ElementsOf
    <3>1. \A i \in DOMAIN Append(inbox, l) :
            (i \in DOMAIN inbox /\ Append(inbox, l)[i] = inbox[i]) \/ Append(inbox, l)[i] = l
      BY <2>3, <3>0
    <3>2. ListAt(pane', n2, ed2, d2)
      BY <1>6, <2>3
    <3>3. \A i \in DOMAIN inbox' : ListAt(inbox'[i], n2, ed2, d2)
      BY Zenon, <1>6, <2>3, <3>1
    <3> QED  BY <3>2, <3>3
  <2> QED  BY Zenon, <2>1, <2>2, <2>3 DEF ListsStep, n2, ed2, d2
<1>9. CacheInv'
  OBVIOUS
<1> QED  BY Zenon, <1>7, <1>8, <1>9 DEF RowsInv, n2, ed2, d2

\* The texts, and what is to be scanned, of a step that leaves them alone.
TextsStep == Kept(edits, editor, docs, edits', editor', docs') /\ CacheInv'

\* Marks and the cursor are not the text.
LEMMA TextsAlone ==
  ASSUME TypeOK, CacheInv, UNCHANGED <<docs, cache, cached, later, edits>>,
         editor'.sfc = editor.sfc, editor'.text = editor.text
  PROVE  TextsStep
<1>1. \A f : TextIn(editor', docs', f) = TextIn(editor, docs, f)
  BY DEF TextIn
<1>2. Kept(edits, editor, docs, edits', editor', docs')
  BY <1>1 DEF Kept
<1>3. CacheInv'
  BY DEF CacheInv
<1> QED  BY <1>2, <1>3 DEF TextsStep

\* The line end a source gets when it is shown is after its lines.
LEMMA LoadedAfter ==
  ASSUME NEW t \in Seq(Nat), NEW ln \in 1..Len(t)
  PROVE  ln \in 1..Len(Append(t, 0)) /\ Append(t, 0)[ln] = t[ln]
OBVIOUS

\* A source that is opened, and the one put aside, keep their lines.
LEMMA OpenTexts ==
  ASSUME TypeOK, CacheInv, NEW f \in Files, NEW ed, Open(f, ed), ed.sfc = f,
         ed.text = Opened(f).text, UNCHANGED <<cache, cached, edits>>
  PROVE  TextsStep
<1>1. /\ editor' = ed /\ editor \in Editors /\ docs \in [Files -> Docs] /\ f # None
      /\ docs[f].text \in Seq(Nat)
  BY MarksAssumption DEF Open, TypeOK, UiTypes, Docs, None
<1>2. CASE f = editor.sfc
  <2>1. ed.text = editor.text /\ UNCHANGED <<docs, later>>
    BY <1>2 DEF Open, Opened
  <2> QED  BY <1>1, <1>2, <2>1, TextsAlone
<1>3. CASE f # editor.sfc
  <2>1. /\ ed.text = Append(docs[f].text, 0) /\ docs' = Left
        /\ later' = (later \ {"OnReloadLuaFunctions"}) \cup {"ReloadStylCache"}
    BY <1>3 DEF Open, Opened, Loaded
  <2>2. ASSUME NEW g \in Files, NEW ln \in 1..Len(TextIn(editor, docs, g))
        PROVE  /\ ln \in 1..Len(TextIn(editor', docs', g))
               /\ TextIn(editor', docs', g)[ln] = TextIn(editor, docs, g)[ln]
    <3>1. CASE g = f
      <4>1. TextIn(editor, docs, g) = docs[f].text /\ TextIn(editor', docs', g) = Append(docs[f].text, 0)
        BY <1>1, <1>3, <2>1, <3>1 DEF TextIn
      <4> QED  BY <1>1, <2>2, <4>1, LoadedAfter
    <3>2. CASE g # f /\ g = editor.sfc
      <4>1. editor.sfc # None /\ docs' = [docs EXCEPT ![g] = [text |-> editor.text, cursor |-> editor.cursor]]
        BY <2>1, <3>2, MarksAssumption DEF Left, None
      <4>2. docs'[g].text = editor.text
        BY <1>1, <4>1
      <4>3. TextIn(editor', docs', g) = TextIn(editor, docs, g)
        BY <1>1, <3>2, <4>2 DEF TextIn
      <4> QED  BY <2>2, <4>3
    <3>3. CASE g # f /\ g # editor.sfc
      <4>1. docs'[g] = docs[g]
        BY <1>1, <2>1, <3>3 DEF Left
      <4>2. TextIn(editor', docs', g) = TextIn(editor, docs, g)
        BY <1>1, <3>3, <4>1 DEF TextIn
      <4> QED  BY <2>2, <4>2
    <3> QED  BY <3>1, <3>2, <3>3
  <2>3. Kept(edits, editor, docs, edits', editor', docs')
    BY <2>2 DEF Kept
  <2>4. CacheInv'
    BY <1>1, <2>1 DEF CacheInv
  <2> QED  BY <2>3, <2>4 DEF TextsStep
<1> QED  BY <1>2, <1>3

\* A location shows a source, or ends the client.
LEMMA LocationTexts ==
  ASSUME TypeOK, CacheInv, NEW name, NEW ln \in Nat \ {0}, OnShowLocation(name, ln)
  PROVE  TextsStep
<1>1. UNCHANGED <<cache, cached, edits>>
  BY DEF OnShowLocation
<1>2. CASE name \in sources
  <2>1. name \in Files /\ Open(name, ShowLine(Opened(name), ln))
    BY <1>2 DEF OnShowLocation, TypeOK, UiTypes
  <2>2. Opened(name) \in Editors /\ Opened(name).sfc = name
    BY <2>1, SourceOpened
  <2> DEFINE ed == ShowLine(Opened(name), ln)
  <2>3. ed.sfc = name /\ ed.text = Opened(name).text
    BY <2>2, LineShown
  <2> HIDE DEF ed
  <2> QED  BY <1>1, <2>1, <2>3, OpenTexts DEF ed
<1>3. CASE name \notin sources
  <2>1. UNCHANGED <<docs, editor, later>>
    BY <1>3 DEF OnShowLocation
  <2> QED  BY <1>1, <2>1, TextsAlone
<1> QED  BY <1>2, <1>3

\* A line typed or deleted ages every list, and what is to be scanned.
LEMMA EditTexts ==
  ASSUME TypeOK, CacheInv, NEW n \in 0..(NumLines - 1), EditText(n)
  PROVE  TextsStep
<1>1. /\ edits' = edits + 1 /\ edits \in Nat /\ cached \in Nat /\ UNCHANGED <<cache, cached>>
      /\ InsertLine(n) \/ DeleteLine(n)
  BY DEF EditText, TypeOK, UiTypes
<1>2. editor'.sfc = editor.sfc /\ editor.sfc # None
  BY <1>1, TextEdited DEF InsertLine, DeleteLine
<1>3. CacheInv'
  BY <1>1, <1>2 DEF CacheInv
<1> QED  BY <1>1, <1>3 DEF TextsStep, Kept

\* The text of a source that is deleted is put aside, like any the editor leaves.
LEMMA DeleteTexts ==
  ASSUME TypeOK, CacheInv, NEW f \in Files, DeleteSFC(f)
  PROVE  TextsStep
<1>1. UNCHANGED <<cache, cached, edits>> /\ sources' \subseteq Files /\ "ReloadStylCache" \notin later
  BY DEF DeleteSFC, UserEvent, TypeOK, UiTypes
<1>2. CASE UNCHANGED <<docs, editor, later, apart>>
  BY <1>1, <1>2, TextsAlone
<1>3. ASSUME f = editor.sfc, NEW g \in sources', Open(g, Loaded(g))
      PROVE  TextsStep
  <2>1. g \in Files /\ g # editor.sfc /\ Opened(g) = Loaded(g)
    BY <1>1, <1>3 DEF DeleteSFC, Opened
  <2>2. Loaded(g).sfc = g
    BY <2>1, SourceLoaded
  <2> QED  BY <1>1, <1>3, <2>1, <2>2, OpenTexts
<1>4. ASSUME f = editor.sfc, docs' = Left, later' = later \ {"OnReloadLuaFunctions"},
             editor' = [sfc |-> None, text |-> << 0 >>, marks |-> {}, cursor |-> 0]
      PROVE  TextsStep
  <2>1. later' = {}
    BY <1>1, <1>4 DEF TypeOK, UiTypes
  <2>2. f # None /\ editor'.sfc = None
    BY <1>4, MarksAssumption DEF None
  <2>3. docs \in [Files -> Docs] /\ docs' = [docs EXCEPT ![f] = [text |-> editor.text, cursor |-> editor.cursor]]
    BY <1>4, <2>2 DEF Left, TypeOK, UiTypes
  <2>4. \A g \in Files : TextIn(editor', docs', g) = TextIn(editor, docs, g)
    <3> SUFFICES ASSUME NEW g \in Files PROVE TextIn(editor', docs', g) = TextIn(editor, docs, g)
      OBVIOUS
    <3>1. g # None
      BY MarksAssumption DEF None
    <3>2. docs'[g].text = IF g = f THEN editor.text ELSE docs[g].text
      BY <2>3
    <3> QED  BY <1>4, <2>2, <3>1, <3>2 DEF TextIn
  <2>5. Kept(edits, editor, docs, edits', editor', docs')
    BY <1>1, <2>4 DEF Kept
  <2>6. CacheInv'
    BY <1>1, <2>1 DEF CacheInv
  <2> QED  BY <2>5, <2>6 DEF TextsStep
<1> QED  BY <1>2, <1>3, <1>4 DEF DeleteSFC

\* A pause that is an error shows its line at once; its location is no function's.
LEMMA SuspendedTexts ==
  ASSUME TypeOK, CacheInv, NEW name \in Files \cup Foreign, NEW ln \in Nat \ {0}, NEW error,
         NotifySuspended(name, ln, error)
  PROVE  TextsStep /\ PlacesStep /\ ListsStep
<1> DEFINE p == [name |-> name, line |-> ln, what |-> 0, of |-> 0]
<1>1. /\ UNCHANGED <<cache, cached, edits, pane, inbox>> /\ posted' = Append(posted, p)
  BY DEF NotifySuspended, juce
<1>2. p \in Places /\ PlaceAt(p, edits', editor', docs')
  BY DEF Places, Names, PlaceAt
<1> HIDE DEF p
<1>3. PlacesStep /\ ListsStep
  BY <1>1, <1>2 DEF PlacesStep, ListsStep
<1>4. CASE UNCHANGED <<editor, docs, later, apart>>
  BY <1>1, <1>3, <1>4, TextsAlone
<1>5. CASE name \in sources /\ Open(name, ShowLine(Opened(name), ln))
  <2>1. name \in Files
    BY <1>5 DEF TypeOK, UiTypes
  <2>2. Opened(name) \in Editors /\ Opened(name).sfc = name
    BY <2>1, SourceOpened
  <2> DEFINE ed == ShowLine(Opened(name), ln)
  <2>3. ed.sfc = name /\ ed.text = Opened(name).text
    BY <2>2, LineShown
  <2> HIDE DEF ed
  <2>4. TextsStep
    BY <1>1, <1>5, <2>1, <2>3, OpenTexts DEF ed
  <2> QED  BY <1>3, <2>4
<1> QED  BY <1>4, <1>5 DEF NotifySuspended

\* The cache is taken of the text shown, and the list made of the cache.
LEMMA ScanTexts ==
  ASSUME TypeOK, CacheInv, ReloadStylCache \/ OnReloadLuaFunctions
  PROVE  TextsStep /\ PlacesStep /\ ListsStep
<1>1. UNCHANGED <<editor, docs, edits, posted, pane>> /\ edits \in Nat
  BY DEF ReloadStylCache, OnReloadLuaFunctions, juce, TypeOK, UiTypes
<1>2. Kept(edits, editor, docs, edits', editor', docs') /\ PlacesStep
  BY <1>1 DEF Kept, PlacesStep
<1>3. CASE ReloadStylCache
  <2>1. /\ "ReloadStylCache" \in later /\ cache' = editor.text /\ cached' = edits
        /\ inbox' = inbox
    BY <1>3 DEF ReloadStylCache
  <2>2. CacheInv'
    BY <1>1, <2>1 DEF CacheInv
  <2> QED  BY <1>1, <1>2, <2>1, <2>2 DEF TextsStep, ListsStep
<1>4. CASE OnReloadLuaFunctions
  <2>1. /\ "OnReloadLuaFunctions" \in later /\ later' = later \ {"OnReloadLuaFunctions"}
        /\ UNCHANGED <<cache, cached>>
    BY <1>4 DEF OnReloadLuaFunctions
  <2>2. CacheInv'
    BY <1>1, <2>1 DEF CacheInv
  <2> DEFINE rows == FunctionsIn(cache, NumLines)
  <2> DEFINE list == [shortname |-> editor.sfc, rows |-> rows, of |-> cached]
  <2>3. inbox' = inbox \/ inbox' = Append(inbox, list)
    BY <1>4 DEF OnReloadLuaFunctions
  <2>4. /\ cache \in Seq(Nat) /\ NumLines \in Nat \ {0} /\ cached \in Nat /\ cached <= edits
        /\ NumLines = Len(editor.text) /\ editor.sfc \in Files \cup {None} /\ editor.sfc # None
    BY <2>1 DEF TypeOK, UiTypes, Editors, NumLines, CacheInv
  <2>5. /\ rows \in Seq(Rows)
        /\ NumLines = Len(cache) =>
             \A k \in DOMAIN rows : rows[k].m_Line \in 1..Len(cache) /\ cache[rows[k].m_Line] = rows[k].m_Name
    BY <2>4, RowsOfText DEF Rows
  <2> HIDE DEF rows
  <2>6. list \in Lists
    BY <2>4, <2>5 DEF Lists, Names
  <2>7. ListAt(list, edits', editor', docs')
    <3> SUFFICES ASSUME NEW k \in DOMAIN rows
                 PROVE  At(editor.sfc, rows[k].m_Line, rows[k].m_Name, cached, edits, editor, docs)
      BY <1>1 DEF ListAt
    <3>1. CASE cached # edits
      BY <2>4, <3>1 DEF At
    <3>2. CASE cached = edits
      <4>1. cache = editor.text /\ NumLines = Len(cache)
        BY <2>1, <2>4, <3>2 DEF CacheInv
      <4>2. rows[k].m_Line \in 1..Len(editor.text) /\ editor.text[rows[k].m_Line] = rows[k].m_Name
        BY <2>5, <4>1
      <4> QED  BY <2>4, <4>2 DEF At, TextIn
    <3> QED  BY <3>1, <3>2
  <2> HIDE DEF list
  <2>8. ListsStep
    BY <1>1, <2>3, <2>6, <2>7 DEF ListsStep
  <2> QED  BY <1>2, <2>2, <2>8 DEF TextsStep
<1> QED  BY <1>3, <1>4

\* The list's own thread: it is connected, takes a list, draws it, or a row is chosen.
LEMMA ListTexts ==
  ASSUME TypeOK, RowsInv, SetEntries \/ HandleAsyncUpdate \/ Rebind \/ \E row \in 1..drawn : CellClicked(row)
  PROVE  TextsStep /\ PlacesStep /\ ListsStep
<1>1. CacheInv /\ UNCHANGED ui
  BY DEF RowsInv, SetEntries, HandleAsyncUpdate, Rebind, CellClicked
<1>2. TextsStep
  BY <1>1, TextsAlone DEF ui
<1>3. CASE SetEntries \/ HandleAsyncUpdate \/ Rebind
  BY <1>2, <1>3 DEF SetEntries, HandleAsyncUpdate, Rebind, PlacesStep, ListsStep
<1>4. ASSUME NEW row \in 1..drawn, CellClicked(row)
      PROVE  PlacesStep /\ ListsStep
  <2>1. UNCHANGED <<pane, inbox>>
    BY <1>4 DEF CellClicked, juce
  <2> DEFINE p == [name |-> pane.shortname, line |-> pane.rows[row].m_Line,
                   what |-> pane.rows[row].m_Name, of |-> pane.of]
  <2>2. CASE posted' = posted
    BY <2>1, <2>2 DEF PlacesStep, ListsStep
  <2>3. CASE row <= Len(pane.rows) /\ posted' = Append(posted, p)
    <3>1. /\ pane.rows \in Seq(Rows) /\ pane.shortname \in Names /\ pane.of \in Nat /\ drawn \in Nat
          /\ ListAt(pane, edits, editor, docs)
      BY DEF TypeOK, ListTypes, Lists, RowsInv
    <3>2. row \in DOMAIN pane.rows /\ pane.rows[row] \in Rows
      BY <2>3, <3>1
    <3>3. p \in Places
      BY <3>1, <3>2 DEF Places, Rows
    <3>4. PlaceAt(p, edits, editor, docs)
      BY <3>1, <3>2 DEF PlaceAt, ListAt
    <3>5. edits' = edits /\ editor' = editor /\ docs' = docs
      BY <1>1 DEF ui
    <3> HIDE DEF p
    <3> QED  BY <2>1, <2>3, <3>3, <3>4, <3>5 DEF PlacesStep, ListsStep
  <2> QED  BY <1>4, <2>2, <2>3 DEF CellClicked
<1> QED  BY <1>2, <1>3, <1>4

\* Nothing is listed when the client starts.
LEMMA InitRows ==
  ASSUME Init
  PROVE  RowsInv
<1>1. later = {} /\ edits = 0 /\ cached = 0 /\ posted = << >> /\ inbox = << >>
  BY DEF Init
<1>2. pane.rows = << >>
  BY DEF Init
<1> QED  BY <1>1, <1>2 DEF RowsInv, CacheInv, ListAt

\* Every step keeps the rows to their functions.
LEMMA NextKeepsRows ==
  ASSUME MarksInv, RowsInv, [Next]_vars
  PROVE  RowsInv'
<1>0. /\ TypeOK /\ CacheInv /\ editor \in Editors /\ NumLines \in Nat /\ bps \subseteq Files \X Nat
  BY DEF MarksInv, RowsInv, TypeOK, UiTypes, Editors, NumLines
<1> DEFINE Step == TextsStep /\ PlacesStep /\ ListsStep
<1> SUFFICES Step
  BY <1>0, RowsKept DEF TextsStep
<1>1. CASE System
  <2>1. CASE ReloadStylCache \/ OnReloadLuaFunctions
    BY <1>0, <2>1, ScanTexts
  <2>2. CASE SetEntries \/ HandleAsyncUpdate \/ Rebind
    BY <1>0, <2>2, ListTexts
  <2>3. CASE ShowPosted
    <3>1. /\ posted \in Seq(Places) /\ posted # << >> /\ posted' = Tail(posted)
          /\ OnShowLocation(Head(posted).name, Head(posted).line) /\ UNCHANGED <<pane, inbox>>
      BY <1>0, <2>3 DEF ShowPosted, OnShowLocation, TypeOK, ListTypes, juce
    <3>2. Head(posted).line \in Nat \ {0}
      <4>1. Head(posted) \in Places
        BY <3>1
      <4> QED  BY <4>1 DEF Places
    <3>3. TextsStep
      BY <1>0, <3>1, <3>2, LocationTexts
    <3> QED  BY <3>1, <3>3 DEF PlacesStep, ListsStep
  <2> QED  BY <1>1, <2>1, <2>2, <2>3 DEF System
<1>2. ASSUME NEW f \in Files, ShowNotebookPage(f) \/ DeleteSFC(f)
      PROVE  Step
  <2>1. PlacesStep /\ ListsStep
    BY <1>2 DEF ShowNotebookPage, DeleteSFC, juce, PlacesStep, ListsStep
  <2>2. CASE ShowNotebookPage(f)
    <3>1. f # editor.sfc /\ Open(f, Loaded(f)) /\ UNCHANGED <<cache, cached, edits>> /\ Opened(f) = Loaded(f)
      BY <2>2 DEF ShowNotebookPage, Opened
    <3>2. Loaded(f).sfc = f
      BY <1>0, SourceLoaded
    <3> QED  BY <1>0, <2>1, <3>1, <3>2, OpenTexts
  <2> QED  BY <1>0, <1>2, <2>1, <2>2, DeleteTexts
<1>3. ASSUME NEW f, NEW set, SetBreakpoint(f, set)
      PROVE  Step
  <2>1. /\ UNCHANGED <<docs, cache, cached, later, edits, posted, pane, inbox>>
        /\ editor'.sfc = editor.sfc /\ editor'.text = editor.text
    BY <1>0, <1>3 DEF SetBreakpoint, juce, Editors
  <2> QED  BY <1>0, <2>1, TextsAlone DEF PlacesStep, ListsStep
<1>4. ASSUME NEW n \in 0..(NumLines - 1), EditText(n) \/ OnMarginClick(n)
      PROVE  Step
  <2>1. CASE EditText(n)
    <3>1. PlacesStep /\ ListsStep
      BY <2>1 DEF EditText, juce, PlacesStep, ListsStep
    <3> QED  BY <1>0, <2>1, <3>1, EditTexts
  <2>2. CASE OnMarginClick(n)
    BY <1>3, <2>2 DEF OnMarginClick, ToggleBreakpoint
  <2> QED  BY <1>4, <2>1, <2>2
<1>5. ASSUME NEW n \in 1..NumLines, OnGotoLineNumber(n)
      PROVE  Step
  <2>1. n \in Nat \ {0} /\ editor' = ShowLine(editor, n)
        /\ UNCHANGED <<docs, cache, cached, later, edits, posted, pane, inbox>>
    BY <1>0, <1>5 DEF OnGotoLineNumber, juce
  <2>2. editor'.sfc = editor.sfc /\ editor'.text = editor.text
    BY <1>0, <2>1, LineShown
  <2> QED  BY <1>0, <2>1, <2>2, TextsAlone DEF PlacesStep, ListsStep
<1>6. CASE OnToggleSelectedBreakpoint
  BY <1>3, <1>6 DEF OnToggleSelectedBreakpoint, ToggleBreakpoint
<1>7. ASSUME NEW name, NEW ln \in Nat \ {0}, OnShowLocation(name, ln), UNCHANGED posted
      PROVE  Step
  <2>1. UNCHANGED <<pane, inbox>>
    BY <1>7 DEF OnShowLocation, juce
  <2>2. TextsStep
    BY <1>0, <1>7, LocationTexts
  <2> QED  BY <1>7, <2>1, <2>2 DEF PlacesStep, ListsStep
<1>8. ASSUME NEW b \in bps, DeleteSelectedBreakpoint(b) \/ OnItemDoubleClick(b)
      PROVE  Step
  <2>1. CASE DeleteSelectedBreakpoint(b)
    BY <1>3, <2>1 DEF DeleteSelectedBreakpoint
  <2>2. CASE OnItemDoubleClick(b)
    <3>1. b[2] + 1 \in Nat \ {0}
      BY <1>0
    <3> QED  BY <1>7, <2>2, <3>1 DEF OnItemDoubleClick
  <2> QED  BY <1>8, <2>1, <2>2
<1>9. ASSUME NEW f \in Files \cup Foreign, NEW n \in 1..Len(OnDisk),
             OnItemActivated(f, n) \/ \E e \in BOOLEAN : NotifySuspended(f, n, e)
      PROVE  Step
  <2>1. n \in Nat \ {0}
    BY DiskHasLines
  <2>2. CASE OnItemActivated(f, n)
    BY <1>7, <2>1, <2>2 DEF OnItemActivated
  <2>3. ASSUME NEW e \in BOOLEAN, NotifySuspended(f, n, e)
        PROVE  Step
    BY <1>0, <2>1, <2>3, SuspendedTexts
  <2> QED  BY <1>9, <2>2, <2>3
<1>10. ASSUME NEW n \in 1..drawn, CellClicked(n)
       PROVE  Step
  BY <1>0, <1>10, ListTexts
<1>11. CASE UNCHANGED vars
  <2>1. UNCHANGED <<docs, editor, cache, cached, later, edits, posted, pane, inbox>>
    BY <1>11 DEF vars, ui, juce
  <2> QED  BY <1>0, <2>1, TextsAlone DEF PlacesStep, ListsStep
<1> HIDE DEF Step
<1> QED  BY <1>1, <1>2, <1>4, <1>5, <1>6, <1>8, <1>9, <1>10, <1>11 DEF Next

\* A line counted from 1.
LEMMA LineWithin ==
  ASSUME NEW t \in Seq(Nat), NEW ln \in 1..Len(t)
  PROVE  ln \in Nat \ {0} /\ ln <= Len(t)
OBVIOUS

\* The location that is shown leads to the function of its row.
LEMMA FunctionIsShown ==
  ASSUME MarksInv, RowsInv, PostedStep, 1 \in DOMAIN posted, posted' = Tail(posted), over' = "",
         posted[1].what # 0, posted[1].of = edits
  PROVE  editor'.text[editor'.cursor + 1] = posted[1].what
<1> DEFINE p == posted[1]
<1> DEFINE ed == Opened(p.name)
<1>1. posted \in Seq(Places) /\ docs \in [Files -> Docs]
  BY DEF MarksInv, TypeOK, ListTypes, UiTypes
<1>2. p = Head(posted) /\ p \in Places /\ Len(Tail(posted)) = Len(posted) - 1
  BY Zenon, <1>1, FirstOf
<1>3. ShowPosted
  BY Zenon, <1>1, <1>2, OnlyShownIsTaken DEF PostedStep
<1>4. ed \in Editors /\ editor' = ShowLine(ed, p.line)
  BY Zenon, <1>2, <1>3, PostedKeeps
<1>5. PlaceAt(p, edits, editor, docs)
  BY DEF RowsInv
<1>6. /\ p.name \in Files /\ p.line \in 1..Len(TextIn(editor, docs, p.name))
      /\ TextIn(editor, docs, p.name)[p.line] = p.what
  BY <1>5 DEF PlaceAt, At
<1>7. p.line \in 1..Len(ed.text) /\ ed.text[p.line] = p.what
  <2>1. CASE p.name = editor.sfc
    BY <1>6, <2>1 DEF Opened, TextIn
  <2>2. CASE p.name # editor.sfc
    <3>1. ed.text = Append(docs[p.name].text, 0) /\ TextIn(editor, docs, p.name) = docs[p.name].text
      BY <2>2 DEF Opened, Loaded, TextIn
    <3>2. docs[p.name].text \in Seq(Nat)
      BY <1>1, <1>6 DEF Docs
    <3> HIDE DEF p, ed
    <3> QED  BY <1>6, <3>1, <3>2, LoadedAfter
  <2> QED  BY <2>1, <2>2
<1> HIDE DEF p, ed
<1>8. p.line \in Nat \ {0} /\ p.line <= Len(ed.text)
  <2>1. ed.text \in Seq(Nat)
    BY <1>4 DEF Editors
  <2> QED  BY Zenon, <1>7, <2>1, LineWithin
<1>9. editor'.text = ed.text /\ editor'.cursor + 1 = p.line
  BY Zenon, <1>4, <1>8, LineShown
<1>10. editor'.text[editor'.cursor + 1] = p.what
  BY <1>7, <1>9
<1> QED  BY <1>10 DEF p

\* The variables of the client's editor, breakpoints and lists have their types, whatever
\* the user and the daemon do (Controller.cpp, TopNotebook.cpp, StyledSourceCtrl.cpp,
\* FunctionsComponent.cpp).
THEOREM MarksTypes == Spec => []TypeOK
<1>1. Init => MarksInv
  BY InitMarks
<1>2. MarksInv /\ [Next]_vars => MarksInv'
  BY NextKeepsMarks, StutterKeepsMarks
<1>3. MarksInv => TypeOK
  BY DEF MarksInv
<1> QED  BY <1>1, <1>2, <1>3, PTL DEF Spec

\* The marks are the breakpoints of the source shown until an edit or another source's
\* breakpoints say otherwise, whichever source, and however many (SetBreakpoint_LL(),
\* RestoreToEditor(), SetBreakpointLines()).
THEOREM MarksStayBreakpoints == Spec => []MarksAreBreakpoints
<1>1. Init => MarksInv
  BY InitMarks
<1>2. MarksInv /\ [Next]_vars => MarksInv'
  BY NextKeepsMarks, StutterKeepsMarks
<1>3. MarksInv => MarksAreBreakpoints
  BY DEF MarksInv
<1> QED  BY <1>1, <1>2, <1>3, PTL DEF Spec

\* A row of the list of functions leads to the function as long as no line comes or goes,
\* from the cached text over the thread that draws the list to the cursor, through any
\* tabs, lists and locations in between (ReloadStylCache(), OnReloadLuaFunctions(),
\* cellClicked(), ShowLine()).
THEOREM RowsLead == Spec => RowsLeadToFunctions
<1> DEFINE Leads ==
      \A p \in {posted[i] : i \in DOMAIN posted \cap {1}} :
        posted' = Tail(posted) /\ over' = "" /\ p.what # 0 /\ p.of = edits
        => editor'.text[editor'.cursor + 1] = p.what
<1>1. Init => MarksInv /\ RowsInv
  BY InitMarks, InitRows
<1>2. MarksInv /\ RowsInv /\ [Next]_vars => MarksInv' /\ RowsInv'
  BY NextKeepsMarks, StutterKeepsMarks, NextKeepsRows
<1>3. MarksInv /\ RowsInv /\ [Next]_vars => [Leads]_vars
  <2> SUFFICES ASSUME MarksInv, RowsInv, [Next]_vars PROVE Leads
    OBVIOUS
  <2>1. PostedStep
    BY NextKeepsMarks, StutterKeepsMarks
  <2>2. ASSUME 1 \in DOMAIN posted, posted' = Tail(posted), over' = "",
               posted[1].what # 0, posted[1].of = edits
        PROVE  editor'.text[editor'.cursor + 1] = posted[1].what
    BY <2>1, <2>2, FunctionIsShown
  <2> QED  BY Zenon, <2>2
<1>4. QED
  BY <1>1, <1>2, <1>3, PTL DEF Spec, RowsLeadToFunctions

=============================================================================
