-------------------------------- MODULE Panes --------------------------------
(***************************************************************************)
(* The panes of the client's lower notebooks, and the prefs that keep their *)
(* places: three books of pages of which two share a splitter with their    *)
(* neighbour, a pane being dragged, and the file the layout is written to    *)
(* some time after a change (BottomNotebook.cpp, Toolbar.cpp).               *)
(*                                                                         *)
(* Sash positions and what else the prefs hold are left out.                *)
(***************************************************************************)
EXTENDS Integers, SequencesExt

CONSTANT PANE_ID_MAX  \* the number of panes

ASSUME PanesAssumption == PANE_ID_MAX \in Nat \ {0}

Panes == 0..(PANE_ID_MAX - 1)     \* PANE_ID, in the order of the enumeration
Output == 0                       \* PANE_ID_OUTPUT
Top == 0
BottomLeft == 1
BottomRight == 2
Books == {Top, BottomLeft, BottomRight}
Splitters == {Top, BottomRight}   \* the books that can be hidden
None == -1
Back == -2                        \* PANE_ADD_TO_BACK
NoHit == <<None, None>>

\* s_ShiftPaneMap.
ShiftPane == [b \in Books |-> IF b = BottomLeft THEN BottomRight
                              ELSE IF b = BottomRight THEN Top ELSE BottomLeft]

VARIABLES
  books,    \* the pages of each book
  front,    \* its selected page, 0: none
  split,    \* of a splitter: shows its book beside its neighbour
  dragged,  \* m_DraggedPageID
  hatched,  \* the splitters' books that show a hatched bitmap for their pages
  hit,      \* m_LastHitBook and m_LastHitPagePos
  saved,    \* "/Window/page_list" in the prefs file: panes with their books
  due,      \* the "ui_prefs" timer runs
  over      \* the failed assert that ended the client, or ""

vars == <<books, front, split, dragged, hatched, hit, saved, due, over>>

-----------------------------------------------------------------------------
(* Books.                                                                  *)

BookOf(pages, pane) == {b \in Books : pane \in ToSet(pages[b])}
Used(pane) == BookOf(books, pane) # {}

\* RemovePageFromBook(): wxNotebook then selects the next page, or the one before
\* the last.
Without(at, pane) ==
  LET b == CHOOSE b \in Books : pane \in ToSet(at.books[b])
      i == CHOOSE i \in DOMAIN at.books[b] : at.books[b][i] = pane
      f == at.front[b]
  IN [books |-> [at.books EXCEPT ![b] = RemoveAt(@, i)],
      front |-> [at.front EXCEPT ![b] =
                   IF i < f \/ (i = f /\ i = Len(at.books[b])) THEN f - 1 ELSE f]]

\* AddPageID(): the page is not selected, unless it is the only one.
With(at, pane, b, pos) ==
  LET i == IF pos = Back THEN Len(at.books[b]) + 1 ELSE pos
      f == at.front[b]
  IN [books |-> [at.books EXCEPT ![b] = InsertAt(@, i, pane)],
      front |-> [at.front EXCEPT ![b] = IF f = 0 THEN 1 ELSE IF i <= f THEN f + 1 ELSE f]]

\* SelectPageID().
Selecting(at, pane) ==
  [at EXCEPT !.front = [b \in Books |->
     IF pane \in ToSet(at.books[b]) THEN CHOOSE i \in DOMAIN at.books[b] : at.books[b][i] = pane
     ELSE at.front[b]]]

NoPages == [books |-> [b \in Books |-> << >>], front |-> [b \in Books |-> 0]]
Now     == [books |-> books, front |-> front]
Become(at) == books' = at.books /\ front' = at.front

\* A pane that is in no book is left.
RemovePageID(pane) == IF Used(pane) THEN Without(Now, pane) ELSE Now
AddPageToNotebook(at, pane, b) == With(at, pane, b, Back)

\* What SaveUI() writes, and LoadUI() reads: the default is all in one book.
PageList(pages) ==
  LET entries(b) == [i \in DOMAIN pages[b] |-> <<pages[b][i], b>>]
  IN entries(Top) \o entries(BottomLeft) \o entries(BottomRight)
DefaultList == [i \in 1..PANE_ID_MAX |-> <<i - 1, BottomLeft>>]
Loaded(list) == FoldLeft(LAMBDA at, entry : AddPageToNotebook(at, entry[1], entry[2]), NoPages, list)

-----------------------------------------------------------------------------
(* Splitters.                                                              *)

\* The widths are measured, and nothing else.
Fault_GetSplitterWidths(s, pages) == s
\* GetSplitterWidths(): splits for a book that has pages.
GetSplitterWidths(s, pages) == [b \in Splitters |-> s[b] \/ pages[b] # << >>]

\* RepositionPaneBooks(), all modes but DRAG_START: a book that has pages and is
\* split already is hidden, like one without.
RepositionPaneBooks(s, pages) == [b \in Splitters |-> pages[b] # << >> /\ ~s[b]]

\* HighLightEmpty(), of both books.
HighLightEmpty(pages) == {b \in Splitters : pages[b] = << >>}

\* Callers that measure first.
Update == split' = RepositionPaneBooks(GetSplitterWidths(split, books'), books')

-----------------------------------------------------------------------------
(* Actions.                                                                *)

\* LoadUI(), from the first launch on; the output pane is raised.
Init ==
  /\ saved = DefaultList
  /\ books = Loaded(saved).books /\ front = Selecting(Loaded(saved), Output).front
  /\ split = [b \in Splitters |-> FALSE]
  /\ dragged = None /\ hatched = {} /\ hit = NoHit /\ due = FALSE /\ over = ""

Showing(b) == IF b = BottomLeft THEN TRUE ELSE split[b]

\* The user's next click on a tab; the mouse is captured during a drag.
IsDraggingPane == dragged # None
Click == over = "" /\ ~IsDraggingPane

\* Dirty prefs are written now, as SaveUI() does when no drag is on.
SaveNow ==
  /\ split' = GetSplitterWidths(RepositionPaneBooks(GetSplitterWidths(split, books'), books'), books')
  /\ saved' = PageList(books')

\* "close": in the lower left book only while it has another page.
ClosePane(b, pane) ==
  /\ Click /\ Showing(b) /\ pane \in ToSet(books[b])
  /\ b = BottomLeft => Len(books[b]) > 1
  /\ Become(RemovePageID(pane))
  /\ Update
  /\ due' = TRUE
  /\ UNCHANGED <<dragged, hatched, hit, saved, over>>

\* "shift": to the next book, from a book's last page too.
ShiftPaneBook(b, pane) ==
  /\ Click /\ Showing(b) /\ pane \in ToSet(books[b])
  /\ Become(AddPageToNotebook(Without(Now, pane), pane, ShiftPane[b]))
  /\ SaveNow
  /\ UNCHANGED <<dragged, hatched, hit, due, over>>

\* "drag", or "show" of a hidden pane, which is dragged from nowhere.
StartDrag(b, pane) ==
  /\ Click /\ Showing(b)
  /\ \/ pane \in ToSet(books[b]) /\ (b = BottomLeft => Len(books[b]) > 1)
     \/ ~Used(pane) /\ books[b] # << >>
  /\ dragged' = pane /\ hit' = NoHit
  /\ split' = [c \in Splitters |-> TRUE] /\ hatched' = HighLightEmpty(books)
  /\ UNCHANGED <<books, front, saved, due, over>>

\* DragHitTest(): the places in a book that move the pane.
Places(b) ==
  IF books[b] = << >> THEN {Back}
  ELSE {i \in DOMAIN books[b] : books[b][i] # dragged}
         \cup (IF dragged \in ToSet(books[b]) THEN {} ELSE {Back})

\* OnMouseDragMove(): taken out, and in where the mouse is, if it is over a book.
MouseDragMove ==
  /\ over = "" /\ IsDraggingPane
  /\ hit' \in {NoHit} \cup UNION {{b} \X Places(b) : b \in Books}
  /\ hit' # hit
  /\ LET out == RemovePageID(dragged) IN
       Become(IF hit' = NoHit THEN out ELSE Selecting(With(out, dragged, hit'[1], hit'[2]), dragged))
  /\ hatched' = HighLightEmpty(books')
  /\ UNCHANGED <<split, dragged, saved, due, over>>

\* The drag's end as it was started.
Fault_LeftMouseClick ==
  /\ over = "" /\ IsDraggingPane
  /\ dragged' = None
  /\ split' = RepositionPaneBooks(split, books) /\ hatched' = {}
  /\ UNCHANGED <<books, front, hit, saved, due, over>>

\* OnLeftMouseClick(): the pane stays where it is, if anywhere.
LeftMouseClick ==
  /\ over = "" /\ IsDraggingPane
  /\ dragged' = None
  /\ split' = RepositionPaneBooks(split, books) /\ hatched' = {}
  /\ due' = TRUE
  /\ UNCHANGED <<books, front, hit, saved, over>>

\* A tab clicked, or a pane raised for what it has to show.
RaisePageID(pane) ==
  /\ over = "" /\ Used(pane)
  /\ front' = Selecting(Now, pane).front
  /\ UNCHANGED <<books, split, dragged, hatched, hit, saved, due, over>>

\* The menu's "Reset Notepanes": to the first layout, in the order of PANE_ID.
ResetNotesPanes ==
  /\ Click
  /\ Become(Loaded(DefaultList))
  /\ Update
  /\ UNCHANGED <<dragged, hatched, hit, saved, due, over>>

\* The window or a sash is moved: DirtyUIPrefs().
WindowMoved == over = "" /\ due' = TRUE /\ UNCHANGED <<books, front, split, dragged, hatched, hit, saved, over>>

\* SaveUI(), from the timer: ignored while dragging.
SaveUI ==
  /\ over = "" /\ due
  /\ due' = FALSE
  /\ IF IsDraggingPane THEN UNCHANGED <<split, saved>>
     ELSE split' = GetSplitterWidths(split, books) /\ saved' = PageList(books)
  /\ UNCHANGED <<books, front, dragged, hatched, hit, over>>

\* The client is closed, which saves nothing, or dies; it is started again.
Relaunch ==
  /\ over = ""
  /\ IF saved = << >>
     THEN over' = "assert(!page_name.empty())" /\ UNCHANGED <<books, front, split, dragged, hatched, hit, saved, due>>
     ELSE /\ Become(IF Output \in {e[1] : e \in ToSet(saved)} THEN Selecting(Loaded(saved), Output) ELSE Loaded(saved))
          /\ split' = RepositionPaneBooks([b \in Splitters |-> FALSE], books')
          /\ dragged' = None /\ hatched' = {} /\ hit' = NoHit /\ due' = FALSE
          /\ UNCHANGED <<saved, over>>

Over == over # "" /\ UNCHANGED vars

Next ==
  \/ \E b \in Books, pane \in Panes : ClosePane(b, pane) \/ ShiftPaneBook(b, pane) \/ StartDrag(b, pane)
  \/ MouseDragMove \/ LeftMouseClick
  \/ \E pane \in Panes : RaisePageID(pane)
  \/ ResetNotesPanes \/ WindowMoved \/ SaveUI \/ Relaunch \/ Over

Spec == Init /\ [][Next]_vars

-----------------------------------------------------------------------------
(* Properties.                                                             *)

\* The pages of the books, of which no pane is in two places.
Layouts ==
  {pages \in [Books -> Seq(Panes)] :
     \A b, c \in Books : \A i \in DOMAIN pages[b], j \in DOMAIN pages[c] :
       pages[b][i] = pages[c][j] => b = c /\ i = j}
\* A book with pages has one in front.
Shows ==
  {at \in [books : Layouts, front : [Books -> Nat]] :
     \A b \in Books : IF at.books[b] = << >> THEN at.front[b] = 0 ELSE at.front[b] \in DOMAIN at.books[b]}

\* The variables have their types; no pane is in two places, in the books or in the
\* file, where the next launch asserts it, and the file is the list of a layout.
TypeOK ==
  /\ Now \in Shows
  /\ Loaded(saved).books \in Layouts /\ saved = PageList(Loaded(saved).books)
  /\ split \in [Splitters -> BOOLEAN] /\ hatched \subseteq Splitters
  /\ dragged \in Panes \cup {None} /\ hit \in {NoHit} \cup (Books \X (Nat \cup {Back}))
  /\ due \in BOOLEAN /\ over \in {"", "assert(!page_name.empty())"}

\* Repositioning hides a book that is split already, pages or not: it is one of a
\* pane just dragged or of its neighbour. It comes back when the prefs are saved,
\* because that measures the splitters; so whenever a book with pages is hidden, a
\* save is due or a drag, which ends in one, is on. (GetSplitterWidths(), DirtyUIPrefs())
HiddenBooksReturn ==
  \A b \in Splitters : books[b] # << >> /\ ~split[b] => due \/ dragged # None \/ over # ""

\* The layout is on file, or will be: a save that a drag makes the timer skip is
\* asked for again at its end. Only "Reset Notepanes" leaves what no save is due for.
SaveIsDue == PageList(books) = saved \/ due \/ dragged # None
LayoutIsSaved == [][SaveIsDue /\ ~SaveIsDue' => ResetNotesPanes]_vars

-----------------------------------------------------------------------------
(* Why hidden books return. *)

\* What is in the books and in the file, and when a book may be hidden.
PanesInv == TypeOK /\ HiddenBooksReturn
=============================================================================
