------------------------- MODULE RecordWindowProofs -------------------------
(***************************************************************************)
(* The index of the entry a dialog is about, the search, the names, what    *)
(* becomes of the fields of a dialog, and that the window implements        *)
(* RecordList, for lists and fields of every length.                        *)
(***************************************************************************)
EXTENDS RecordWindow, FiniteSetTheorems, SequenceTheorems, TLAPS

-----------------------------------------------------------------------------
(***************************************************************************)
(* The smallest of a set of numbers.                                        *)
(***************************************************************************)
Pairs == {ss \in Nat \X Nat : ss[1] < ss[2]}

LEMMA PairsWellFounded == IsWellFoundedOn(Pairs, Nat)
  BY NatLessThanWellFounded DEF OpToRel, Pairs, IsWellFoundedOn

LEMMA Smallest ==
    ASSUME NEW T \in SUBSET Nat, T # {}
    PROVE  \E x \in T : \A y \in T : x <= y
  <1>1. PICK x \in T : \A y \in T : <<y, x>> \notin Pairs
    BY PairsWellFounded, WFMin
  <1>2. ASSUME NEW y \in T PROVE x <= y
    <2>1. x \in Nat /\ y \in Nat /\ ~(y < x)
      BY <1>1 DEF Pairs
    <2> QED BY <2>1
  <1> QED BY <1>2

\* A row of the list is a number; that the list is a sequence is not needed.
LEMMA RowsAreNumbers ==
    ASSUME NEW row \in Rows
    PROVE  row \in Nat /\ row >= 1 /\ row # NoIndex
  BY DEF Rows, NoIndex

\* What ListBox::search finds: no match from the index on, or the first.
LEMMA SearchFinds ==
    ASSUME NEW needle, NEW from \in Nat
    PROVE  LET row == Search(needle, from)
           IN  \/ row = NoIndex /\ \A r \in Matches(needle) : r - 1 < from
               \/ /\ row # NoIndex /\ row \in Matches(needle) /\ row - 1 >= from
                  /\ \A r \in Matches(needle) : r - 1 >= from => row <= r
  <1> DEFINE found == {row \in Matches(needle) : row - 1 >= from}
  <1>1. Matches(needle) \subseteq Rows
    BY DEF Matches
  <1>2. \A r \in Matches(needle) : r \in Nat /\ r >= 1 /\ r # NoIndex
    BY <1>1, RowsAreNumbers
  <1>3. CASE found = {}
    <2>1. Search(needle, from) = NoIndex
      BY <1>3 DEF Search
    <2>2. \A r \in Matches(needle) : r - 1 < from
      BY <1>2, <1>3
    <2> QED BY <2>1, <2>2
  <1>4. CASE found # {}
    <2>1. found \in SUBSET Nat
      BY <1>2
    <2>2. \E row \in found : \A r \in found : row <= r
      BY <2>1, <1>4, Smallest
    <2>3. Search(needle, from) = CHOOSE row \in found : \A r \in found : row <= r
      BY <1>4 DEF Search
    <2> DEFINE row == Search(needle, from)
    <2>4. row \in found /\ \A r \in found : row <= r
      BY <2>2, <2>3
    <2> HIDE DEF row
    <2>5. row # NoIndex /\ row \in Matches(needle) /\ row - 1 >= from
      BY <2>4, <1>2
    <2>6. \A r \in Matches(needle) : r - 1 >= from => row <= r
      BY <2>4
    <2> QED BY <2>5, <2>6 DEF row
  <1> QED BY <1>3, <1>4

-----------------------------------------------------------------------------
(***************************************************************************)
(* record_index and the dialogs.                                            *)
(***************************************************************************)
FieldNames == {"newrecord", "readonly", "typed", "modified_by_pwgen", "force_close", "error",
               "name", "password", "top"}

\* The assertions, for a dialog that has all its fields.
WindowInv == AssertionsHold /\ DOMAIN dialog = FieldNames /\ dialog.newrecord \in BOOLEAN

\* The fields of a new dialog.
LEMMA FieldsAre ==
    ASSUME NEW newrecord \in BOOLEAN, NEW name, NEW password
    PROVE  LET d == Fields(newrecord, name, password)
           IN  /\ DOMAIN d = FieldNames /\ d.newrecord = newrecord
               /\ d.readonly = FALSE /\ d.top = "fields"
  BY DEF Fields, FieldNames

\* The dialog is left: there is no entry it is about.
LEMMA ClosedKeeps ==
    ASSUME Closed
    PROVE  WindowInv'
  BY FieldsAre DEF Closed, NoDialog, WindowInv, AssertionsHold

\* What is typed, toggled and asked inside the dialog keeps what it is about.
LEMMA DialogChangeKeeps ==
    ASSUME WindowInv, UNCHANGED <<window, record_index>>,
           DOMAIN dialog' = DOMAIN dialog, dialog'.newrecord = dialog.newrecord,
           dialog'.top = "pwgen" => ~dialog'.readonly
    PROVE  WindowInv'
  BY DEF WindowInv, AssertionsHold

LEMMA WindowKeepsDialog ==
    ASSUME WindowInv,
           \/ \E name, password \in Texts : Type(name, password)
           \/ ToggleReadonly \/ OpenGenerator \/ CloseGenerator
    PROVE  WindowInv'
  <1>1. CASE \E name, password \in Texts : Type(name, password)
    BY <1>1, DialogChangeKeeps DEF Type, Field, KeepsDialog, WindowInv, FieldNames
  <1>2. CASE ToggleReadonly
    BY <1>2, DialogChangeKeeps DEF ToggleReadonly, Field, KeepsDialog, WindowInv, FieldNames
  <1>3. CASE OpenGenerator
    BY <1>3, DialogChangeKeeps DEF OpenGenerator, Field, KeepsDialog, WindowInv, FieldNames
  <1>4. CASE CloseGenerator
    BY <1>4, DialogChangeKeeps DEF CloseGenerator, KeepsDialog, WindowInv, FieldNames
  <1> QED BY <1>1, <1>2, <1>3, <1>4

\* The question whether the changes are discarded.
LEMMA OnCloseKeeps ==
    ASSUME WindowInv, NEW d, DOMAIN d = DOMAIN dialog, d.newrecord = dialog.newrecord, OnClose(d)
    PROVE  WindowInv'
  <1>1. CASE Changed(d) /\ ~d.force_close
    <2>1. dialog' = [d EXCEPT !.top = "confirm"] /\ UNCHANGED <<window, record_index>>
      BY <1>1 DEF OnClose
    <2> QED BY <2>1, DialogChangeKeeps DEF WindowInv, FieldNames
  <1>2. CASE ~(Changed(d) /\ ~d.force_close)
    BY <1>2, ClosedKeeps DEF OnClose
  <1> QED BY <1>1, <1>2

LEMMA WindowClosesDialog ==
    ASSUME WindowInv, Ok \/ OkFails \/ Cancel \/ ConfirmDiscard
    PROVE  WindowInv'
  <1>1. CASE Ok
    BY <1>1, ClosedKeeps DEF Ok
  <1>2. CASE OkFails
    <2>1. CASE Changed(dialog)
      BY <1>2, <2>1, DialogChangeKeeps DEF OkFails, WindowInv, AssertionsHold
    <2>2. CASE ~Changed(dialog)
      BY <1>2, <2>2, ClosedKeeps DEF OkFails
    <2> QED BY <2>1, <2>2
  <1>3. CASE Cancel
    BY <1>3, OnCloseKeeps DEF Cancel
  <1>4. CASE ConfirmDiscard
    <2>1. CASE OnClose([dialog EXCEPT !.force_close = TRUE])
      <3> DEFINE d == [dialog EXCEPT !.force_close = TRUE]
      <3>1. DOMAIN d = DOMAIN dialog /\ d.newrecord = dialog.newrecord
        BY DEF WindowInv, FieldNames
      <3> QED BY <3>1, <2>1, OnCloseKeeps
    <2>2. CASE dialog' = [dialog EXCEPT !.top = "fields"] /\ UNCHANGED <<window, record_index>>
      BY <2>2, DialogChangeKeeps DEF WindowInv, FieldNames
    <2> QED BY <1>4, <2>1, <2>2 DEF ConfirmDiscard
  <1> QED BY <1>1, <1>2, <1>3, <1>4

\* A dialog opens on the row that is highlighted, or on a new record.
LEMMA WindowOpens ==
    ASSUME WindowInv,
           \/ NewRecord
           \/ \E row \in Rows : ShowRecord(row) \/ DeleteSelected(row)
    PROVE  WindowInv'
  <1>1. CASE NewRecord
    BY <1>1, FieldsAre DEF NewRecord, HotKey, KeepsDialog, WindowInv, AssertionsHold
  <1>2. ASSUME NEW row \in Rows, ShowRecord(row) PROVE WindowInv'
    <2>1. DOMAIN dialog' = FieldNames /\ dialog'.newrecord = FALSE /\ dialog'.top = "fields"
      <3> DEFINE record == list[row].record
                 d == Fields(FALSE, record.name, record.password)
                 e == Fields(FALSE, 0, 0)
      <3>1. /\ DOMAIN d = FieldNames /\ d.newrecord = FALSE /\ d.top = "fields"
            /\ DOMAIN e = FieldNames /\ e.newrecord = FALSE /\ e.top = "fields"
        BY FieldsAre
      <3>2. dialog' = IF record = Garbled THEN [e EXCEPT !.error = TRUE]
                                          ELSE [d EXCEPT !.readonly = TRUE]
        BY <1>2 DEF ShowRecord
      <3> HIDE DEF d, e
      <3> QED BY <3>1, <3>2 DEF FieldNames
    <2> QED BY <2>1, <1>2, RowsAreNumbers DEF ShowRecord, WindowInv, AssertionsHold
  <1>3. ASSUME NEW row \in Rows, DeleteSelected(row) PROVE WindowInv'
    BY <1>3, RowsAreNumbers DEF DeleteSelected, HotKey, WindowInv, AssertionsHold
  <1> QED BY <1>1, <1>2, <1>3

\* Dialogs that are not about an entry, and what needs none.
LEMMA WindowElsewhere ==
    ASSUME WindowInv,
           \/ SearchFirst \/ SearchNext \/ SortOrder \/ Saved \/ Ended
           \/ \E needle \in Texts : CloseSearch(needle)
           \/ \E w \in {"help", "info", "pwgen"} : Show(w) \/ Close(w)
    PROVE  WindowInv'
  <1>1. CASE SearchFirst
    BY <1>1 DEF SearchFirst, HotKey, KeepsDialog, WindowInv, AssertionsHold
  <1>2. CASE SearchNext \/ SortOrder \/ Saved
    BY <1>2, DialogChangeKeeps DEF SearchNext, SortOrder, Saved, WindowInv, AssertionsHold
  <1>3. CASE Ended
    BY <1>3, DialogChangeKeeps DEF Ended, vars, WindowInv, AssertionsHold
  <1>4. CASE \E needle \in Texts : CloseSearch(needle)
    BY <1>4 DEF CloseSearch, Answer, WindowInv, AssertionsHold
  <1>5. CASE \E w \in {"help", "info", "pwgen"} : Show(w) \/ Close(w)
    BY <1>5 DEF Show, Close, HotKey, Answer, KeepsDialog, WindowInv, AssertionsHold
  <1> QED BY <1>1, <1>2, <1>3, <1>4, <1>5

\* The lock screen leaves the window beneath it alone.
LEMMA LockScreenKeeps ==
    ASSUME LockScreen
    PROVE  UNCHANGED <<list, ascending, record_index, records_changed, window, dialog, search>>
  BY DEF LockScreen, Lock, Unlock, LockQuit

LEMMA WindowInit == Init => WindowInv
  <1>1. /\ DOMAIN NoDialog = FieldNames /\ NoDialog.newrecord = TRUE
        /\ NoDialog.top = "fields"
    BY FieldsAre DEF NoDialog
  <1> QED BY <1>1 DEF Init, WindowInv, AssertionsHold

LEMMA WindowNext == WindowInv /\ [Next]_vars => WindowInv'
  <1> SUFFICES ASSUME WindowInv, [Next]_vars PROVE WindowInv'
    OBVIOUS
  <1>1. CASE ConfirmDelete
    BY <1>1, ClosedKeeps DEF ConfirmDelete
  <1>2. CASE UNCHANGED vars
    BY <1>2, DialogChangeKeeps DEF vars, WindowInv, AssertionsHold
  <1>3. CASE LockScreen
    BY <1>3, LockScreenKeeps, DialogChangeKeeps DEF WindowInv, AssertionsHold
  <1> QED BY <1>1, <1>2, <1>3, WindowKeepsDialog, WindowClosesDialog, WindowOpens, WindowElsewhere
          DEF Next

\* The assertions on record_index and on the generator hold for every list.
THEOREM WindowAsserts == Spec => []AssertionsHold
  <1>1. WindowInv => AssertionsHold
    BY DEF WindowInv
  <1> QED BY <1>1, WindowInit, WindowNext, PTL DEF Spec

-----------------------------------------------------------------------------
(***************************************************************************)
(* The search.                                                              *)
(***************************************************************************)
\* The search has come by every match up to the last one, unless the list has
\* changed since it began.
SearchInv == /\ last \in Nat
             /\ finder # 0 /\ ~stale =>
                   \A row \in Matches(finder) : row - 1 <= last => row \in seen

LEMMA SearchUnchanged ==
    ASSUME SearchInv, UNCHANGED <<list, finder, last, seen, stale>>
    PROVE  SearchInv'
  BY DEF SearchInv, Matches, Rows

LEMMA ListChangeForgets ==
    ASSUME SearchInv, last' = last, finder' = finder, stale' = (finder # 0)
    PROVE  SearchInv'
  BY DEF SearchInv

\* The next match after those seen.
LEMMA VisitKeeps ==
    ASSUME SearchInv, UNCHANGED <<list, stale>>, finder' = finder, finder # 0,
           NEW row, row = Search(finder, last + 1), row # NoIndex,
           Visits(row, IF stale THEN {} ELSE seen)
    PROVE  SearchInv'
  <1>1. last \in Nat /\ last + 1 \in Nat
    BY DEF SearchInv
  <1>2. /\ row \in Matches(finder) /\ row - 1 >= last + 1
        /\ \A r \in Matches(finder) : r - 1 >= last + 1 => row <= r
    BY <1>1, SearchFinds
  <1>3. \A r \in Matches(finder) : r \in Nat /\ r >= 1
    BY RowsAreNumbers DEF Matches
  <1>4. last' = row - 1 /\ last' \in Nat
    BY <1>2, <1>3 DEF Visits
  <1>5. ASSUME ~stale, NEW r \in Matches(finder), r - 1 <= last' PROVE r \in seen'
    <2>1. seen' = seen \cup {row}
      BY <1>5 DEF Visits
    <2>2. CASE r - 1 <= last
      BY <2>1, <2>2, <1>5 DEF SearchInv
    <2>3. CASE ~(r - 1 <= last)
      <3>1. r \in Nat /\ row \in Nat /\ r - 1 >= last + 1
        BY <2>3, <1>1, <1>2, <1>3
      <3>2. r = row
        BY <3>1, <1>2, <1>4, <1>5
      <3> QED BY <3>2, <2>1
    <2> QED BY <2>2, <2>3
  <1>6. Matches(finder)' = Matches(finder)
    BY DEF Matches, Rows
  <1> QED BY <1>4, <1>5, <1>6 DEF SearchInv

LEMMA SearchNextKeeps ==
    ASSUME SearchInv, SearchNext
    PROVE  SearchInv'
  <1> DEFINE row == Search(finder, last + 1)
  <1>1. CASE row = NoIndex
    BY <1>1 DEF SearchNext, SearchInv
  <1>2. CASE row # NoIndex
    BY <1>2, VisitKeeps DEF SearchNext
  <1> QED BY <1>1, <1>2

\* A new search begins with the first match.
LEMMA CloseSearchKeeps ==
    ASSUME SearchInv, NEW needle \in Texts, CloseSearch(needle)
    PROVE  SearchInv'
  <1>1. CASE UNCHANGED search
    BY <1>1, SearchUnchanged DEF CloseSearch, search
  <1>2. CASE finder' = needle /\ needle > 0
             /\ LET row == Search(needle, 0)
                IN IF row = NoIndex THEN last' = 0 /\ seen' = {} ELSE Visits(row, {})
    <2> DEFINE row == Search(needle, 0)
    <2>1. Matches(finder)' = Matches(needle)
      BY <1>2 DEF CloseSearch, Matches, Rows
    <2>2. \A r \in Matches(needle) : r \in Nat /\ r >= 1
      BY RowsAreNumbers DEF Matches
    <2>3. CASE row = NoIndex
      <3>1. Matches(needle) = {}
        BY <2>2, <2>3, SearchFinds
      <3> QED BY <3>1, <2>1, <2>3, <1>2 DEF SearchInv
    <2>4. CASE row # NoIndex
      <3>1. row \in Matches(needle) /\ \A r \in Matches(needle) : r - 1 >= 0 => row <= r
        BY <2>4, SearchFinds
      <3>2. last' = row - 1 /\ seen' = {row}
        BY <1>2, <2>4 DEF Visits
      <3> HIDE DEF row
      <3>3. last' \in Nat
        BY <3>1, <3>2, <2>2
      <3>4. \A r \in Matches(needle) : r - 1 <= last' => r = row
        BY <3>1, <3>2, <2>2
      <3> QED BY <3>2, <3>3, <3>4, <2>1 DEF SearchInv
    <2> QED BY <2>3, <2>4
  <1> QED BY <1>1, <1>2 DEF CloseSearch

LEMMA SearchInit == Init => SearchInv
  BY DEF Init, SearchInv

LEMMA SearchInvNext == SearchInv /\ [Next]_vars => SearchInv'
  <1> SUFFICES ASSUME SearchInv, [Next]_vars PROVE SearchInv'
    OBVIOUS
  <1>1. CASE \/ NewRecord \/ \E row \in Rows : ShowRecord(row) \/ DeleteSelected(row)
             \/ \E name, password \in Texts : Type(name, password)
             \/ ToggleReadonly \/ OpenGenerator \/ CloseGenerator
    BY <1>1, SearchUnchanged DEF NewRecord, ShowRecord, DeleteSelected, Type, ToggleReadonly,
       OpenGenerator, CloseGenerator, KeepsDialog, search
  <1>2. CASE Ok
    <2>1. CASE UNCHANGED <<list, ascending, records_changed, search>>
      BY <2>1, SearchUnchanged DEF search
    <2>2. CASE \E new : ListChanges(new)
      BY <2>2, ListChangeForgets DEF ListChanges
    <2> QED BY <1>2, <2>1, <2>2 DEF Ok, Update
  <1>3. CASE ConfirmDelete
    <2>1. CASE UNCHANGED <<list, ascending, records_changed, search>>
      BY <2>1, SearchUnchanged DEF search
    <2>2. CASE \E new : ListChanges(new)
      BY <2>2, ListChangeForgets DEF ListChanges
    <2> QED BY <1>3, <2>1, <2>2 DEF ConfirmDelete
  <1>4. CASE OkFails \/ Cancel \/ ConfirmDiscard \/ SearchFirst \/ Saved
    BY <1>4, SearchUnchanged DEF OkFails, Cancel, ConfirmDiscard, SearchFirst, Saved,
       KeepsDialog, search
  <1>5. CASE SortOrder
    BY <1>5, ListChangeForgets DEF SortOrder
  <1>6. CASE \E w \in {"help", "info", "pwgen"} : Show(w) \/ Close(w)
    BY <1>6, SearchUnchanged DEF Show, Close, KeepsDialog, search
  <1>7. CASE Ended \/ UNCHANGED vars
    BY <1>7, SearchUnchanged DEF Ended, vars, search
  <1>8. CASE LockScreen
    BY <1>8, LockScreenKeeps, SearchUnchanged DEF search
  <1> QED BY <1>1, <1>2, <1>3, <1>4, <1>5, <1>6, <1>7, <1>8, SearchNextKeeps, CloseSearchKeeps
          DEF Next

Visited == (finder # 0 /\ finder' = 0 /\ ~stale) => Matches(finder) \subseteq seen

\* Only a search that finds no more gives up the term.
LEMMA VisitedStep == SearchInv /\ [Next]_vars => Visited
  <1> SUFFICES ASSUME SearchInv, [Next]_vars, finder # 0, finder' = 0, ~stale
               PROVE  Matches(finder) \subseteq seen
    BY DEF Visited
  <1>1. SearchNext
    <2>1. ASSUME NEW needle \in Texts, CloseSearch(needle) PROVE FALSE
      BY <2>1 DEF CloseSearch, search
    <2>2. ASSUME \/ NewRecord \/ \E row \in Rows : ShowRecord(row) \/ DeleteSelected(row)
                 \/ \E name, password \in Texts : Type(name, password)
                 \/ ToggleReadonly \/ OpenGenerator \/ CloseGenerator
          PROVE  UNCHANGED finder
      BY <2>2, Zenon DEF NewRecord, ShowRecord, DeleteSelected, Type, ToggleReadonly,
         OpenGenerator, CloseGenerator, KeepsDialog, search
    <2>3. ASSUME OkFails \/ Cancel \/ ConfirmDiscard \/ SearchFirst \/ Saved \/ Ended
          PROVE  UNCHANGED finder
      BY <2>3, Zenon DEF OkFails, Cancel, ConfirmDiscard, SearchFirst, Saved, Ended,
         KeepsDialog, search, vars
    <2>4. ASSUME NEW new, ListChanges(new) PROVE UNCHANGED finder
      BY <2>4 DEF ListChanges
    <2>5. ASSUME Ok \/ ConfirmDelete PROVE UNCHANGED finder
      BY <2>4, <2>5, Zenon DEF Ok, Update, ConfirmDelete, search
    <2>6. ASSUME SortOrder \/ \E w \in {"help", "info", "pwgen"} : Show(w) \/ Close(w)
          PROVE  UNCHANGED finder
      BY <2>6, Zenon DEF SortOrder, Show, Close, KeepsDialog, search
    <2>7. CASE UNCHANGED vars
      BY <2>7 DEF vars, search
    <2>8. CASE LockScreen
      BY <2>8, LockScreenKeeps DEF search
    <2> QED BY <2>1, <2>2, <2>3, <2>5, <2>6, <2>7, <2>8 DEF Next
  <1>2. Search(finder, last + 1) = NoIndex /\ last + 1 \in Nat
    BY <1>1 DEF SearchNext, SearchInv
  <1>3. \A r \in Matches(finder) : r - 1 < last + 1
    BY <1>2, SearchFinds DEF NoIndex
  <1>4. \A r \in Matches(finder) : r \in Nat
    BY RowsAreNumbers DEF Matches
  <1> QED BY <1>3, <1>4 DEF SearchInv

\* Before the search says that there are no more matches, the user has seen all.
THEOREM WindowSearches == Spec => SearchVisitsAll
  <1>1. SearchInv /\ [Next]_vars => [Visited]_vars
    BY VisitedStep
  <1>2. [][Visited]_vars => SearchVisitsAll
    BY PTL DEF Visited, SearchVisitsAll
  <1> QED BY <1>1, <1>2, SearchInit, SearchInvNext, PTL DEF Spec

-----------------------------------------------------------------------------
(***************************************************************************)
(* What the changes of a list do to the bag of its entries.                 *)
(***************************************************************************)
Places(s, x) == {i \in DOMAIN s : s[i] = x}

Copies(s, x) == Cardinality(Places(s, x))

LEMMA CopiesCount ==
    ASSUME NEW S, NEW s \in Seq(S), NEW x
    PROVE  /\ IsFiniteSet(Places(s, x))
           /\ Copies(s, x) \in Nat
           /\ Copies(s, x) = 0 <=> x \notin Range(s)
  <1>1. DOMAIN s = 1 .. Len(s) /\ Len(s) \in Nat
    OBVIOUS
  <1>2. IsFiniteSet(DOMAIN s)
    BY <1>1, FS_Interval
  <1>3. Places(s, x) \in SUBSET DOMAIN s
    BY DEF Places
  <1>4. IsFiniteSet(Places(s, x))
    BY <1>2, <1>3, FS_Subset
  <1>5. Places(s, x) = {} <=> x \notin Range(s)
    BY DEF Places, Range
  <1> QED BY <1>4, <1>5, FS_CardinalityType, FS_EmptySet DEF Copies

LEMMA BagIs == \A s : ToBag(s) = [x \in Range(s) |-> Copies(s, x)]
  BY DEF ToBag, Places, Copies

\* The bag of a list is one.
LEMMA BagOfList ==
    ASSUME NEW S, NEW s \in Seq(S)
    PROVE  IsABag(ToBag(s)) /\ BagToSet(ToBag(s)) = Range(s) /\ Range(s) \subseteq S
  <1>1. \A x \in Range(s) : Copies(s, x) \in {n \in Nat : n > 0}
    BY CopiesCount
  <1>2. Range(s) \subseteq S
    BY RangeOfSeq
  <1> QED BY <1>1, <1>2, BagIs DEF IsABag, BagToSet

\* Lists with the same entries the same number of times have the same bag.
LEMMA SameBag ==
    ASSUME NEW S, NEW s \in Seq(S), NEW t \in Seq(S), \A x : Copies(s, x) = Copies(t, x)
    PROVE  ToBag(s) = ToBag(t)
  <1>1. ASSUME NEW x PROVE x \in Range(s) <=> x \in Range(t)
    <2>1. Copies(s, x) = 0 <=> x \notin Range(s)
      BY CopiesCount
    <2>2. Copies(t, x) = 0 <=> x \notin Range(t)
      BY CopiesCount
    <2> QED BY <2>1, <2>2
  <1>2. Range(s) = Range(t)
    BY <1>1
  <1> QED BY <1>2, BagIs

LEMMA BagWithOne ==
    ASSUME NEW S, NEW s \in Seq(S), NEW t \in Seq(S), NEW e,
           Copies(t, e) = Copies(s, e) + 1, \A x : x # e => Copies(t, x) = Copies(s, x)
    PROVE  ToBag(t) = ToBag(s) (+) SetToBag({e})
  <1> DEFINE B == ToBag(s) (+) SetToBag({e})
  <1>1. ToBag(s) = [x \in Range(s) |-> Copies(s, x)] /\ SetToBag({e}) = [x \in {e} |-> 1]
    BY BagIs DEF SetToBag
  <1>2. B = [x \in Range(s) \cup {e} |-> (IF x \in Range(s) THEN Copies(s, x) ELSE 0)
                                         + (IF x \in {e} THEN 1 ELSE 0)]
    BY <1>1, Zenon DEF (+)
  <1>3. \A x : /\ Copies(s, x) \in Nat /\ (Copies(s, x) = 0 <=> x \notin Range(s))
               /\ (Copies(t, x) = 0 <=> x \notin Range(t))
    BY CopiesCount
  <1>4. Range(t) = Range(s) \cup {e}
    BY <1>3
  <1>5. \A x \in Range(t) : B[x] = Copies(t, x)
    BY <1>2, <1>3, <1>4
  <1> QED BY <1>2, <1>4, <1>5, BagIs

LEMMA BagWithoutOne ==
    ASSUME NEW S, NEW s \in Seq(S), NEW t \in Seq(S), NEW e,
           \A x : Copies(t, x) = Copies(s, x) - (IF x = e THEN 1 ELSE 0)
    PROVE  ToBag(t) = ToBag(s) (-) SetToBag({e})
  <1> DEFINE D == [x \in Range(s) |-> IF x \in {e} THEN Copies(s, x) - 1 ELSE Copies(s, x)]
             B == ToBag(s) (-) SetToBag({e})
  <1>1. ToBag(s) = [x \in Range(s) |-> Copies(s, x)] /\ SetToBag({e}) = [x \in {e} |-> 1]
    BY BagIs DEF SetToBag
  <1>2. B = [x \in {y \in DOMAIN D : D[y] > 0} |-> D[x]]
    BY <1>1 DEF (-)
  <1>3. \A x : /\ Copies(s, x) \in Nat /\ (Copies(s, x) = 0 <=> x \notin Range(s))
               /\ Copies(t, x) \in Nat /\ (Copies(t, x) = 0 <=> x \notin Range(t))
    BY CopiesCount
  <1>4. \A x \in Range(s) : D[x] = Copies(t, x)
    BY <1>3
  <1>5. Range(t) = {y \in DOMAIN D : D[y] > 0}
    BY <1>3
  <1>6. Range(t) \subseteq Range(s)
    BY <1>5
  <1> HIDE DEF D
  <1>7. \A x \in Range(t) : D[x] = Copies(t, x)
    BY <1>4, <1>6
  <1> QED BY <1>2, <1>5, <1>7, BagIs

\* Sorting keeps the entries, and how many there are of each.
LEMMA SortingKeeps ==
    ASSUME NEW S, NEW s \in Seq(S), NEW asc, NEW t \in Sortings(s, asc)
    PROVE  /\ t \in Seq(S) /\ Len(t) = Len(s) /\ DOMAIN t = DOMAIN s
           /\ Range(t) = Range(s) /\ ToBag(t) = ToBag(s)
  <1> DEFINE D == DOMAIN s
  <1>1. D = 1 .. Len(s) /\ Len(s) \in Nat
    OBVIOUS
  <1>2. PICK p \in Bijection(D, D) : t = [i \in D |-> s[p[i]]]
    BY DEF Sortings
  <1>3. /\ p \in [D -> D]
        /\ \A i, j \in D : p[i] = p[j] => i = j
        /\ \A j \in D : \E i \in D : p[i] = j
    BY DEF Bijection, Injection, Surjection, IsInjective
  <1> HIDE DEF D
  <1>4. t \in [1 .. Len(s) -> S]
    BY <1>1, <1>2, <1>3
  <1>5. t \in Seq(S) /\ Len(t) = Len(s) /\ DOMAIN t = D
    BY <1>1, <1>4
  <1>6. ASSUME NEW x PROVE Copies(t, x) = Copies(s, x)
    <2> DEFINE q == [i \in Places(t, x) |-> p[i]]
    <2>1. \A i \in D : i \in Places(t, x) <=> p[i] \in Places(s, x)
      BY <1>2, <1>3, <1>5 DEF Places, D
    <2>2. Places(t, x) \subseteq D /\ Places(s, x) \subseteq D
      BY <1>5 DEF Places, D
    <2>3. q \in [Places(t, x) -> Places(s, x)]
      BY <2>1, <2>2
    <2>4. \A i, j \in Places(t, x) : q[i] = q[j] => i = j
      BY <1>3, <2>2
    <2>5. \A j \in Places(s, x) : \E i \in Places(t, x) : q[i] = j
      BY <1>3, <2>1, <2>2
    <2> HIDE DEF q
    <2>6. q \in Bijection(Places(t, x), Places(s, x))
      BY <2>3, <2>4, <2>5 DEF Bijection, Injection, Surjection, IsInjective
    <2>7. ExistsBijection(Places(t, x), Places(s, x))
      BY <2>6 DEF ExistsBijection
    <2>8. IsFiniteSet(Places(t, x))
      BY <1>5, CopiesCount
    <2> QED BY <2>7, <2>8, FS_Bijection DEF Copies
  <1>7. Range(t) = Range(s)
    BY <1>1, <1>2, <1>3 DEF Range, D
  <1>8. ToBag(t) = ToBag(s)
    BY <1>5, <1>6, SameBag
  <1> QED BY <1>5, <1>7, <1>8 DEF D

\* A new entry comes last: t is the list s with e appended.
LEMMA AppendKeeps ==
    ASSUME NEW S, NEW s \in Seq(S), NEW t \in Seq(S), NEW e, Len(t) = Len(s) + 1,
           t[Len(t)] = e, \A i \in DOMAIN s : t[i] = s[i]
    PROVE  ToBag(t) = ToBag(s) (+) SetToBag({e})
  <1> DEFINE n == Len(s) + 1
  <1>1. DOMAIN t = DOMAIN s \cup {n} /\ n \notin DOMAIN s /\ t[n] = e
    OBVIOUS
  <1> HIDE DEF n
  <1>2. Copies(t, e) = Copies(s, e) + 1
    <2>1. IsFiniteSet(Places(s, e)) /\ n \notin Places(s, e)
      BY <1>1, CopiesCount DEF Places
    <2>2. Places(t, e) = Places(s, e) \cup {n}
      BY <1>1 DEF Places
    <2> QED BY <2>1, <2>2, FS_AddElement DEF Copies
  <1>3. ASSUME NEW x, x # e PROVE Copies(t, x) = Copies(s, x)
    <2>1. Places(t, x) = Places(s, x)
      BY <1>1, <1>3 DEF Places
    <2> QED BY <2>1 DEF Copies
  <1> QED BY <1>1, <1>2, <1>3, BagWithOne

\* RemoveAt closes the gap.
LEMMA RemoveKeeps ==
    ASSUME NEW S, NEW s \in Seq(S), NEW i \in DOMAIN s
    PROVE  /\ RemoveAt(s, i) \in Seq(S) /\ Len(RemoveAt(s, i)) = Len(s) - 1
           /\ Range(RemoveAt(s, i)) \subseteq Range(s)
           /\ \A x : Copies(RemoveAt(s, i), x) = Copies(s, x) - (IF x = s[i] THEN 1 ELSE 0)
           /\ ToBag(RemoveAt(s, i)) = ToBag(s) (-) SetToBag({s[i]})
  <1> DEFINE t == RemoveAt(s, i)
             n == Len(s)
  <1>1. n \in Nat /\ DOMAIN s = 1 .. n /\ i \in 1 .. n
    OBVIOUS
  <1>2. /\ t \in Seq(S) /\ Len(t) = n - 1
        /\ \A k \in 1 .. n - 1 : t[k] = s[IF k < i THEN k ELSE k + 1]
    <2> DEFINE a == SubSeq(s, 1, i - 1)
               b == SubSeq(s, i + 1, n)
    <2>1. a \in Seq(S) /\ Len(a) = i - 1 /\ \A k \in 1 .. i - 1 : a[k] = s[k]
      BY <1>1
    <2>2. b \in Seq(S) /\ Len(b) = n - i /\ \A k \in 1 .. n - i : b[k] = s[k + i]
      BY <1>1
    <2>3. t = a \o b
      BY DEF RemoveAt
    <2> HIDE DEF a, b
    <2>4. /\ a \o b \in Seq(S) /\ Len(a \o b) = Len(a) + Len(b)
          /\ \A k \in 1 .. Len(a) + Len(b) :
                (a \o b)[k] = IF k <= Len(a) THEN a[k] ELSE b[k - Len(a)]
      BY <2>1, <2>2, ConcatProperties, Zenon
    <2>6. Len(a) + Len(b) = n - 1 /\ Len(a) = i - 1
      BY <1>1, <2>1, <2>2
    <2>5. ASSUME NEW k \in 1 .. n - 1 PROVE (a \o b)[k] = s[IF k < i THEN k ELSE k + 1]
      <3>1. CASE k < i
        BY <3>1, <1>1, <2>1, <2>4, <2>6
      <3>2. CASE ~(k < i)
        <4>1. (a \o b)[k] = b[k - (i - 1)] /\ k - (i - 1) \in 1 .. n - i
          BY <3>2, <1>1, <2>4, <2>6
        <4>2. b[k - (i - 1)] = s[k - (i - 1) + i]
          BY <4>1, <2>2
        <4>3. k - (i - 1) + i = k + 1
          BY <1>1
        <4> QED BY <4>1, <4>2, <4>3, <3>2
      <3> QED BY <3>1, <3>2
    <2> QED BY <2>3, <2>4, <2>5, <2>6
  <1> HIDE DEF t, n
  <1>3. DOMAIN t = 1 .. n - 1
    BY <1>1, <1>2
  <1>4. Range(t) \subseteq Range(s)
    BY <1>1, <1>2, <1>3 DEF Range
  <1>5. ASSUME NEW x PROVE Copies(t, x) = Copies(s, x) - (IF x = s[i] THEN 1 ELSE 0)
    <2> DEFINE P == Places(s, x) \ {i}
               q == [k \in Places(t, x) |-> IF k < i THEN k ELSE k + 1]
    <2>1. \A k \in 1 .. n - 1 : k \in Places(t, x) <=> (IF k < i THEN k ELSE k + 1) \in P
      BY <1>1, <1>2, <1>3 DEF Places
    <2>2. Places(t, x) \subseteq 1 .. n - 1 /\ P \subseteq 1 .. n
      BY <1>1, <1>3 DEF Places
    <2>3. \A j \in P : \E k \in 1 .. n - 1 : j = IF k < i THEN k ELSE k + 1
      <3> SUFFICES ASSUME NEW j \in P
                   PROVE  \E k \in 1 .. n - 1 : j = IF k < i THEN k ELSE k + 1
        OBVIOUS
      <3>1. j \in 1 .. n /\ j # i
        BY <2>2
      <3>2. CASE j < i
        BY <3>1, <3>2, <1>1
      <3>3. CASE j > i
        <4>1. j - 1 \in 1 .. n - 1 /\ ~(j - 1 < i) /\ j = (j - 1) + 1
          BY <3>1, <3>3, <1>1
        <4> QED BY <4>1
      <3> QED BY <3>1, <3>2, <3>3, <1>1
    <2> HIDE DEF P
    <2>4. q \in [Places(t, x) -> P]
      BY <2>1, <2>2
    <2>5. \A k, l \in Places(t, x) : q[k] = q[l] => k = l
      BY <1>1, <2>2
    <2>6. \A j \in P : \E k \in Places(t, x) : q[k] = j
      BY <2>1, <2>3
    <2> HIDE DEF q
    <2>7. q \in Bijection(Places(t, x), P)
      BY <2>4, <2>5, <2>6 DEF Bijection, Injection, Surjection, IsInjective
    <2>8. ExistsBijection(Places(t, x), P)
      BY <2>7 DEF ExistsBijection
    <2>9. Cardinality(P) = Copies(t, x)
      BY <2>8, <1>2, CopiesCount, FS_Bijection DEF Copies
    <2>10. /\ IsFiniteSet(Places(s, x)) /\ Copies(s, x) \in Nat
           /\ i \in Places(s, x) <=> x = s[i]
      BY <1>1, CopiesCount DEF Places
    <2>11. Cardinality(P) = IF i \in Places(s, x) THEN Copies(s, x) - 1 ELSE Copies(s, x)
      BY <2>10, FS_RemoveElement DEF P, Copies
    <2> QED BY <2>9, <2>10, <2>11
  <1>6. ToBag(t) = ToBag(s) (-) SetToBag({s[i]})
    BY <1>2, <1>5, BagWithoutOne
  <1> QED BY <1>2, <1>4, <1>5, <1>6 DEF t, n

\* One entry in the place of another.
LEMMA UpdateKeeps ==
    ASSUME NEW S, NEW s \in Seq(S), NEW i \in DOMAIN s, NEW e \in S,
           NEW t, t = [s EXCEPT ![i] = e]
    PROVE  /\ t \in Seq(S) /\ DOMAIN t = DOMAIN s /\ Len(t) = Len(s)
           /\ e \in Range(t)
           /\ ToBag(t) = (ToBag(s) (-) SetToBag({s[i]})) (+) SetToBag({e})
  <1> DEFINE r == RemoveAt(s, i)
  <1>1. /\ t \in Seq(S) /\ DOMAIN t = DOMAIN s /\ Len(t) = Len(s)
        /\ t[i] = e /\ \A k \in DOMAIN s : k # i => t[k] = s[k]
    OBVIOUS
  <1>2. e \in Range(t)
    BY <1>1 DEF Range
  <1>3. /\ r \in Seq(S) /\ ToBag(r) = ToBag(s) (-) SetToBag({s[i]})
        /\ \A x : Copies(r, x) = Copies(s, x) - (IF x = s[i] THEN 1 ELSE 0)
    BY RemoveKeeps
  <1> HIDE DEF r
  <1>4. ASSUME NEW x PROVE Cardinality(Places(s, x) \ {i}) = Copies(r, x)
                           /\ IsFiniteSet(Places(s, x) \ {i})
    <2>1. IsFiniteSet(Places(s, x)) /\ Copies(s, x) \in Nat /\ (i \in Places(s, x) <=> x = s[i])
      BY CopiesCount DEF Places
    <2>2. /\ IsFiniteSet(Places(s, x) \ {i})
          /\ Cardinality(Places(s, x) \ {i}) =
                IF i \in Places(s, x) THEN Copies(s, x) - 1 ELSE Copies(s, x)
      BY <2>1, FS_RemoveElement DEF Copies
    <2> QED BY <2>1, <2>2, <1>3
  <1>5. Copies(t, e) = Copies(r, e) + 1
    <2>1. Places(t, e) = (Places(s, e) \ {i}) \cup {i} /\ i \notin Places(s, e) \ {i}
      BY <1>1 DEF Places
    <2> DEFINE P == Places(s, e) \ {i}
    <2>2. IsFiniteSet(P) /\ Cardinality(P) = Copies(r, e)
      BY <1>4
    <2> HIDE DEF P
    <2>3. Cardinality(P \cup {i}) = Copies(r, e) + 1
      BY <2>1, <2>2, FS_AddElement DEF P
    <2> QED BY <2>1, <2>3 DEF P, Copies
  <1>6. ASSUME NEW x, x # e PROVE Copies(t, x) = Copies(r, x)
    <2>1. Places(t, x) = Places(s, x) \ {i}
      BY <1>1, <1>6 DEF Places
    <2> QED BY <2>1, <1>4 DEF Copies
  <1>7. ToBag(t) = ToBag(r) (+) SetToBag({e})
    BY <1>1, <1>3, <1>5, <1>6, BagWithOne
  <1> QED BY <1>1, <1>2, <1>3, <1>7

\* However the box arranges it.
LEMMA ArrangedKeeps ==
    ASSUME NEW S, NEW s \in Seq(S), NEW t \in Arranged(s)
    PROVE  /\ t \in Seq(S) /\ Len(t) = Len(s) /\ DOMAIN t = DOMAIN s
           /\ Range(t) = Range(s) /\ ToBag(t) = ToBag(s)
  BY SortingKeeps DEF Arranged

-----------------------------------------------------------------------------
(***************************************************************************)
(* Types, and the names in the list.                                        *)
(***************************************************************************)
\* Entries whose name is the one in the record.
Agreeing == {e \in Entries : e.record = Garbled \/ e.name = e.record.name}

\* The list and its dialogs.  Only the question on_close has asked sets
\* force_close, and the dialog is gone then; while a new record is entered,
\* there is room for it.
ListInv == /\ list \in Seq(Agreeing) /\ Len(list) <= MaxRecords
           /\ ascending \in BOOLEAN /\ records_changed \in BOOLEAN
           /\ record_index \in {NoIndex} \cup Rows
           /\ window \in Windows
           /\ dialog \in RecordDialog /\ ~dialog.force_close
           /\ window = "record" /\ dialog.newrecord => Len(list) < MaxRecords

LEMMA StoredTyped ==
    ASSUME NEW text \in Texts
    PROVE  Stored(text) \in StoredTexts
  BY SizeAssumption DEF Stored, StoredTexts, Texts

\* What the dialog makes of its fields.
LEMMA EntryAgrees ==
    ASSUME NEW name \in Texts, NEW password \in Texts
    PROVE  LET e == Entry(name, password)
           IN  /\ e \in Agreeing /\ e.record # Garbled
               /\ e.record.password = Stored(password)
  <1> DEFINE r == Record(name, password)
             e == Entry(name, password)
  <1>1. r \in Plain /\ r.name = Stored(name) /\ r.password = Stored(password)
    BY StoredTyped DEF Record, Plain
  <1>2. e.name = Stored(name) /\ e.record = r
    BY DEF Entry
  <1>3. e \in Entries
    BY <1>1, StoredTyped DEF Entry, Entries
  <1> HIDE DEF r, e
  <1>4. r # Garbled
    BY <1>1, GarbledAssumption
  <1> QED BY <1>1, <1>2, <1>3, <1>4 DEF Agreeing, r, e

\* The fields of a new dialog have their types.
LEMMA FieldsTyped ==
    ASSUME NEW newrecord \in BOOLEAN, NEW name \in Texts, NEW password \in Texts
    PROVE  LET d == Fields(newrecord, name, password)
           IN  d \in RecordDialog /\ ~d.force_close /\ d.newrecord = newrecord
  BY DEF RecordDialog, Fields

LEMMA NoDialogTyped == NoDialog \in RecordDialog /\ ~NoDialog.force_close
  <1>1. 0 \in Texts /\ TRUE \in BOOLEAN
    BY SizeAssumption DEF Texts
  <1> QED BY <1>1, FieldsTyped DEF NoDialog

\* The dialog changes, and nothing else.
LEMMA ListKeptByDialog ==
    ASSUME ListInv, UNCHANGED <<window, list, ascending, record_index, records_changed>>,
           dialog' \in RecordDialog, ~dialog'.force_close, dialog'.newrecord = dialog.newrecord
    PROVE  ListInv'
  BY DEF ListInv, Rows

LEMMA ListKeptByEdits ==
    ASSUME ListInv,
           \/ \E name, password \in Texts : Type(name, password)
           \/ ToggleReadonly \/ OpenGenerator \/ CloseGenerator
    PROVE  ListInv'
  <1>1. dialog \in RecordDialog /\ ~dialog.force_close
    BY DEF ListInv
  <1>2. ASSUME NEW name \in Texts, NEW password \in Texts, Type(name, password) PROVE ListInv'
    <2>1. dialog' \in RecordDialog /\ ~dialog'.force_close /\ dialog'.newrecord = dialog.newrecord
      BY <1>1, <1>2 DEF Type, RecordDialog
    <2> QED BY <1>2, <2>1, ListKeptByDialog DEF Type, KeepsDialog
  <1>3. CASE ToggleReadonly
    <2>1. dialog' \in RecordDialog /\ ~dialog'.force_close /\ dialog'.newrecord = dialog.newrecord
      BY <1>1, <1>3 DEF ToggleReadonly, RecordDialog
    <2> QED BY <1>3, <2>1, ListKeptByDialog DEF ToggleReadonly, KeepsDialog
  <1>4. CASE OpenGenerator
    <2>1. dialog' \in RecordDialog /\ ~dialog'.force_close /\ dialog'.newrecord = dialog.newrecord
      BY <1>1, <1>4 DEF OpenGenerator, RecordDialog
    <2> QED BY <1>4, <2>1, ListKeptByDialog DEF OpenGenerator, KeepsDialog
  <1>5. CASE CloseGenerator
    <2>1. dialog' \in RecordDialog /\ ~dialog'.force_close /\ dialog'.newrecord = dialog.newrecord
      BY <1>1, <1>5 DEF CloseGenerator, RecordDialog
    <2> QED BY <1>5, <2>1, ListKeptByDialog DEF CloseGenerator, KeepsDialog
  <1> QED BY <1>2, <1>3, <1>4, <1>5

\* The dialog is closed, and the list as it was or changed.
LEMMA ListKeptByClosing ==
    ASSUME ListInv, Closed, list' \in Seq(Agreeing), Len(list') <= MaxRecords,
           UNCHANGED ascending, records_changed' \in BOOLEAN
    PROVE  ListInv'
  <1>1. dialog' \in RecordDialog /\ ~dialog'.force_close
    BY NoDialogTyped DEF Closed
  <1> QED BY <1>1 DEF ListInv, Closed, Windows

LEMMA ListKeptByChange ==
    ASSUME ListInv, Closed, NEW new \in Seq(Agreeing), Len(new) <= MaxRecords, ListChanges(new)
    PROVE  ListInv'
  <1>1. list' \in Seq(Agreeing) /\ Len(list') = Len(new)
    BY ArrangedKeeps DEF ListChanges
  <1>2. records_changed' \in BOOLEAN /\ UNCHANGED ascending
    BY DEF ListChanges
  <1> QED BY <1>1, <1>2, ListKeptByClosing

LEMMA ListKeptByOk ==
    ASSUME ListInv, Ok
    PROVE  ListInv'
  <1> DEFINE e == Entry(dialog.name, dialog.password)
  <1>1. Closed /\ window = "record"
    BY DEF Ok, Field, Answer
  <1>2. e \in Agreeing
    <2>1. dialog.name \in Texts /\ dialog.password \in Texts
      BY DEF ListInv, RecordDialog
    <2> QED BY <2>1, EntryAgrees
  <1> HIDE DEF e
  <1>3. list \in Seq(Agreeing) /\ Len(list) <= MaxRecords /\ DOMAIN list = Rows
    BY DEF ListInv, Rows
  <1>4. CASE UNCHANGED <<list, ascending, records_changed, search>>
    BY <1>1, <1>4, ListKeptByClosing DEF ListInv
  <1>5. CASE dialog.newrecord /\ ListChanges(Append(list, e))
    <2>1. Append(list, e) \in Seq(Agreeing)
      BY <1>2, <1>3
    <2>2. Len(Append(list, e)) <= MaxRecords
      BY <1>1, <1>3, <1>5, SizeAssumption DEF ListInv
    <2> QED BY <1>1, <1>5, <2>1, <2>2, ListKeptByChange
  <1>6. CASE Update(e)
    <2>1. record_index \in Rows
      BY <1>6 DEF Update, ListInv
    <2>2. /\ [list EXCEPT ![record_index] = e] \in Seq(Agreeing)
          /\ Len([list EXCEPT ![record_index] = e]) = Len(list)
      BY <1>2, <1>3, <2>1
    <2> QED BY <1>1, <1>3, <1>6, <2>2, ListKeptByChange DEF Update
  <1> QED BY <1>4, <1>5, <1>6 DEF Ok, e

LEMMA ListKeptByOnClose ==
    ASSUME ListInv, NEW d \in RecordDialog, d.newrecord = dialog.newrecord, OnClose(d),
           UNCHANGED <<list, ascending, records_changed>>
    PROVE  ListInv'
  <1>1. CASE Changed(d) /\ ~d.force_close
    <2>1. dialog' = [d EXCEPT !.top = "confirm"] /\ UNCHANGED <<window, record_index>>
      BY <1>1 DEF OnClose
    <2>2. dialog' \in RecordDialog /\ ~dialog'.force_close /\ dialog'.newrecord = dialog.newrecord
      BY <1>1, <2>1 DEF RecordDialog
    <2> QED BY <2>1, <2>2, ListKeptByDialog
  <1>2. CASE Closed
    BY <1>2, ListKeptByClosing DEF ListInv
  <1> QED BY <1>1, <1>2 DEF OnClose

LEMMA ListKeptByAnswers ==
    ASSUME ListInv, WindowInv, OkFails \/ Cancel \/ ConfirmDiscard \/ ConfirmDelete
    PROVE  ListInv'
  <1>1. dialog \in RecordDialog /\ list \in Seq(Agreeing) /\ Len(list) <= MaxRecords
    BY DEF ListInv
  <1>2. CASE OkFails
    <2>1. CASE Changed(dialog)
      BY <1>2, <2>1, ListKeptByDialog DEF OkFails, ListInv
    <2>2. CASE Closed
      BY <1>2, <2>2, ListKeptByClosing DEF OkFails, ListInv
    <2> QED BY <1>2, <2>1, <2>2 DEF OkFails
  <1>3. CASE Cancel
    BY <1>1, <1>3, ListKeptByOnClose DEF Cancel
  <1>4. CASE ConfirmDiscard
    <2>1. CASE OnClose([dialog EXCEPT !.force_close = TRUE])
      <3> DEFINE d == [dialog EXCEPT !.force_close = TRUE]
      <3>1. d \in RecordDialog /\ d.newrecord = dialog.newrecord
        BY <1>1 DEF RecordDialog
      <3> QED BY <3>1, <2>1, <1>4, ListKeptByOnClose DEF ConfirmDiscard
    <2>2. CASE dialog' = [dialog EXCEPT !.top = "fields"] /\ UNCHANGED <<window, record_index>>
      <3>1. /\ dialog' \in RecordDialog /\ dialog'.newrecord = dialog.newrecord
            /\ dialog'.force_close = dialog.force_close
        BY <1>1, <2>2 DEF RecordDialog
      <3> QED BY <3>1, <2>2, <1>4, ListKeptByDialog DEF ConfirmDiscard, ListInv
    <2> QED BY <1>4, <2>1, <2>2 DEF ConfirmDiscard
  <1>5. CASE ConfirmDelete
    <2>1. Closed /\ record_index \in DOMAIN list
      BY <1>5 DEF ConfirmDelete, Answer, WindowInv, AssertionsHold, ListInv, Rows
    <2>2. /\ RemoveAt(list, record_index) \in Seq(Agreeing)
          /\ Len(RemoveAt(list, record_index)) = Len(list) - 1
      BY <1>1, <2>1, RemoveKeeps
    <2>3. Len(RemoveAt(list, record_index)) <= MaxRecords
      BY <1>1, <2>2, SizeAssumption
    <2>4. CASE ListChanges(RemoveAt(list, record_index))
      BY <2>1, <2>2, <2>3, <2>4, ListKeptByChange
    <2>5. CASE UNCHANGED <<list, ascending, records_changed, search>>
      BY <2>1, <2>5, ListKeptByClosing DEF ListInv
    <2> QED BY <1>5, <2>4, <2>5 DEF ConfirmDelete
  <1> QED BY <1>2, <1>3, <1>4, <1>5

\* A dialog opens on what the list holds.
LEMMA ListKeptByOpening ==
    ASSUME ListInv, NewRecord \/ \E row \in Rows : ShowRecord(row) \/ DeleteSelected(row)
    PROVE  ListInv'
  <1>1. 0 \in Texts /\ StoredTexts \subseteq Texts
    BY SizeAssumption DEF Texts, StoredTexts
  <1>2. CASE NewRecord
    <2>1. dialog' \in RecordDialog /\ ~dialog'.force_close
      BY <1>1, <1>2, FieldsTyped DEF NewRecord
    <2> QED BY <1>2, <2>1 DEF NewRecord, KeepsDialog, ListInv, Rows, Windows
  <1>3. ASSUME NEW row \in Rows, ShowRecord(row) PROVE ListInv'
    <2> DEFINE record == list[row].record
    <2>1. record \in Plain \cup {Garbled}
      BY DEF ListInv, Rows, Agreeing, Entries
    <2>2. dialog' \in RecordDialog /\ ~dialog'.force_close /\ ~dialog'.newrecord
      <3>1. CASE record = Garbled
        <4> DEFINE d == Fields(FALSE, 0, 0)
        <4>1. d \in RecordDialog /\ ~d.force_close /\ ~d.newrecord
          BY <1>1, FieldsTyped
        <4>2. dialog' = [d EXCEPT !.error = TRUE]
          BY <1>3, <3>1 DEF ShowRecord
        <4> HIDE DEF d
        <4> QED BY <4>1, <4>2 DEF RecordDialog
      <3>2. CASE record # Garbled
        <4> DEFINE d == Fields(FALSE, record.name, record.password)
        <4>1. record.name \in Texts /\ record.password \in Texts
          BY <1>1, <2>1, <3>2 DEF Plain
        <4>2. d \in RecordDialog /\ ~d.force_close /\ ~d.newrecord
          BY <4>1, FieldsTyped
        <4>3. dialog' = [d EXCEPT !.readonly = TRUE]
          BY <1>3, <3>2 DEF ShowRecord
        <4> HIDE DEF d
        <4> QED BY <4>2, <4>3 DEF RecordDialog
      <3> QED BY <3>1, <3>2
    <2> QED BY <1>3, <2>2 DEF ShowRecord, ListInv, Rows, Windows
  <1>4. ASSUME NEW row \in Rows, DeleteSelected(row) PROVE ListInv'
    BY <1>4 DEF DeleteSelected, ListInv, Rows, Windows
  <1> QED BY <1>2, <1>3, <1>4

LEMMA ListKeptElsewhere ==
    ASSUME ListInv,
           \/ SearchFirst \/ SearchNext \/ SortOrder \/ Saved \/ LockScreen \/ Ended
           \/ UNCHANGED vars
           \/ \E needle \in Texts : CloseSearch(needle)
           \/ \E w \in {"help", "info", "pwgen"} : Show(w) \/ Close(w)
    PROVE  ListInv'
  <1>1. CASE SearchFirst
    BY <1>1 DEF SearchFirst, KeepsDialog, ListInv, Rows, Windows
  <1>2. CASE SearchNext
    BY <1>2 DEF SearchNext, ListInv, Rows
  <1>3. CASE SortOrder
    <2>1. list' \in Seq(Agreeing) /\ Len(list') = Len(list)
      BY <1>3, SortingKeeps DEF SortOrder, ListInv
    <2> QED BY <1>3, <2>1 DEF SortOrder, HotKey, ListInv, Rows
  <1>4. CASE Saved
    BY <1>4 DEF Saved, ListInv, Rows
  <1>5. CASE Ended \/ UNCHANGED vars
    BY <1>5 DEF Ended, vars, ListInv, Rows
  <1>6. CASE \E needle \in Texts : CloseSearch(needle)
    BY <1>6 DEF CloseSearch, ListInv, Rows, Windows
  <1>7. CASE \E w \in {"help", "info", "pwgen"} : Show(w) \/ Close(w)
    BY <1>7 DEF Show, Close, KeepsDialog, ListInv, Rows, Windows
  <1>8. CASE LockScreen
    BY <1>8, LockScreenKeeps DEF ListInv, Rows
  <1> QED BY <1>1, <1>2, <1>3, <1>4, <1>5, <1>6, <1>7, <1>8

LEMMA ListInit == Init => ListInv
  <1> SUFFICES ASSUME Init PROVE ListInv
    OBVIOUS
  <1>1. PICK n \in 0 .. MaxRecords : list \in [1 .. n -> Readable]
    BY DEF Init
  <1>2. Readable \subseteq Agreeing
    BY DEF Readable, Agreeing
  <1>3. list \in Seq(Agreeing) /\ Len(list) = n /\ n <= MaxRecords
    BY <1>1, <1>2, SizeAssumption
  <1> QED BY <1>3, NoDialogTyped DEF Init, ListInv, Windows

LEMMA ListNext == ListInv /\ WindowInv /\ [Next]_vars => ListInv'
  <1> SUFFICES ASSUME ListInv, WindowInv, [Next]_vars PROVE ListInv'
    OBVIOUS
  <1> QED BY ListKeptByEdits, ListKeptByOk, ListKeptByAnswers, ListKeptByOpening,
             ListKeptElsewhere DEF Next

-----------------------------------------------------------------------------
\* The search, its rows those of the list.
FoundInv == /\ finder \in Texts /\ last \in 0 .. MaxRecords
            /\ seen \subseteq 1 .. MaxRecords /\ stale \in BOOLEAN
            /\ locked \in BOOLEAN /\ over \in BOOLEAN

LEMMA FoundRows ==
    ASSUME ListInv, NEW needle, NEW from \in Nat, Search(needle, from) # NoIndex
    PROVE  Search(needle, from) \in 1 .. MaxRecords
  <1>1. Search(needle, from) \in Rows
    BY SearchFinds DEF Matches
  <1> QED BY <1>1, SizeAssumption DEF ListInv, Rows

LEMMA FoundByVisit ==
    ASSUME FoundInv, NEW row \in 1 .. MaxRecords, NEW before \in SUBSET (1 .. MaxRecords),
           Visits(row, before)
    PROVE  last' \in 0 .. MaxRecords /\ seen' \subseteq 1 .. MaxRecords
  BY SizeAssumption DEF Visits

LEMMA FoundBySearching ==
    ASSUME ListInv, FoundInv, SearchNext \/ \E needle \in Texts : CloseSearch(needle)
    PROVE  FoundInv'
  <1>1. CASE SearchNext
    <2> DEFINE row == Search(finder, last + 1)
    <2>1. last + 1 \in Nat
      BY SizeAssumption DEF FoundInv
    <2>2. CASE row = NoIndex
      BY <1>1, <2>2, SizeAssumption DEF SearchNext, FoundInv, Texts
    <2>3. CASE row # NoIndex
      <3>1. row \in 1 .. MaxRecords
        BY <2>1, <2>3, FoundRows
      <3>2. finder' = finder /\ Visits(row, IF stale THEN {} ELSE seen)
        BY <1>1, <2>3 DEF SearchNext
      <3>3. (IF stale THEN {} ELSE seen) \in SUBSET (1 .. MaxRecords)
        BY DEF FoundInv
      <3> HIDE DEF row
      <3>4. last' \in 0 .. MaxRecords /\ seen' \subseteq 1 .. MaxRecords
        BY <3>1, <3>2, <3>3, FoundByVisit
      <3> QED BY <1>1, <3>2, <3>4 DEF SearchNext, FoundInv
    <2> QED BY <2>2, <2>3
  <1>2. ASSUME NEW needle \in Texts, CloseSearch(needle) PROVE FoundInv'
    <2> DEFINE row == Search(needle, 0)
    <2>1. CASE UNCHANGED search
      BY <1>2, <2>1 DEF CloseSearch, search, FoundInv
    <2>2. CASE finder' = needle /\ stale' = FALSE /\ row = NoIndex /\ last' = 0 /\ seen' = {}
      <3>1. 0 \in 0 .. MaxRecords
        BY SizeAssumption
      <3>2. UNCHANGED <<locked, over>>
        BY <1>2 DEF CloseSearch
      <3> QED BY <2>2, <3>1, <3>2 DEF FoundInv
    <2>3. CASE finder' = needle /\ stale' = FALSE /\ row # NoIndex /\ Visits(row, {})
      <3>1. row \in 1 .. MaxRecords
        BY <2>3, FoundRows
      <3>2. last' \in 0 .. MaxRecords /\ seen' \subseteq 1 .. MaxRecords
        BY <2>3, <3>1, FoundByVisit
      <3> QED BY <1>2, <2>3, <3>2 DEF CloseSearch, FoundInv
    <2> QED BY <1>2, <2>1, <2>2, <2>3 DEF CloseSearch
  <1> QED BY <1>1, <1>2

LEMMA FoundByChange ==
    ASSUME FoundInv, seen' = {}, stale' = (finder # 0), UNCHANGED <<finder, last>>,
           locked' \in BOOLEAN, over' \in BOOLEAN
    PROVE  FoundInv'
  BY DEF FoundInv

LEMMA FoundNext == ListInv /\ FoundInv /\ [Next]_vars => FoundInv'
  <1> SUFFICES ASSUME ListInv, FoundInv, [Next]_vars PROVE FoundInv'
    OBVIOUS
  <1>1. CASE \/ NewRecord \/ \E row \in Rows : ShowRecord(row) \/ DeleteSelected(row)
             \/ \E name, password \in Texts : Type(name, password)
             \/ ToggleReadonly \/ OpenGenerator \/ CloseGenerator
    BY <1>1 DEF NewRecord, ShowRecord, DeleteSelected, Type, ToggleReadonly,
       OpenGenerator, CloseGenerator, KeepsDialog, search, FoundInv
  <1>2. CASE Ok \/ ConfirmDelete
    <2>1. CASE UNCHANGED <<list, ascending, records_changed, search>>
      BY <1>2, <2>1 DEF Ok, ConfirmDelete, search, FoundInv
    <2>2. CASE \E new : ListChanges(new)
      BY <1>2, <2>2, FoundByChange DEF Ok, ConfirmDelete, ListChanges, FoundInv
    <2> QED BY <1>2, <2>1, <2>2 DEF Ok, Update, ConfirmDelete
  <1>3. CASE OkFails \/ Cancel \/ ConfirmDiscard \/ SearchFirst \/ Saved
    BY <1>3 DEF OkFails, Cancel, ConfirmDiscard, SearchFirst, Saved, KeepsDialog, search, FoundInv
  <1>4. CASE SortOrder
    BY <1>4, FoundByChange DEF SortOrder, FoundInv
  <1>5. CASE \E w \in {"help", "info", "pwgen"} : Show(w) \/ Close(w)
    BY <1>5 DEF Show, Close, KeepsDialog, search, FoundInv
  <1>6. CASE Ended \/ UNCHANGED vars
    BY <1>6 DEF Ended, vars, search, FoundInv
  <1>7. CASE LockScreen
    <2>1. UNCHANGED search
      BY <1>7, LockScreenKeeps
    <2>2. locked' \in BOOLEAN /\ over' \in BOOLEAN
      BY <1>7 DEF LockScreen, Lock, Unlock, LockQuit, FoundInv
    <2> QED BY <2>1, <2>2 DEF search, FoundInv
  <1> QED BY <1>1, <1>2, <1>3, <1>4, <1>5, <1>6, <1>7, FoundBySearching DEF Next

\* What the window keeps, whatever its dialogs are answered.
Inv == WindowInv /\ ListInv /\ FoundInv

LEMMA InvInit == Init => Inv
  <1>1. 0 \in Texts /\ 0 \in 0 .. MaxRecords
    BY SizeAssumption DEF Texts
  <1>2. Init => FoundInv
    BY <1>1 DEF Init, FoundInv
  <1> QED BY <1>2, WindowInit, ListInit DEF Inv

LEMMA InvNext == Inv /\ [Next]_vars => Inv'
  BY WindowNext, ListNext, FoundNext DEF Inv

\* The types of the window's state: the list is never longer than its bound,
\* the index and the search stay in the list.
THEOREM WindowTyped == Spec => []TypeOK
  <1>1. Inv => TypeOK
    <2> SUFFICES ASSUME Inv PROVE TypeOK
      OBVIOUS
    <2>1. list \in Seq(Entries)
      <3>1. Agreeing \subseteq Entries
        BY DEF Agreeing
      <3> QED BY <3>1, SeqMonotonic DEF Inv, ListInv
    <2> QED BY <2>1 DEF Inv, ListInv, FoundInv, TypeOK
  <1> QED BY <1>1, InvInit, InvNext, PTL DEF Spec

\* The name the list is sorted by is the one in the record (passwordlistitem.cc:38).
THEOREM WindowNamesAgree == Spec => []NamesAgree
  <1>1. Inv => NamesAgree
    BY DEF Inv, ListInv, NamesAgree, Rows, Agreeing
  <1> QED BY <1>1, InvInit, InvNext, PTL DEF Spec

-----------------------------------------------------------------------------
(***************************************************************************)
(* What was entered is not lost unasked.                                    *)
(***************************************************************************)
Discarded == (Entered /\ (window' # "record" \/ (over' /\ ~over))) =>
                 \/ dialog.top = "confirm" /\ window' # "record"
                 \/ Entry(dialog.name, dialog.password) \in Range(list')
                 \/ ~locked /\ over'
                 \/ locked /\ over' /\ ~records_changed'

\* However the box arranges a list, an entry in it stays in it.
LEMMA EntryStays ==
    ASSUME NEW new \in Seq(Agreeing), ListChanges(new), NEW e \in Range(new)
    PROVE  e \in Range(list')
  BY ArrangedKeeps DEF ListChanges

LEMMA OkStores ==
    ASSUME Inv, Ok, Changed(dialog)
    PROVE  Entry(dialog.name, dialog.password) \in Range(list')
  <1> DEFINE e == Entry(dialog.name, dialog.password)
  <1>1. dialog.name \in Texts /\ dialog.password \in Texts
    BY DEF Inv, ListInv, RecordDialog
  <1>2. e \in Agreeing
    BY <1>1, EntryAgrees
  <1>3. list \in Seq(Agreeing) /\ DOMAIN list = Rows
    BY DEF Inv, ListInv, Rows
  <1>4. IF dialog.newrecord THEN ListChanges(Append(list, e)) ELSE Update(e)
    BY DEF Ok
  <1> HIDE DEF e
  <1>5. CASE ListChanges(Append(list, e))
    <2> DEFINE new == Append(list, e)
    <2>1. /\ new \in Seq(Agreeing) /\ Len(new) = Len(list) + 1
          /\ new[Len(new)] = e /\ \A i \in DOMAIN list : new[i] = list[i]
      BY <1>2, <1>3
    <2>2. ListChanges(new)
      BY <1>5
    <2> HIDE DEF new
    <2>3. e \in Range(new)
      BY <1>3, <2>1 DEF Range
    <2> QED BY <2>1, <2>2, <2>3, EntryStays DEF e
  <1>6. CASE Update(e)
    <2> DEFINE new == [list EXCEPT ![record_index] = e]
    <2>1. record_index \in DOMAIN list
      BY <1>3, <1>6 DEF Update, Inv, ListInv
    <2>2. new \in Seq(Agreeing) /\ e \in Range(new)
      BY <1>2, <1>3, <2>1, UpdateKeeps
    <2>3. ListChanges(new)
      BY <1>6 DEF Update
    <2> HIDE DEF new
    <2> QED BY <2>2, <2>3, EntryStays DEF e
  <1> QED BY <1>4, <1>5, <1>6

\* How the dialog is left while the program goes on.
LEMMA LeftAgreed ==
    ASSUME Inv, [Next]_vars, Entered, window' # "record"
    PROVE  \/ dialog.top = "confirm"
           \/ Entry(dialog.name, dialog.password) \in Range(list')
  <1> SUFFICES ASSUME dialog.top # "confirm"
               PROVE  Entry(dialog.name, dialog.password) \in Range(list')
    OBVIOUS
  <1>0. window = "record"
    BY DEF Entered
  <1>1. Changed(dialog) /\ ~dialog.force_close
    BY DEF Changed, Entered, Inv, ListInv
  <1>2. CASE Ok
    BY <1>1, <1>2, OkStores
  <1>3. CASE Cancel
    BY <1>0, <1>1, <1>3 DEF Cancel, OnClose
  <1>4. CASE OkFails
    BY <1>0, <1>1, <1>4 DEF OkFails
  <1>5. CASE \/ \E name, password \in Texts : Type(name, password)
             \/ ToggleReadonly \/ OpenGenerator \/ CloseGenerator
    BY <1>0, <1>5, Zenon DEF Type, ToggleReadonly, OpenGenerator, CloseGenerator
  <1>6. CASE ConfirmDiscard
    BY <1>6 DEF ConfirmDiscard
  <1>7. CASE \/ NewRecord \/ \E row \in Rows : ShowRecord(row) \/ DeleteSelected(row)
             \/ SearchFirst \/ SearchNext \/ SortOrder \/ Saved
             \/ \E w \in {"help", "info", "pwgen"} : Show(w)
    BY <1>0, <1>7, Zenon DEF NewRecord, ShowRecord, DeleteSelected, SearchFirst, SearchNext,
       SortOrder, Saved, Show, HotKey
  <1>8. CASE \/ ConfirmDelete \/ \E needle \in Texts : CloseSearch(needle)
             \/ \E w \in {"help", "info", "pwgen"} : Close(w)
    BY <1>0, <1>8 DEF ConfirmDelete, CloseSearch, Close, Answer
  <1>9. CASE LockScreen
    BY <1>0, <1>9, LockScreenKeeps
  <1>10. CASE Ended \/ UNCHANGED vars
    BY <1>0, <1>10 DEF Ended, vars
  <1> QED BY <1>2, <1>3, <1>4, <1>5, <1>6, <1>7, <1>8, <1>9, <1>10 DEF Next

\* Only a failed encryption and the lock screen end the program.
LEMMA EndsKnown ==
    ASSUME [Next]_vars, over', ~over
    PROVE  ~locked \/ ~records_changed'
  <1>1. CASE OkFails
    BY <1>1 DEF OkFails, Field, Answer, UserTurn
  <1>2. CASE LockScreen
    BY <1>2 DEF LockScreen, Lock, Unlock, LockQuit
  <1>3. CASE UserTurn
    BY <1>3 DEF UserTurn
  <1>4. CASE Ended \/ UNCHANGED vars
    BY <1>4 DEF Ended, vars
  <1>5. \/ OkFails \/ LockScreen \/ UserTurn \/ Ended \/ UNCHANGED vars
    BY Zenon DEF Next, NewRecord, ShowRecord, DeleteSelected, Type, ToggleReadonly, OpenGenerator,
       CloseGenerator, Ok, Cancel, ConfirmDiscard, ConfirmDelete, SearchFirst, CloseSearch,
       SearchNext, SortOrder, Show, Close, Saved, HotKey, Answer, Field
  <1> QED BY <1>1, <1>2, <1>3, <1>4, <1>5

LEMMA DiscardedStep == Inv /\ [Next]_vars => Discarded
  <1> SUFFICES ASSUME Inv, [Next]_vars PROVE Discarded
    OBVIOUS
  <1>1. ASSUME Entered, window' # "record"
        PROVE  \/ dialog.top = "confirm" /\ window' # "record"
               \/ Entry(dialog.name, dialog.password) \in Range(list')
    BY <1>1, LeftAgreed
  <1>2. ASSUME over', ~over PROVE (~locked /\ over') \/ (locked /\ over' /\ ~records_changed')
    BY <1>2, EndsKnown
  <1> QED BY <1>1, <1>2 DEF Discarded

\* When the record dialog goes away, or the program ends over it, what was
\* entered is in the list, or was given up in the confirmation, or the
\* encryption failed, or the user quit at the lock screen (yapetunlockdialog.cc:62).
THEOREM WindowDiscardsAgreed == Spec => DiscardsAgreed
  <1>1. Inv /\ [Next]_vars => [Discarded]_vars
    BY DiscardedStep
  <1>2. [][Discarded]_vars => DiscardsAgreed
    BY PTL DEF Discarded, DiscardsAgreed
  <1> QED BY <1>1, <1>2, InvInit, InvNext, PTL DEF Spec

-----------------------------------------------------------------------------
(***************************************************************************)
(* The window implements RecordList.                                        *)
(***************************************************************************)
Implements == Abstract!Next \/ UNCHANGED Abstract!vars

\* What the dialog is about is an entry of the list.
LEMMA ShownEntry ==
    ASSUME ListInv, NEW row \in Rows
    PROVE  list[row] \in Range(list) /\ list[row] # Garbled
  <1>1. list[row] \in Range(list) /\ list[row] \in Entries
    BY DEF ListInv, Rows, Range, Agreeing
  <1> QED BY <1>1, GarbledAssumption

LEMMA AbstractInit == Init => Abstract!Init
  <1> SUFFICES ASSUME Init PROVE Abstract!Init
    OBVIOUS
  <1>1. list \in Seq(Entries)
    <2>1. list \in Seq(Agreeing) /\ Agreeing \subseteq Entries
      BY ListInit DEF ListInv, Agreeing
    <2> QED BY <2>1, SeqMonotonic
  <1>2. IsABag(ToBag(list)) /\ BagToSet(ToBag(list)) \subseteq Entries
    BY <1>1, BagOfList
  <1> QED BY <1>2 DEF Init, Abstract!Init, Abstract!IsABag, Abstract!BagToSet, IsABag, BagToSet

LEMMA AbstractStutters ==
    ASSUME ToBag(list') = ToBag(list), UNCHANGED <<record_index, records_changed>>,
           record_index = NoIndex \/ UNCHANGED list
    PROVE  Implements
  BY DEF Implements, Abstract!vars

LEMMA AbstractLeaves ==
    ASSUME Closed, UNCHANGED <<list, records_changed>>
    PROVE  Implements
  BY DEF Closed, Implements, Abstract!Next, Abstract!Leave

LEMMA AbstractShows ==
    ASSUME Inv, NEW row \in Rows, HotKey, record_index' = row, UNCHANGED <<list, records_changed>>
    PROVE  Implements
  <1>1. record_index = NoIndex
    BY DEF HotKey, Inv, WindowInv, AssertionsHold
  <1>2. list[row] \in BagToSet(ToBag(list))
    <2>1. list \in Seq(Agreeing)
      BY DEF Inv, ListInv
    <2> QED BY <2>1, BagOfList, ShownEntry DEF Inv
  <1>3. row # NoIndex
    BY RowsAreNumbers
  <1>4. Abstract!Show
    BY <1>1, <1>2, <1>3 DEF Abstract!Show, Abstract!BagToSet, BagToSet
  <1> QED BY <1>4 DEF Implements, Abstract!Next

\* What ListChanges does to the bag.
LEMMA ChangedBag ==
    ASSUME NEW new \in Seq(Agreeing), ListChanges(new)
    PROVE  ToBag(list') = ToBag(new) /\ records_changed' = TRUE
  BY ArrangedKeeps DEF ListChanges

LEMMA AbstractAdds ==
    ASSUME Inv, record_index = NoIndex, Closed, NEW e \in Agreeing, ListChanges(Append(list, e))
    PROVE  Implements
  <1> DEFINE new == Append(list, e)
  <1>1. list \in Seq(Agreeing)
    BY DEF Inv, ListInv
  <1>2. /\ new \in Seq(Agreeing) /\ Len(new) = Len(list) + 1
        /\ new[Len(new)] = e /\ \A i \in DOMAIN list : new[i] = list[i]
    BY <1>1
  <1>3. ListChanges(new)
    OBVIOUS
  <1> HIDE DEF new
  <1>4. ToBag(new) = ToBag(list) (+) SetToBag({e})
    BY <1>1, <1>2, AppendKeeps
  <1>5. ToBag(list') = ToBag(list) (+) SetToBag({e}) /\ records_changed' = TRUE
    BY <1>2, <1>3, <1>4, ChangedBag
  <1>6. Abstract!Add(e)
    BY <1>5 DEF Closed, Abstract!Add, Abstract!Changes, Abstract!(+), Abstract!SetToBag,
       (+), SetToBag
  <1>7. e \in Entries
    BY DEF Agreeing
  <1> QED BY <1>6, <1>7 DEF Implements, Abstract!Next

LEMMA AbstractReplaces ==
    ASSUME Inv, Closed, NEW e \in Agreeing, Update(e)
    PROVE  Implements
  <1> DEFINE new == [list EXCEPT ![record_index] = e]
             old == list[record_index]
  <1>1. list \in Seq(Agreeing) /\ record_index \in DOMAIN list /\ record_index # NoIndex
    BY DEF Update, Inv, ListInv, Rows
  <1>2. old # Garbled
    BY <1>1, ShownEntry DEF Inv, ListInv, Rows
  <1>3. /\ new \in Seq(Agreeing)
        /\ ToBag(new) = (ToBag(list) (-) SetToBag({old})) (+) SetToBag({e})
    BY <1>1, UpdateKeeps
  <1>4. ListChanges(new)
    BY DEF Update
  <1> HIDE DEF new
  <1>5. /\ ToBag(list') = (ToBag(list) (-) SetToBag({old})) (+) SetToBag({e})
        /\ records_changed' = TRUE
    BY <1>3, <1>4, ChangedBag
  <1>6. Abstract!Replace(e)
    BY <1>1, <1>2, <1>5 DEF Closed, Abstract!Replace, Abstract!Changes, Abstract!(+), Abstract!(-),
       Abstract!SetToBag, (+), (-), SetToBag
  <1>7. e \in Entries
    BY DEF Agreeing
  <1> QED BY <1>6, <1>7 DEF Implements, Abstract!Next

LEMMA AbstractDeletes ==
    ASSUME Inv, Closed, record_index # NoIndex, ListChanges(RemoveAt(list, record_index))
    PROVE  Implements
  <1> DEFINE new == RemoveAt(list, record_index)
             old == list[record_index]
  <1>1. list \in Seq(Agreeing) /\ record_index \in DOMAIN list
    BY DEF Inv, ListInv, Rows
  <1>2. old # Garbled
    BY <1>1, ShownEntry DEF Inv, ListInv, Rows
  <1>3. new \in Seq(Agreeing) /\ ToBag(new) = ToBag(list) (-) SetToBag({old})
    BY <1>1, RemoveKeeps
  <1>4. ListChanges(new)
    OBVIOUS
  <1> HIDE DEF new
  <1>5. ToBag(list') = ToBag(list) (-) SetToBag({old}) /\ records_changed' = TRUE
    BY <1>3, <1>4, ChangedBag
  <1>6. Abstract!Delete
    BY <1>2, <1>5 DEF Closed, Abstract!Delete, Abstract!Changes, Abstract!(-),
       Abstract!SetToBag, (-), SetToBag
  <1> QED BY <1>6 DEF Implements, Abstract!Next

\* The answers to the record dialog and to the question about a deletion.
LEMMA AbstractAnswers ==
    ASSUME Inv, Ok \/ OkFails \/ Cancel \/ ConfirmDiscard \/ ConfirmDelete
    PROVE  Implements
  <1>1. CASE Ok
    <2> DEFINE e == Entry(dialog.name, dialog.password)
    <2>1. Closed /\ window = "record"
      BY <1>1 DEF Ok, Field, Answer
    <2>2. e \in Agreeing
      <3>1. dialog.name \in Texts /\ dialog.password \in Texts
        BY DEF Inv, ListInv, RecordDialog
      <3> QED BY <3>1, EntryAgrees
    <2> HIDE DEF e
    <2>3. CASE UNCHANGED <<list, ascending, records_changed, search>>
      BY <2>1, <2>3, AbstractLeaves
    <2>4. CASE dialog.newrecord /\ ListChanges(Append(list, e))
      <3>1. record_index = NoIndex
        BY <2>1, <2>4 DEF Inv, WindowInv, AssertionsHold
      <3> QED BY <3>1, <2>1, <2>2, <2>4, AbstractAdds
    <2>5. CASE Update(e)
      BY <2>1, <2>2, <2>5, AbstractReplaces
    <2> QED BY <1>1, <2>3, <2>4, <2>5 DEF Ok, e
  <1>2. CASE OkFails
    <2>1. UNCHANGED <<list, records_changed>>
      BY <1>2 DEF OkFails
    <2>2. CASE UNCHANGED record_index
      BY <2>1, <2>2, AbstractStutters
    <2>3. CASE Closed
      BY <2>1, <2>3, AbstractLeaves
    <2> QED BY <1>2, <2>2, <2>3 DEF OkFails
  <1>3. CASE Cancel \/ ConfirmDiscard
    <2>1. UNCHANGED <<list, records_changed>>
      BY <1>3 DEF Cancel, ConfirmDiscard
    <2>2. CASE UNCHANGED record_index
      BY <2>1, <2>2, AbstractStutters
    <2>3. CASE Closed
      BY <2>1, <2>3, AbstractLeaves
    <2> QED BY <1>3, <2>2, <2>3, Zenon DEF Cancel, ConfirmDiscard, OnClose
  <1>4. CASE ConfirmDelete
    <2>1. Closed /\ record_index # NoIndex
      BY <1>4 DEF ConfirmDelete, Answer, Inv, WindowInv, AssertionsHold
    <2>2. CASE ListChanges(RemoveAt(list, record_index))
      BY <2>1, <2>2, AbstractDeletes
    <2>3. CASE UNCHANGED <<list, ascending, records_changed, search>>
      BY <2>1, <2>3, AbstractLeaves
    <2> QED BY <1>4, <2>2, <2>3 DEF ConfirmDelete
  <1> QED BY <1>1, <1>2, <1>3, <1>4

LEMMA AbstractNext == Inv /\ [Next]_vars => Implements
  <1> SUFFICES ASSUME Inv, [Next]_vars PROVE Implements
    OBVIOUS
  <1>1. CASE \E row \in Rows : ShowRecord(row) \/ DeleteSelected(row)
    BY <1>1, AbstractShows DEF ShowRecord, DeleteSelected
  <1>2. CASE SortOrder
    <2>1. record_index = NoIndex
      BY <1>2 DEF SortOrder, HotKey, Inv, WindowInv, AssertionsHold
    <2>2. ToBag(list') = ToBag(list)
      BY <1>2, SortingKeeps DEF SortOrder, Inv, ListInv
    <2> QED BY <1>2, <2>1, <2>2, AbstractStutters DEF SortOrder
  <1>3. CASE Saved
    BY <1>3 DEF Saved, Implements, Abstract!Next, Abstract!Save
  <1>4. CASE \/ NewRecord \/ \E name, password \in Texts : Type(name, password)
             \/ ToggleReadonly \/ OpenGenerator \/ CloseGenerator
             \/ SearchFirst \/ SearchNext \/ \E needle \in Texts : CloseSearch(needle)
             \/ \E w \in {"help", "info", "pwgen"} : Show(w) \/ Close(w)
             \/ LockScreen \/ Ended \/ UNCHANGED vars
    <2>1. UNCHANGED <<list, record_index, records_changed>>
      BY <1>4, Zenon DEF NewRecord, Type, ToggleReadonly, OpenGenerator, CloseGenerator, SearchFirst,
         SearchNext, CloseSearch, Show, Close, Ended, KeepsDialog, vars,
         LockScreen, Lock, Unlock, LockQuit
    <2> QED BY <2>1, AbstractStutters
  <1> QED BY <1>1, <1>2, <1>3, <1>4, AbstractAnswers DEF Next

\* Whatever is highlighted, sorted or searched meanwhile, an answer changes the
\* entry its dialog was opened on and no other (mainwindow.cc:231, 260).
THEOREM WindowImplementsRecordList == Spec => ImplementsRecordList
  <1>1. Implements => [Abstract!Next]_(Abstract!vars)
    BY DEF Implements
  <1>2. Spec => Abstract!Init /\ [][Abstract!Next]_(Abstract!vars)
    BY <1>1, InvInit, InvNext, AbstractInit, AbstractNext, PTL DEF Spec
  <1> QED BY <1>2 DEF ImplementsRecordList, Abstract!Spec
=============================================================================
