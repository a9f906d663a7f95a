---------------------------- MODULE RecordWindow ----------------------------
(***************************************************************************)
(* The list of password records in the main window, its search, and the    *)
(* record dialog (libs/ui/mainwindow.cc, libs/ui/passwordrecord.cc), down  *)
(* to the conversion of the dialog's fields to a record and a list entry   *)
(* (libs/passwordrecord).                                                  *)
(*                                                                         *)
(* A text is abstracted to its length: all texts are beginnings of one     *)
(* long text, so that shorter ones sort first and are found in longer      *)
(* ones.  The highlighted row is not kept: the user and a change of the    *)
(* screen size move it at any time.  A file is open; opening and saving,    *)
(* and what locking means for the file, are in module Session.  YACURS is   *)
(* external: dialogs are modal, the lock screen comes over any of them, and *)
(* a field remembers whether it was typed into since it was set.            *)
(***************************************************************************)
EXTENDS Naturals, Sequences, SequencesExt

CONSTANTS
    Size,       \* bytes of a field, the closing zero included
    MaxRecords, \* bound on the length of the list
    Garbled     \* a record that does not decrypt

ASSUME SizeAssumption == Size \in Nat \ {0, 1} /\ MaxRecords \in Nat

\* max_input lets the user type as many characters as a field has bytes.
Texts == 0..Size

\* Mutant of Stored: the terminating zero overwrites nothing.
StoredUncut(text) == text

\* copyString and PasswordListItem keep the last byte for the zero.
Stored(text) == IF text < Size THEN text ELSE Size - 1

StoredTexts == 0..(Size - 1)

Plain == [name : StoredTexts, password : StoredTexts]

\* Equals PasswordRecord::serialize, encrypted, and what comes back.
Record(name, password) == [name |-> Stored(name), password |-> Stored(password)]

\* PasswordListItem.
Entries == [name : StoredTexts, record : Plain \cup {Garbled}]

ASSUME GarbledAssumption == Garbled \notin Plain \cup Entries

\* Mutant of Entry: the list keeps one byte less of the name.
EntryShort(name, password) == [name   |-> IF Stored(name) = 0 THEN 0 ELSE Stored(name) - 1,
                               record |-> Record(name, password)]

Entry(name, password) == [name |-> Stored(name), record |-> Record(name, password)]

NoIndex == 0

VARIABLES
    list,       \* recordlist
    ascending,  \* its sort order
    record_index,
    records_changed,
    window,     \* the dialog the main window shows
    dialog,     \* passwordrecord
    finder,     \* the search term, 0 for a null pointer
    last,       \* last_search_index
    seen,       \* history: rows the search has come by since finder was set
    stale,      \* history: the list has changed since then
    locked,     \* the lock screen is shown
    over        \* the program has ended

search == <<finder, last, seen, stale>>
vars == <<list, ascending, record_index, records_changed, window, dialog, search, locked, over>>

Windows == {"none", "record", "confirmdelete", "search", "help", "info", "pwgen"}

\* typed is true when a field was typed into; _modified_by_pwgen and
\* _force_close as in the code; top is the innermost dialog, error that there
\* is an error box underneath.
RecordDialog == [newrecord : BOOLEAN, readonly : BOOLEAN, typed : BOOLEAN,
                 modified_by_pwgen : BOOLEAN, force_close : BOOLEAN, error : BOOLEAN,
                 name : Texts, password : Texts, top : {"fields", "confirm", "pwgen"}]

Fields(newrecord, name, password) ==
    [newrecord |-> newrecord, readonly |-> FALSE, typed |-> FALSE,
     modified_by_pwgen |-> FALSE, force_close |-> FALSE, error |-> FALSE,
     name |-> name, password |-> password, top |-> "fields"]

NoDialog == Fields(TRUE, 0, 0)

Rows == 1..Len(list)

Before(a, b) == a.name < b.name
After(a, b)  == a.name > b.name

Sorted(l, asc) == \A i, j \in DOMAIN l :
    i < j => ~(IF asc THEN Before(l[j], l[i]) ELSE After(l[j], l[i]))

\* Entries of the same name may come in any order.
Sortings(l, asc) ==
    {s \in {[i \in DOMAIN l |-> l[p[i]]] : p \in Bijection(DOMAIN l, DOMAIN l)} : Sorted(s, asc)}

\* The box may or may not sort again what it is given.
Arranged(l) == {l} \cup Sortings(l, ascending)

TypeOK == /\ list \in Seq(Entries) /\ Len(list) <= MaxRecords
          /\ ascending \in BOOLEAN
          /\ record_index \in {NoIndex} \cup Rows
          /\ records_changed \in BOOLEAN
          /\ window \in Windows
          /\ dialog \in RecordDialog
          /\ finder \in Texts /\ last \in 0..MaxRecords
          /\ seen \subseteq 1..MaxRecords /\ stale \in BOOLEAN
          /\ locked \in BOOLEAN /\ over \in BOOLEAN

\* A file whose records may or may not decrypt: a failed change of the
\* password leaves the list under the former key (mainwindow.cc:551).
Readable   == {e \in Entries : e.record # Garbled => e.record.name = e.name}

Init == /\ \E n \in 0..MaxRecords : list \in [1..n -> Readable]
        /\ Sorted(list, TRUE)
        /\ ascending = TRUE /\ record_index = NoIndex /\ records_changed = FALSE
        /\ window = "none" /\ dialog = NoDialog
        /\ finder = 0 /\ last = 0 /\ seen = {} /\ stale = FALSE
        /\ locked = FALSE /\ over = FALSE

-----------------------------------------------------------------------------
UserTurn   == ~over /\ ~locked
HotKey     == UserTurn /\ window = "none"
Answer(w)  == UserTurn /\ window = w
Field      == Answer("record") /\ dialog.top = "fields"

\* Mutant of Changed: a generated password is no change.
ChangedByTyping(d) == d.typed

Changed(d) == d.typed \/ d.modified_by_pwgen

KeepsDialog == UNCHANGED <<list, ascending, record_index, records_changed, search, locked, over>>

\* The main window's handler of the closed dialog, apart from what it does to
\* the list.
Closed == window' = "none" /\ dialog' = NoDialog /\ record_index' = NoIndex

ListChanges(new) ==
    /\ list' \in Arranged(new)
    /\ records_changed' = TRUE
    /\ seen' = {} /\ stale' = (finder # 0)
    /\ UNCHANGED <<ascending, finder, last>>

(***************************************************************************)
(* show_password_record, from the hot key and from the enter key.          *)
(***************************************************************************)
NewRecord ==
    /\ HotKey /\ Len(list) < MaxRecords
    /\ window' = "record" /\ dialog' = Fields(TRUE, 0, 0)
    /\ KeepsDialog

\* A record that does not decrypt is shown empty, and not read-only; the
\* dialog then covers the error box.
ShowRecord(row) ==
    LET record == list[row].record IN
    /\ HotKey
    /\ record_index' = row
    /\ window' = "record"
    /\ dialog' = IF record = Garbled
                 THEN [Fields(FALSE, 0, 0) EXCEPT !.error = TRUE]
                 ELSE [Fields(FALSE, record.name, record.password) EXCEPT !.readonly = TRUE]
    /\ UNCHANGED <<list, ascending, records_changed, search, locked, over>>

(***************************************************************************)
(* The record dialog.                                                      *)
(***************************************************************************)
Type(name, password) ==
    /\ Field /\ ~dialog.readonly
    /\ dialog' = [dialog EXCEPT !.name = name, !.password = password, !.typed = TRUE]
    /\ UNCHANGED window /\ KeepsDialog

ToggleReadonly ==
    /\ Field
    /\ dialog' = [dialog EXCEPT !.readonly = ~@]
    /\ UNCHANGED window /\ KeepsDialog

\* The button is enabled unless the dialog is read-only.
OpenGenerator ==
    /\ Field /\ ~dialog.readonly
    /\ dialog' = [dialog EXCEPT !.top = "pwgen"]
    /\ UNCHANGED window /\ KeepsDialog

CloseGenerator ==
    /\ Answer("record") /\ dialog.top = "pwgen"
    /\ \/ dialog' = [dialog EXCEPT !.top = "fields"]
       \/ \E password \in Texts :
            dialog' = [dialog EXCEPT !.top = "fields", !.password = password,
                                     !.modified_by_pwgen = TRUE]
    /\ UNCHANGED window /\ KeepsDialog

\* Mutant of Update: the row that is highlighted now is replaced.
UpdateHighlighted(e) == \E row \in Rows : ListChanges([list EXCEPT ![row] = e])

\* high_light(record_index), and replace.
Update(e) == record_index # NoIndex /\ ListChanges([list EXCEPT ![record_index] = e])

\* on_ok_button, on_close and the main window's handler.
Ok == /\ Field
      /\ Closed
      /\ LET e == Entry(dialog.name, dialog.password) IN
         IF ~Changed(dialog)
         THEN UNCHANGED <<list, ascending, records_changed, search>>
         ELSE IF dialog.newrecord THEN ListChanges(Append(list, e)) ELSE Update(e)
      /\ UNCHANGED <<locked, over>>

\* The encryption fails: there is no entry, and the main window dereferences
\* a null pointer if something was changed.
OkFails ==
    /\ Field
    /\ IF Changed(dialog)
       THEN over' = TRUE /\ UNCHANGED <<window, dialog, record_index>>
       ELSE Closed /\ UNCHANGED over
    /\ UNCHANGED <<list, ascending, records_changed, search, locked>>

\* Mutant of OnClose: it does not know that the user has agreed.
OnCloseAlwaysAsks(d) ==
    IF Changed(d)
    THEN dialog' = [d EXCEPT !.top = "confirm"] /\ UNCHANGED <<window, record_index>>
    ELSE Closed

\* on_close, unless the OK button was pressed.
OnClose(d) ==
    IF Changed(d) /\ ~d.force_close
    THEN dialog' = [d EXCEPT !.top = "confirm"] /\ UNCHANGED <<window, record_index>>
    ELSE Closed

Cancel == /\ Field
          /\ OnClose(dialog)
          /\ UNCHANGED <<list, ascending, records_changed, search, locked, over>>

ConfirmDiscard ==
    /\ Answer("record") /\ dialog.top = "confirm"
    /\ \/ OnClose([dialog EXCEPT !.force_close = TRUE])
       \/ dialog' = [dialog EXCEPT !.top = "fields"] /\ UNCHANGED <<window, record_index>>
    /\ UNCHANGED <<list, ascending, records_changed, search, locked, over>>

(***************************************************************************)
(* delete_selected.                                                        *)
(***************************************************************************)
DeleteSelected(row) ==
    /\ HotKey
    /\ record_index' = row
    /\ window' = "confirmdelete"
    /\ UNCHANGED <<list, ascending, records_changed, dialog, search, locked, over>>

\* Mutant of ConfirmDelete: a refusal leaves record_index.
RefusedDeleteKeepsIndex ==
    /\ Answer("confirmdelete")
    /\ \/ Closed /\ ListChanges(RemoveAt(list, record_index))
       \/ /\ window' = "none"
          /\ UNCHANGED <<list, ascending, record_index, records_changed, dialog, search>>
    /\ UNCHANGED <<locked, over>>

ConfirmDelete ==
    /\ Answer("confirmdelete")
    /\ Closed
    /\ \/ ListChanges(RemoveAt(list, record_index))
       \/ UNCHANGED <<list, ascending, records_changed, search>>
    /\ UNCHANGED <<locked, over>>

(***************************************************************************)
(* search_first, its dialog, and search_next.  last counts rows from 0.    *)
(***************************************************************************)
Matches(needle) == {row \in Rows : list[row].name >= needle}

\* ListBox::search: the first match from this index on.
Search(needle, from) ==
    LET found == {row \in Matches(needle) : row - 1 >= from} IN
    IF found = {} THEN NoIndex ELSE CHOOSE row \in found : \A r \in found : row <= r

Visits(row, before) == last' = row - 1 /\ seen' = before \cup {row}

SearchFirst ==
    /\ HotKey /\ list # <<>>
    /\ window' = "search"
    /\ UNCHANGED dialog /\ KeepsDialog

CloseSearch(needle) ==
    /\ Answer("search")
    /\ window' = "none"
    /\ \/ needle = 0 /\ UNCHANGED search
       \/ /\ needle > 0
          /\ finder' = needle /\ stale' = FALSE
          /\ LET row == Search(needle, 0) IN
             IF row = NoIndex THEN last' = 0 /\ seen' = {} ELSE Visits(row, {})
    /\ UNCHANGED <<list, ascending, record_index, records_changed, dialog, locked, over>>

\* Mutant of SearchNext: the row behind the last match is skipped.
SearchNextSkips ==
    /\ HotKey /\ list # <<>> /\ finder # 0
    /\ LET row == Search(finder, last + 2) IN
       IF row = NoIndex
       THEN finder' = 0 /\ last' = 0 /\ seen' = {}
       ELSE finder' = finder /\ Visits(row, IF stale THEN {} ELSE seen)
    /\ UNCHANGED <<list, ascending, record_index, records_changed, window, dialog, stale>>
    /\ UNCHANGED <<locked, over>>

\* After the last match the finder is gone.
SearchNext ==
    /\ HotKey /\ list # <<>> /\ finder # 0
    /\ LET row == Search(finder, last + 1) IN
       IF row = NoIndex
       THEN finder' = 0 /\ last' = 0 /\ seen' = {}
       ELSE finder' = finder /\ Visits(row, IF stale THEN {} ELSE seen)
    /\ UNCHANGED <<list, ascending, record_index, records_changed, window, dialog, stale>>
    /\ UNCHANGED <<locked, over>>

-----------------------------------------------------------------------------
SortOrder ==
    /\ HotKey
    /\ ascending' = ~ascending
    /\ list' \in Sortings(list, ~ascending)
    /\ seen' = {} /\ stale' = (finder # 0)
    /\ UNCHANGED <<record_index, records_changed, window, dialog, finder, last, locked, over>>

\* Dialogs the window only has to delete.
Show(w)  == HotKey /\ window' = w /\ UNCHANGED dialog /\ KeepsDialog
Close(w) == Answer(w) /\ window' = "none" /\ UNCHANGED dialog /\ KeepsDialog

\* MainWindow::save_records.
Saved == /\ HotKey /\ records_changed
         /\ records_changed' = FALSE
         /\ UNCHANGED <<list, ascending, record_index, window, dialog, search, locked, over>>

(***************************************************************************)
(* The lock screen, on the alarm, during any dialog.                        *)
(***************************************************************************)
Lock == /\ UserTurn
        /\ locked' = TRUE
        /\ UNCHANGED <<list, ascending, record_index, records_changed>>
        /\ UNCHANGED <<window, dialog, search, over>>

Unlock == /\ ~over /\ locked
          /\ locked' = FALSE
          /\ UNCHANGED <<list, ascending, record_index, records_changed>>
          /\ UNCHANGED <<window, dialog, search, over>>

\* The button is there with allow_lock_quit, and enabled when no change of the
\* list is unsaved; what an open dialog holds does not count.
LockQuit == /\ ~over /\ locked /\ ~records_changed
            /\ over' = TRUE
            /\ UNCHANGED <<list, ascending, record_index, records_changed>>
            /\ UNCHANGED <<window, dialog, search, locked>>

LockScreen == Lock \/ Unlock \/ LockQuit

Ended == over /\ UNCHANGED vars

Next == \/ NewRecord \/ (\E row \in Rows : ShowRecord(row) \/ DeleteSelected(row))
        \/ (\E name, password \in Texts : Type(name, password))
        \/ ToggleReadonly \/ OpenGenerator \/ CloseGenerator
        \/ Ok \/ OkFails \/ Cancel \/ ConfirmDiscard \/ ConfirmDelete
        \/ SearchFirst \/ (\E needle \in Texts : CloseSearch(needle)) \/ SearchNext
        \/ SortOrder \/ (\E w \in {"help", "info", "pwgen"} : Show(w) \/ Close(w))
        \/ Saved \/ LockScreen \/ Ended

Spec == Init /\ [][Next]_vars

-----------------------------------------------------------------------------
\* The window implements RecordList: an answer to a dialog changes the entry
\* the dialog was opened on, though the highlighted row moves meanwhile and
\* record_index alone says which it was (mainwindow.cc:231, 260), nothing
\* else changes the list, and each change is remembered for the question at
\* the end of the program (records_changed).
Abstract == INSTANCE RecordList WITH
    Entries <- Entries, Nothing <- Garbled,
    entries <- ToBag(list),
    shown   <- IF record_index = NoIndex THEN Garbled ELSE list[record_index],
    unsaved <- records_changed

ImplementsRecordList == Abstract!Spec

\* The assertions on record_index (mainwindow.cc:231, 260, 503, 576) and on
\* _readonly when the generator closes (passwordrecord.cc:128) hold: the index
\* is taken exactly as long as a dialog is about an entry.
AssertionsHold ==
    /\ (record_index # NoIndex) <=> (window = "confirmdelete"
                                     \/ (window = "record" /\ ~dialog.newrecord))
    /\ dialog.top = "pwgen" => ~dialog.readonly

\* What was typed or generated, and is still in the dialog.
Entered == window = "record" /\ (dialog.typed \/ dialog.modified_by_pwgen)

\* When the record dialog goes away, or the program ends over it, the whole
\* entry that was typed or generated is in the list, or the user has given it
\* up in the confirmation (passwordrecord.cc:140).  The code has two ways out:
\* a failed encryption crashes the program (passwordrecord.cc:83), and the
\* lock screen lets the user quit over an open dialog if no change of the list
\* is unsaved (yapetunlockdialog.cc:51).
DiscardsAgreed ==
    [][(Entered /\ (window' # "record" \/ (over' /\ ~over))) =>
           \/ dialog.top = "confirm" /\ window' # "record"
           \/ Entry(dialog.name, dialog.password) \in Range(list')
           \/ ~locked /\ over'
           \/ locked /\ over' /\ ~records_changed']_vars

\* The name in the list, which is sorted and searched, is the name in the
\* record, so that it is the same after the file is loaded again
\* (passwordlistitem.cc:38, passwordrecord.cc:54).
NamesAgree == \A row \in Rows : list[row].record = Garbled
                                \/ list[row].name = list[row].record.name

\* Before the search reports that there are no more matches, it has come by
\* all of them, unless the list changed meanwhile (mainwindow.cc:649).
SearchVisitsAll ==
    [][(finder # 0 /\ finder' = 0 /\ ~stale) => Matches(finder) \subseteq seen]_vars

-----------------------------------------------------------------------------
\* "Maximum password length" is 256 (consts.h:62) and the generator makes
\* passwords of that length: a generated password that is accepted is stored.
GeneratedIsStored ==
    [][(/\ window = "record" /\ records_changed' /\ ~records_changed
        /\ dialog.modified_by_pwgen /\ ~dialog.typed) =>
           \E row \in DOMAIN list' :
                 list'[row].record # Garbled
                 /\ list'[row].record.password = dialog.password]_vars
=============================================================================
