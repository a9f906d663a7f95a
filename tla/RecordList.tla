----------------------------- MODULE RecordList -----------------------------
(***************************************************************************)
(* What the window promises of its list of password records: the user      *)
(* looks at one entry at a time, and what follows replaces or deletes that *)
(* entry and no other, or adds one, and is remembered as an unsaved        *)
(* change.  This is how module Session sees the list.                      *)
(***************************************************************************)
EXTENDS Bags

CONSTANTS
    Entries,    \* the entries a list may have
    Nothing     \* no entry: none of them

VARIABLES
    entries,    \* the bag of entries; their order is a matter of display
    shown,      \* the entry a dialog is about
    unsaved     \* there are unsaved changes

vars == <<entries, shown, unsaved>>

Init == /\ IsABag(entries) /\ BagToSet(entries) \subseteq Entries
        /\ shown = Nothing
        /\ unsaved = FALSE

Show == /\ shown = Nothing
        /\ shown' \in BagToSet(entries)
        /\ UNCHANGED <<entries, unsaved>>

Leave == shown' = Nothing /\ UNCHANGED <<entries, unsaved>>

Changes == shown' = Nothing /\ unsaved' = TRUE

Add(e) == /\ shown = Nothing
          /\ entries' = entries (+) SetToBag({e})
          /\ Changes

Replace(e) == /\ shown # Nothing
              /\ entries' = (entries (-) SetToBag({shown})) (+) SetToBag({e})
              /\ Changes

Delete == /\ shown # Nothing
          /\ entries' = entries (-) SetToBag({shown})
          /\ Changes

Save == unsaved' = FALSE /\ UNCHANGED <<entries, shown>>

Next == \/ Show \/ Leave \/ Delete \/ Save
        \/ \E e \in Entries : Add(e) \/ Replace(e)

Spec == Init /\ [][Next]_vars
=============================================================================
