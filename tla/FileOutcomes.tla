---------------------------- MODULE FileOutcomes ----------------------------
(***************************************************************************)
(* What a member function of YAPET::File may leave behind, as its callers  *)
(* see it: the file on disk and the File object.  Module RecordStore makes *)
(* a specification of File of it, which PetFile implements, and module     *)
(* Session builds the main window on it.                                   *)
(***************************************************************************)

CONSTANT NoKey      \* no key: of a file that cannot be read, of a record that is garbage

Recs(items)     == {i.rec : i \in items}
Under(items, k) == \A i \in items : i.key = k

\* A file that is not there, or has no header that could be read.
Unusable(state) == [state |-> state, key |-> NoKey, items |-> {}]
Good(k, R)      == [state |-> "good", key |-> k, items |-> [rec : R, key : {k}]]

\* A File has a key; inner is false when its _yapetFile is null, fresh is true
\* when its _fileModificationTime is the time of the file on disk, bad when its
\* stream is closed or in error, which is so after a read that was cut short.
Renewed(f, k) == [f EXCEPT !.open = TRUE, !.key = k, !.inner = TRUE, !.fresh = TRUE,
                           !.bad = FALSE]

Outcome(pet, f) == [pet |-> pet, file |-> f]

\* What a constructor that fails may leave of the file it creates.
CreationFailures(k) == {Unusable("broken"), Good(k, {})}

\* A check that passes notModifiedOrThrow, on a file with a header.
Accepts(pet, f) == f.inner /\ f.fresh /\ pet.state = "good"

\* File::read: a length that cannot be read is taken for the end of the file.
Reads(pet) == {read \in [items : SUBSET pet.items, bad : BOOLEAN] :
                  read.bad \/ read.items = pet.items}

Spoilt(f) == [f EXCEPT !.bad = TRUE]

\* File::save goes through, and rewrites the file in place.
Writes(pet, f)   == Accepts(pet, f) /\ ~f.bad
Saved(pet, list) == [pet EXCEPT !.items = list]

\* It fails after it truncated the file.
Stopped(f, fresh, bad) == [f EXCEPT !.fresh = fresh, !.bad = bad]

SaveAborts(pet, f, list) ==
    {Outcome(Saved(pet, items), Stopped(f, fresh, bad)) :
        items \in SUBSET list, fresh \in BOOLEAN, bad \in BOOLEAN}

\* A record under another key than the file may become garbage.
Reencrypted(i, old, new) == [i EXCEPT !.key = IF i.key = old THEN new ELSE NoKey]

\* File::setNewKey goes through, with those of the records its reading of the
\* backup delivered.
Rekeyings(pet, old, k) ==
    {[state |-> "good", key |-> k, items |-> items] :
        items \in SUBSET {Reencrypted(i, old, k) : i \in pet.items}}

\* It fails when the file is renamed away, with the new one in some state.
Begun(pet, old, k) == {Unusable("absent"), Unusable("broken")} \cup Rekeyings(pet, old, k)

\* The File then is null inside, or has swapped the keys.
Hollow(f) == [f EXCEPT !.inner = FALSE, !.fresh = FALSE, !.bad = FALSE]

Swapped(f, k, fresh, bad) == [f EXCEPT !.key = k, !.fresh = fresh, !.bad = bad]

KeyAborts(pet, f, k) ==
    {Outcome(Unusable("absent"), Hollow(f))} \cup
    {Outcome(new, Swapped(f, k, fresh, bad)) :
        new \in Begun(pet, f.key, k), fresh \in BOOLEAN, bad \in BOOLEAN}
=============================================================================
