--------------------------- MODULE SessionProofs ---------------------------
(***************************************************************************)
(* Properties of Session, for every set of files, passwords, salts and     *)
(* records: types, what is on the screen, what happens to unsaved changes, *)
(* and the agreement of the keys.                                          *)
(***************************************************************************)
EXTENDS Session, TLAPS

-----------------------------------------------------------------------------
(***************************************************************************)
(* Types.                                                                  *)
(***************************************************************************)
Queues == {<<>>, <<"prompt">>, <<"glue">>}

QueueInv == queue \in Queues /\ (queue # <<>> => dialog = "none")

\* A file that can be read has a key, an open file a name and a factory.
FileInv == /\ \A n \in Files : disk[n].state = "good" => disk[n].key \in Keys
           /\ file.open => file.name \in Files /\ factory \in Keys

\* A glue object that is about to open, create or change a file has its name.
GlueInv ==
    /\ glue.key # NoKey => glue.name \in Files
    /\ dialog = "newpassword" /\ glue.kind # "change" => glue.name \in Files
    /\ dialog = "createfile" => glue.kind = "cmdline" /\ glue.name \in Files
    /\ dialog \in {"filedialog", "password", "pwerror", "prompterror"} \/ queue = <<"prompt">>
          => glue.kind # "change"
    /\ glue.kind = "change" /\ glue.name # NoName => file.open /\ file.name = glue.name
    /\ glue.kind = "change" /\ dialog = "newpassword" => glue.name # NoName

TypeInv == TypeOK /\ QueueInv /\ FileInv /\ GlueInv

LEMMA QueueSteps ==
    /\ Append(<<>>, "prompt") = <<"prompt">> /\ Append(<<>>, "glue") = <<"glue">>
    /\ Head(<<"prompt">>) = "prompt" /\ Head(<<"glue">>) = "glue"
    /\ Tail(<<"prompt">>) = <<>> /\ Tail(<<"glue">>) = <<>>
    /\ <<"prompt">> # <<"glue">> /\ <<"prompt">> # <<>> /\ <<"glue">> # <<>>
    /\ Append(Tail(<<"prompt">>), "glue") = <<"glue">>
  OBVIOUS

LEMMA QueueTypes == \A q \in Queues : q \in Seq({"prompt", "glue"}) /\ Len(q) <= 1
  <1>1. /\ <<>> \in Seq({"prompt", "glue"}) /\ Len(<<>>) <= 1
        /\ <<"prompt">> \in Seq({"prompt", "glue"}) /\ Len(<<"prompt">>) <= 1
        /\ <<"glue">> \in Seq({"prompt", "glue"}) /\ Len(<<"glue">>) <= 1
    OBVIOUS
  <1> QED BY <1>1, Zenon DEF Queues

\* What is on disk and in the main window.
DataOK == /\ disk \in [Files -> FileContent]
          /\ file \in FileObject
          /\ factory \in Keys \cup {NoKey}
          /\ list \subseteq Items
          /\ changed \in BOOLEAN
          /\ clean \in BOOLEAN
          /\ owed \in [Files -> SUBSET Records]
          /\ FileInv

\* What is on the screen.
ScreenOK == /\ glue \in Glue
            /\ dialog \in Dialogs
            /\ errormsg \in BOOLEAN
            /\ locked \in BOOLEAN
            /\ running \in {"yes", "quit", "crashed"}
            /\ QueueInv

LEMMA TypeParts == TypeInv <=> DataOK /\ ScreenOK /\ GlueInv
  BY QueueTypes DEF TypeInv, TypeOK, DataOK, ScreenOK, QueueInv

LEMMA TypePartsNext == DataOK' /\ ScreenOK' /\ GlueInv' => TypeInv'
  BY QueueTypes DEF TypeInv, TypeOK, DataOK, ScreenOK, QueueInv

LEMMA RecordsOf ==
    /\ \A items \in SUBSET Items : Recs(items) \in SUBSET Records
    /\ \A k \in Keys, R \in SUBSET Records : Good(k, R) \in FileContent /\ Good(k, R).items \subseteq Items
                                              /\ Good(k, R).key = k
  BY DEF Recs, Items, Good, FileContent

LEMMA UnusableContent == \A state \in {"absent", "broken"} : Unusable(state) \in FileContent
                                                              /\ Unusable(state).state = state
  BY DEF Unusable, FileContent

LEMMA TypeInit == Init => TypeInv
  <1> SUFFICES ASSUME Init PROVE DataOK /\ ScreenOK /\ GlueInv
    BY TypeParts
  <1>1. disk \in [Files -> FileContent] /\ \A n \in Files : disk[n].state = "good" => disk[n].key \in Keys
    BY RecordsOf, UnusableContent DEF Init
  <1>2. owed \in [Files -> SUBSET Records]
    <2>1. \A n \in Files : disk[n].items \subseteq Items
      BY <1>1 DEF FileContent
    <2> QED BY <2>1, RecordsOf DEF Init
  <1>3. DataOK
    BY <1>1, <1>2 DEF Init, DataOK, FileInv, NoFile, FileObject
  <1>4. ScreenOK
    <2>1. glue \in Glue /\ dialog \in Dialogs
      <3>1. \A kind \in Kinds, n \in Files \cup {NoName} : NewGlue(kind, n) \in Glue
        BY DEF NewGlue, Glue
      <3>2. {"none", "cmdline"} \subseteq Kinds /\ {"none", "createfile", "password"} \subseteq Dialogs
        BY DEF Kinds, Dialogs
      <3> QED BY <3>1, <3>2 DEF Init, NoGlue, CmdLineDialog
    <2> QED BY <2>1 DEF Init, ScreenOK, QueueInv, Queues
  <1>5. GlueInv
    BY QueueSteps DEF Init, GlueInv, NoGlue, NewGlue, CmdLineDialog
  <1> QED BY <1>3, <1>4, <1>5

-----------------------------------------------------------------------------
(***************************************************************************)
(* What the calls of File leave, written out.                              *)
(***************************************************************************)
Readable(pet) == pet \in FileContent /\ (pet.state = "good" => pet.key \in Keys)

LEMMA OutcomeIs == \A p, f : Outcome(p, f).pet = p /\ Outcome(p, f).file = f
  BY DEF Outcome

LEMMA RenewedIs == \A f \in FileObject : \A k :
                      /\ Renewed(f, k).open = TRUE /\ Renewed(f, k).name = f.name
                      /\ Renewed(f, k).key = k /\ Renewed(f, k).bad = FALSE
                      /\ k \in Keys => Renewed(f, k) \in FileObject
  BY DEF Renewed, FileObject

LEMMA OpenedIs ==
    \A n \in Files : \A k : /\ Opened(n, k).open = TRUE /\ Opened(n, k).name = n /\ Opened(n, k).key = k
                            /\ Opened(n, k).bad = FALSE
                            /\ k \in Keys => Opened(n, k) \in FileObject
  <1> SUFFICES ASSUME NEW n \in Files, NEW k
               PROVE  /\ Opened(n, k).open = TRUE /\ Opened(n, k).name = n /\ Opened(n, k).key = k
                      /\ Opened(n, k).bad = FALSE
                      /\ k \in Keys => Opened(n, k) \in FileObject
    OBVIOUS
  <1> DEFINE Any == [open : BOOLEAN, name : {n, NoName}, key : {NoKey}, inner : BOOLEAN, fresh : BOOLEAN,
                     bad : BOOLEAN]
  <1>1. NoFile \in Any
    BY DEF NoFile
  <1>2. [NoFile EXCEPT !.name = n] \in Any /\ [NoFile EXCEPT !.name = n].name = n
    BY <1>1
  <1>3. \A f \in Any : /\ Renewed(f, k).open = TRUE /\ Renewed(f, k).name = f.name /\ Renewed(f, k).key = k
                       /\ Renewed(f, k).bad = FALSE
                       /\ f.name \in Files /\ k \in Keys => Renewed(f, k) \in FileObject
    BY DEF Renewed, FileObject
  <1> HIDE DEF Any
  <1> QED BY <1>2, <1>3 DEF Opened

LEMMA SpoiltIs == \A f \in FileObject :
                     /\ Spoilt(f) \in FileObject /\ Spoilt(f).open = f.open /\ Spoilt(f).name = f.name
                     /\ Spoilt(f).key = f.key /\ Spoilt(f).inner = f.inner /\ Spoilt(f).fresh = f.fresh
                     /\ Spoilt(f).bad = TRUE
  BY DEF Spoilt, FileObject

LEMMA StoppedIs == \A f \in FileObject : \A fresh, bad \in BOOLEAN :
                      /\ Stopped(f, fresh, bad) \in FileObject
                      /\ Stopped(f, fresh, bad).open = f.open /\ Stopped(f, fresh, bad).name = f.name
                      /\ Stopped(f, fresh, bad).key = f.key /\ Stopped(f, fresh, bad).inner = f.inner
  BY DEF Stopped, FileObject

LEMMA SwappedIs == \A f \in FileObject : \A k \in Keys : \A fresh, bad \in BOOLEAN :
                      /\ Swapped(f, k, fresh, bad) \in FileObject
                      /\ Swapped(f, k, fresh, bad).open = f.open /\ Swapped(f, k, fresh, bad).name = f.name
  BY DEF Swapped, FileObject

LEMMA HollowIs == \A f \in FileObject :
                     Hollow(f) \in FileObject /\ Hollow(f).open = f.open /\ Hollow(f).name = f.name
  BY DEF Hollow, FileObject

LEMMA SavedReadable == \A pet : \A items \in SUBSET Items :
                          Readable(pet) => /\ Readable(Saved(pet, items)) /\ Saved(pet, items).items = items
                                           /\ Saved(pet, items).key = pet.key
                                           /\ Saved(pet, items).state = pet.state
  BY DEF Saved, Readable, FileContent

LEMMA ReencryptedIs ==
    ASSUME NEW i \in Items, NEW old, NEW k \in Keys
    PROVE  Reencrypted(i, old, k) \in Items /\ Reencrypted(i, old, k).rec = i.rec
  BY DEF Reencrypted, Items

LEMMA RekeyingIs ==
    ASSUME NEW pet, Readable(pet), NEW old, NEW k \in Keys, NEW new \in Rekeyings(pet, old, k)
    PROVE  /\ Readable(new) /\ new.key = k /\ new.state = "good"
           /\ new.items \subseteq Items
  <1> DEFINE All == {Reencrypted(i, old, k) : i \in pet.items}
  <1>1. PICK items \in SUBSET All : new = [state |-> "good", key |-> k, items |-> items]
    BY DEF Rekeyings
  <1>2. pet.items \subseteq Items
    BY DEF Readable, FileContent
  <1>3. All \subseteq Items
    BY <1>2, ReencryptedIs
  <1> HIDE DEF All
  <1> QED BY <1>1, <1>3 DEF Readable, FileContent

LEMMA BegunReadable ==
    ASSUME NEW pet, Readable(pet), NEW old, NEW k \in Keys, NEW new \in Begun(pet, old, k)
    PROVE  Readable(new)
  <1>1. \A state \in {"absent", "broken"} : Readable(Unusable(state))
    BY UnusableContent DEF Readable
  <1> QED BY <1>1, RekeyingIs DEF Begun

LEMMA SaveAbortIs ==
    ASSUME NEW pet, NEW f, NEW items, NEW o \in SaveAborts(pet, f, items)
    PROVE  \E L \in SUBSET items : \E fresh, bad \in BOOLEAN :
              o.pet = Saved(pet, L) /\ o.file = Stopped(f, fresh, bad)
  <1>1. PICK L \in SUBSET items, fresh \in BOOLEAN, bad \in BOOLEAN :
           o = Outcome(Saved(pet, L), Stopped(f, fresh, bad))
    BY DEF SaveAborts
  <1> QED BY <1>1, OutcomeIs

LEMMA KeyAbortIs ==
    \A pet : \A f \in FileObject, k \in Keys : \A o \in KeyAborts(pet, f, k) :
        /\ o.pet \in Begun(pet, f.key, k)
        /\ o.file \in FileObject /\ o.file.open = f.open /\ o.file.name = f.name
  <1> TAKE pet
  <1> TAKE f \in FileObject, k \in Keys
  <1> TAKE o \in KeyAborts(pet, f, k)
  <1> DEFINE News == Begun(pet, f.key, k)
  <1> SUFFICES o.pet \in News /\ o.file \in FileObject /\ o.file.open = f.open /\ o.file.name = f.name
    OBVIOUS
  <1>1. Unusable("absent") \in News
    BY DEF Begun
  <1>2. \/ o = Outcome(Unusable("absent"), Hollow(f))
        \/ \E new \in News, fresh, bad \in BOOLEAN : o = Outcome(new, Swapped(f, k, fresh, bad))
    BY DEF KeyAborts
  <1> HIDE DEF News
  <1>3. CASE o = Outcome(Unusable("absent"), Hollow(f))
    BY <1>1, <1>3, OutcomeIs, HollowIs
  <1>4. CASE \E new \in News, fresh, bad \in BOOLEAN : o = Outcome(new, Swapped(f, k, fresh, bad))
    BY <1>4, OutcomeIs, SwappedIs
  <1> QED BY <1>2, <1>3, <1>4

LEMMA CreationFailureIs ==
    ASSUME NEW n, NEW k, NEW create, ConstructFails(n, k, create)
    PROVE  \/ UNCHANGED <<disk, file, owed>>
           \/ /\ \E new \in {Unusable("broken"), Good(k, {})} : disk' = [disk EXCEPT ![n] = new]
              /\ \E fresh : file' = [file EXCEPT !.fresh = fresh] /\ fresh \in BOOLEAN \cup {file.fresh}
              /\ owed' = [owed EXCEPT ![n] = {}]
  <1> SUFFICES ASSUME ~UNCHANGED <<disk, file, owed>>
               PROVE  \E fresh : /\ file' = [file EXCEPT !.fresh = fresh]
                                 /\ fresh \in BOOLEAN \cup {file.fresh}
    BY DEF ConstructFails, CreationFailures
  <1>1. PICK same \in BOOLEAN :
           file' = [file EXCEPT !.fresh = IF n # file.name THEN @
                                          ELSE same /\ (@ \/ disk[n].state = "absent")]
    BY DEF ConstructFails
  <1> QED BY <1>1

-----------------------------------------------------------------------------
(***************************************************************************)
(* What the main window's functions do to the data.                        *)
(***************************************************************************)
DataStaysOK == DataOK' /\ (file.open => file'.open /\ file'.name = file.name)

LEMMA DataStays == ASSUME DataOK, UNCHANGED data PROVE DataStaysOK
  BY DEF DataOK, DataStaysOK, FileInv, data

LEMMA DiskReadable == DataOK => \A n \in Files : Readable(disk[n]) /\ disk[n].items \subseteq Items
  BY DEF DataOK, FileInv, Readable, FileContent

\* One path is given another content.
LEMMA DiskChanges ==
    ASSUME DataOK, NEW n, NEW new, Readable(new), disk' = [disk EXCEPT ![n] = new]
    PROVE  /\ disk' \in [Files -> FileContent]
           /\ \A m \in Files : disk'[m].state = "good" => disk'[m].key \in Keys
  BY DEF DataOK, FileInv, Readable

\* A save: what it writes and what it leaves of the File.
LEMMA SaveIs ==
    ASSUME DataOK, SaveSucceeds \/ SaveFails
    PROVE  \/ UNCHANGED <<disk, file, owed>>
           \/ /\ SaveFails /\ file.open /\ UNCHANGED <<disk, owed>>
              /\ file' = Spoilt(file)
           \/ /\ SaveSucceeds /\ file.open /\ ~file.bad /\ file' = file /\ changed' = FALSE
              /\ disk' = [disk EXCEPT ![file.name] = Saved(disk[file.name], list)]
              /\ owed' = [owed EXCEPT ![file.name] = owed[file.name] \cup Recs(list)]
           \/ /\ SaveFails /\ file.open /\ file.fresh
              /\ \E L \in SUBSET list : disk' = [disk EXCEPT ![file.name] = Saved(disk[file.name], L)]
              /\ \E fresh, bad \in BOOLEAN : file' = Stopped(file, fresh, bad)
              /\ owed' = [owed EXCEPT ![file.name] = {}]
  <1>1. CASE SaveSucceeds
    <2>1. file.name \in Files \/ ~file.open
      BY DEF DataOK, FileInv
    <2>2. CASE UNCHANGED <<disk, changed, owed>>
      BY <1>1, <2>2 DEF SaveSucceeds
    <2>3. CASE /\ file.open /\ changed /\ Writes(disk[file.name], file)
               /\ disk' = [disk EXCEPT ![file.name] = Saved(@, list)]
               /\ changed' = FALSE
               /\ owed' = [owed EXCEPT ![file.name] = @ \cup Recs(list)]
      <3>1. ~file.bad
        BY <2>3 DEF Writes
      <3>2. /\ disk' = [disk EXCEPT ![file.name] = Saved(disk[file.name], list)]
            /\ owed' = [owed EXCEPT ![file.name] = owed[file.name] \cup Recs(list)]
        BY <2>3
      <3> QED BY <1>1, <2>3, <3>1, <3>2 DEF SaveSucceeds
    <2> QED BY <1>1, <2>2, <2>3 DEF SaveSucceeds
  <1>2. CASE SaveFails
    <2>1. CASE UNCHANGED <<disk, file, owed>> \/ (file' = Spoilt(file) /\ UNCHANGED <<disk, owed>>)
      BY <1>2, <2>1 DEF SaveFails
    <2>2. ASSUME NEW o \in SaveAborts(disk[file.name], file, list),
                 disk' = [disk EXCEPT ![file.name] = o.pet], file' = o.file
          PROVE  /\ \E L \in SUBSET list : disk' = [disk EXCEPT ![file.name] = Saved(disk[file.name], L)]
                 /\ \E fresh, bad \in BOOLEAN : file' = Stopped(file, fresh, bad)
      <3>1. PICK L \in SUBSET list, fresh \in BOOLEAN, bad \in BOOLEAN :
               o.pet = Saved(disk[file.name], L) /\ o.file = Stopped(file, fresh, bad)
        BY SaveAbortIs, <2>2
      <3> QED BY <2>2, <3>1
    <2> QED BY <1>2, <2>1, <2>2 DEF SaveFails, Writes, Accepts
  <1> QED BY <1>1, <1>2

LEMMA SaveTypes ==
    ASSUME DataOK, SaveSucceeds \/ SaveFails
    PROVE  DataStaysOK
  <1>1. /\ file.open => file.name \in Files
        /\ \A L \in SUBSET list : L \subseteq Items
        /\ Recs(list) \subseteq Records
    BY RecordsOf DEF DataOK, FileInv
  <1>2. /\ disk' \in [Files -> FileContent]
        /\ \A m \in Files : disk'[m].state = "good" => disk'[m].key \in Keys
    <2>1. CASE disk' = disk
      BY <2>1 DEF DataOK, FileInv
    <2>2. ASSUME file.open, NEW L \in SUBSET list,
                 disk' = [disk EXCEPT ![file.name] = Saved(disk[file.name], L)]
          PROVE  /\ disk' \in [Files -> FileContent]
                 /\ \A m \in Files : disk'[m].state = "good" => disk'[m].key \in Keys
      <3>1. Readable(Saved(disk[file.name], L))
        BY <1>1, <2>2, DiskReadable, SavedReadable
      <3> QED BY <2>2, <3>1, DiskChanges
    <2> QED BY <2>1, <2>2, SaveIs
  <1>3. owed' \in [Files -> SUBSET Records]
    BY <1>1, SaveIs DEF DataOK
  <1>4. file' \in FileObject /\ file'.open = file.open /\ file'.name = file.name
    <2>1. file \in FileObject
      BY DEF DataOK
    <2>2. file' = file \/ file' = Spoilt(file) \/ \E fresh, bad \in BOOLEAN : file' = Stopped(file, fresh, bad)
      BY SaveIs
    <2> QED BY <2>1, <2>2, SpoiltIs, StoppedIs
  <1>5. list' = list /\ clean' = clean /\ factory' = factory /\ changed' \in BOOLEAN
    BY DEF SaveSucceeds, SaveFails, DataOK
  <1> QED BY <1>2, <1>3, <1>4, <1>5 DEF DataOK, DataStaysOK, FileInv

LEMMA ConstructTypes ==
    ASSUME DataOK, NEW n \in Files, NEW k \in Keys, NEW create \in BOOLEAN, Constructs(n, k, create)
    PROVE  /\ disk' \in [Files -> FileContent] /\ changed' = FALSE
           /\ \A m \in Files : disk'[m].state = "good" => disk'[m].key \in Keys
           /\ disk'[n].items \subseteq Items
  <1>1. disk' \in [Files -> FileContent] /\ \A m \in Files : disk'[m].state = "good" => disk'[m].key \in Keys
    BY RecordsOf DEF DataOK, FileInv, Constructs
  <1> QED BY <1>1 DEF Constructs, FileContent

\* What File::read of a good File delivers.
LEMMA ReadIs ==
    ASSUME NEW newList, NEW f \in FileObject, NEW pet, ReadInto(newList, f, pet)
    PROVE  /\ newList \subseteq pet.items /\ Under(newList, f.key)
           /\ file' \in FileObject /\ file'.open = f.open /\ file'.name = f.name /\ file'.key = f.key
           /\ ~f.bad /\ ~file'.bad => newList = pet.items
  <1>1. PICK read \in Reads(pet) : /\ Under(read.items, f.key)
                                   /\ newList = read.items
                                   /\ file' = IF read.bad THEN Spoilt(f) ELSE f
    BY DEF ReadInto
  <1>2. read.items \subseteq pet.items /\ (read.bad \/ read.items = pet.items)
    BY DEF Reads
  <1> QED BY <1>1, <1>2, SpoiltIs

LEMMA ReadFailsIs ==
    ASSUME NEW f \in FileObject, ReadFails(f)
    PROVE  file' \in FileObject /\ file'.open = f.open /\ file'.name = f.name
  BY SpoiltIs DEF ReadFails

LEMMA LoadTypes ==
    ASSUME DataOK, errormsg \in BOOLEAN, NEW n \in Files, NEW k \in Keys, NEW create \in BOOLEAN,
           load_password_file(n, k, create)
    PROVE  DataOK' /\ errormsg' \in BOOLEAN /\ (file.open => file'.open)
  <1>1. Opened(n, k) \in FileObject /\ Opened(n, k).open = TRUE /\ Opened(n, k).name = n
    BY OpenedIs
  <1>2. CASE Loads(n, k, create)
    <2>1. /\ disk' \in [Files -> FileContent] /\ changed' = FALSE
          /\ \A m \in Files : disk'[m].state = "good" => disk'[m].key \in Keys
          /\ disk'[n].items \subseteq Items
      BY <1>2, ConstructTypes DEF Loads
    <2>2. list' \subseteq Items /\ file' \in FileObject /\ file'.open = TRUE /\ file'.name = n
      BY <1>1, <1>2, <2>1, ReadIs DEF Loads
    <2>3. owed' \in [Files -> SUBSET Records]
      BY <1>2, <2>1, RecordsOf DEF Loads, DataOK
    <2> QED BY <1>2, <2>1, <2>2, <2>3 DEF Loads, load_password_file, DataOK, FileInv
  <1>3. CASE LoadFails(n, k, create)
    <2>1. CASE /\ Constructs(n, k, create) /\ ReadFails(Opened(n, k))
               /\ owed' = [owed EXCEPT ![n] = IF create THEN {} ELSE @]
      <3>1. /\ disk' \in [Files -> FileContent] /\ changed' = FALSE
            /\ \A m \in Files : disk'[m].state = "good" => disk'[m].key \in Keys
        BY <2>1, ConstructTypes
      <3>2. owed' \in [Files -> SUBSET Records]
        BY <2>1 DEF DataOK
      <3>3. file' \in FileObject /\ file'.open = TRUE /\ file'.name = n
        BY <1>1, <2>1, ReadFailsIs
      <3> QED BY <1>3, <3>1, <3>2, <3>3 DEF LoadFails, load_password_file, DataOK, FileInv
    <2>2. CASE ConstructFails(n, k, create) /\ changed' = changed
      <3>1. disk' \in [Files -> FileContent] /\ \A m \in Files : disk'[m].state = "good" => disk'[m].key \in Keys
        BY <2>2, CreationFailureIs, UnusableContent, RecordsOf DEF DataOK, FileInv
      <3>2. owed' \in [Files -> SUBSET Records] /\ file' \in FileObject /\ file'.open = file.open
            /\ file'.name = file.name
        BY <2>2, CreationFailureIs DEF DataOK, FileObject
      <3> QED BY <1>3, <2>2, <3>1, <3>2 DEF LoadFails, load_password_file, DataOK, FileInv
    <2> QED BY <1>3, <2>1, <2>2 DEF LoadFails
  <1> QED BY <1>2, <1>3 DEF load_password_file

\* A key change that goes through: the new file is under the new key.
LEMMA KeyChangedIs ==
    ASSUME DataOK, file.open, NEW k \in Keys, KeyChanged(k)
    PROVE  /\ disk' \in [Files -> FileContent]
           /\ \A m \in Files : disk'[m].state = "good" => disk'[m].key \in Keys
           /\ disk'[file.name].key = k /\ disk'[file.name].items \subseteq Items
           /\ owed' \in [Files -> SUBSET Records]
           /\ owed'[file.name] = owed[file.name] \cap Recs(disk'[file.name].items)
  <1>1. file.name \in Files /\ disk \in [Files -> FileContent] /\ owed \in [Files -> SUBSET Records]
    BY DEF DataOK, FileInv
  <1>2. PICK new \in Rekeyings(disk[file.name], file.key, k) : disk' = [disk EXCEPT ![file.name] = new]
    BY DEF KeyChanged
  <1>3. Readable(new) /\ new.key = k /\ new.items \subseteq Items
    BY <1>1, DiskReadable, RekeyingIs
  <1>4. disk'[file.name] = new
    BY <1>1, <1>2
  <1>5. owed' = [owed EXCEPT ![file.name] = owed[file.name] \cap Recs(disk'[file.name].items)]
    BY DEF KeyChanged
  <1> QED BY <1>1, <1>2, <1>3, <1>4, <1>5, DiskChanges

LEMMA KeyChangeFailsIs ==
    ASSUME DataOK, file.open, NEW k \in Keys, KeyChangeFails(k)
    PROVE  /\ disk' \in [Files -> FileContent]
           /\ \A m \in Files : disk'[m].state = "good" => disk'[m].key \in Keys
           /\ file' \in FileObject /\ file'.open = file.open /\ file'.name = file.name
           /\ owed' \in [Files -> SUBSET Records]
  <1>1. /\ file.name \in Files /\ disk \in [Files -> FileContent] /\ owed \in [Files -> SUBSET Records]
        /\ file \in FileObject
    BY DEF DataOK, FileInv
  <1>2. CASE UNCHANGED <<disk, file, owed>>
    BY <1>1, <1>2 DEF DataOK, FileInv
  <1>3. CASE file' = [file EXCEPT !.inner = FALSE, !.bad = FALSE] /\ UNCHANGED <<disk, owed>>
    <2>1. file' \in FileObject /\ file'.open = file.open /\ file'.name = file.name
      BY <1>1, <1>3 DEF FileObject
    <2> QED BY <1>1, <1>3, <2>1 DEF DataOK, FileInv
  <1>4. ASSUME NEW o \in KeyAborts(disk[file.name], file, k),
               disk' = [disk EXCEPT ![file.name] = o.pet], file' = o.file,
               owed' = [owed EXCEPT ![file.name] = {}]
        PROVE  /\ disk' \in [Files -> FileContent]
               /\ \A m \in Files : disk'[m].state = "good" => disk'[m].key \in Keys
               /\ file' \in FileObject /\ file'.open = file.open /\ file'.name = file.name
               /\ owed' \in [Files -> SUBSET Records]
    <2>1. /\ o.pet \in Begun(disk[file.name], file.key, k)
          /\ o.file \in FileObject /\ o.file.open = file.open /\ o.file.name = file.name
      <3>1. \A h \in KeyAborts(disk[file.name], file, k) :
               /\ h.pet \in Begun(disk[file.name], file.key, k)
               /\ h.file \in FileObject /\ h.file.open = file.open /\ h.file.name = file.name
        <4> DEFINE pet == disk[file.name]
        <4>1. file \in FileObject /\ k \in Keys
          BY <1>1
        <4> HIDE DEF pet
        <4>2. \A f \in FileObject, j \in Keys : \A h \in KeyAborts(pet, f, j) :
                /\ h.pet \in Begun(pet, f.key, j)
                /\ h.file \in FileObject /\ h.file.open = f.open /\ h.file.name = f.name
          BY KeyAbortIs
        <4>3. \A h \in KeyAborts(pet, file, k) :
                /\ h.pet \in Begun(pet, file.key, k)
                /\ h.file \in FileObject /\ h.file.open = file.open /\ h.file.name = file.name
          BY <4>1, <4>2
        <4> QED BY <4>3 DEF pet
      <3> QED BY <3>1, <1>4, Zenon
    <2>2. Readable(o.pet)
      BY <1>1, <2>1, DiskReadable, BegunReadable
    <2>3. owed' \in [Files -> SUBSET Records]
      BY <1>1, <1>4
    <2> QED BY <1>4, <2>1, <2>2, <2>3, DiskChanges
  <1> QED BY <1>2, <1>3, <1>4 DEF KeyChangeFails

LEMMA KeyChangeTypes ==
    ASSUME DataOK, errormsg \in BOOLEAN, file.open, NEW k \in Keys, change_password(k)
    PROVE  DataStaysOK /\ errormsg' \in BOOLEAN
  <1>1. file \in FileObject /\ file.name \in Files
    BY DEF DataOK, FileInv
  <1>2. /\ Renewed(file, k) \in FileObject /\ Renewed(file, k).open = TRUE
        /\ Renewed(file, k).name = file.name
    BY <1>1, RenewedIs
  <1>3. factory' = k /\ changed' = changed
    BY DEF change_password
  <1>4. CASE /\ KeyChanged(k) /\ ReadInto(list', Renewed(file, k), disk'[file.name])
             /\ UNCHANGED <<errormsg, clean>>
    <2>1. list' \subseteq Items /\ file' \in FileObject /\ file'.open = TRUE /\ file'.name = file.name
      BY <1>2, <1>4, ReadIs, KeyChangedIs
    <2> QED BY <1>1, <1>3, <1>4, <2>1, KeyChangedIs DEF DataOK, DataStaysOK, FileInv
  <1>5. CASE /\ (KeyChanged(k) /\ ReadFails(Renewed(file, k))) \/ KeyChangeFails(k)
             /\ list' = list /\ errormsg' = TRUE /\ clean' = FALSE
    <2>1. file' \in FileObject /\ file'.open = TRUE /\ file'.name = file.name
      BY <1>1, <1>2, <1>5, ReadFailsIs, KeyChangeFailsIs DEF FileObject
    <2> QED BY <1>1, <1>3, <1>5, <2>1, KeyChangedIs, KeyChangeFailsIs DEF DataOK, DataStaysOK, FileInv
  <1> QED BY <1>4, <1>5 DEF change_password

-----------------------------------------------------------------------------
(***************************************************************************)
(* The steps keep the types.                                               *)
(***************************************************************************)
\* The glue object stays, and its dialog, if it does not close.
LEMMA SameGlue ==
    ASSUME TypeInv, DataStaysOK, ScreenOK', glue' = glue,
           dialog' = dialog \/ dialog' \in {"none", "confirmquit"},
           queue' = queue \/ queue' = <<"glue">>
    PROVE  TypeInv'
  BY QueueSteps, TypeParts, TypePartsNext DEF GlueInv, DataStaysOK

LEMMA CrashTypes == ASSUME TypeInv, Crash PROVE TypeInv'
  <1>1. DataStaysOK
    BY DataStays, TypeParts DEF Crash
  <1>2. ScreenOK'
    BY TypeParts DEF Crash, ScreenOK, QueueInv
  <1> QED BY <1>1, <1>2, SameGlue DEF Crash

LEMMA TypeChangeList == ASSUME TypeInv, ChangeList PROVE TypeInv'
  <1>1. DataOK /\ ScreenOK
    BY TypeParts
  <1>2. /\ glue' = glue /\ dialog' = dialog /\ queue' = queue /\ file' = file
        /\ UNCHANGED <<errormsg, locked, running>>
    BY DEF ChangeList, AddRecord, EditRecord, DeleteRecord, world
  <1>3. ScreenOK'
    BY <1>1, <1>2 DEF ScreenOK, QueueInv
  <1>4. \A r \in Records : file.open => [rec |-> r, key |-> factory] \in Items
    BY <1>1 DEF DataOK, FileInv, Items
  <1>5. list' \subseteq Items
    BY <1>1, <1>4 DEF ChangeList, AddRecord, EditRecord, DeleteRecord, DataOK
  <1>6. owed' \in [Files -> SUBSET Records]
    BY <1>1 DEF ChangeList, AddRecord, EditRecord, DeleteRecord, DataOK
  <1>7. DataOK'
    BY <1>1, <1>2, <1>5, <1>6 DEF ChangeList, AddRecord, EditRecord, DeleteRecord, DataOK, FileInv
  <1> QED BY <1>2, <1>3, <1>7, SameGlue DEF DataStaysOK

LEMMA TypeWindow == ASSUME TypeInv, Window PROVE TypeInv'
  <1>1. DataOK /\ ScreenOK
    BY TypeParts
  <1>2. CASE Save \/ ConfirmQuit
    <2>1. CASE SaveCrashes
      BY <2>1, CrashTypes DEF SaveCrashes
    <2>2. CASE ~SaveCrashes
      <3>1. DataStaysOK
        BY <1>1, <1>2, <2>2, SaveTypes, DataStays DEF Save, ConfirmQuit
      <3>2. glue' = glue /\ queue' = queue /\ (dialog' = dialog \/ dialog' = "none")
        BY <1>2, <2>2 DEF Save, ConfirmQuit
      <3>3. ScreenOK'
        BY <1>1, <1>2, <2>2, <3>2 DEF Save, ConfirmQuit, SaveSucceeds, SaveFails, ScreenOK, QueueInv, world, Dialogs
      <3> QED BY <3>1, <3>2, <3>3, SameGlue
    <2> QED BY <2>1, <2>2
  <1>3. CASE Quit \/ CloseError
    <2>1. DataStaysOK
      BY <1>1, <1>3, DataStays DEF Quit, CloseError
    <2>2. glue' = glue /\ queue' = queue /\ (dialog' = dialog \/ dialog' = "confirmquit")
      BY <1>3 DEF Quit, CloseError
    <2>3. ScreenOK'
      BY <1>1, <1>3 DEF Quit, CloseError, HotKey, UserTurn, ScreenOK, QueueInv, world, Dialogs
    <2> QED BY <2>1, <2>2, <2>3, SameGlue
  <1> QED BY <1>2, <1>3, TypeChangeList DEF Window

\* What the glue object asks next.
LEMMA RunDialogIs ==
    ASSUME NEW g, NEW unsaved
    PROVE  RunDialog(g, unsaved) \in Dialogs /\ RunDialog(g, unsaved) \in {"confirmsave", "oldpassword", "filedialog"}
           /\ (RunDialog(g, unsaved) = "filedialog" => g.kind # "change")
  BY DEF RunDialog, Dialogs

\* The dialog closes and the object goes.
LEMMA FinishTypes ==
    ASSUME TypeInv, UserTurn, Finish("glue") PROVE TypeInv'
  <1>1. queue' = <<"glue">> /\ dialog' = "none" /\ glue' = glue
    BY QueueSteps DEF UserTurn, Finish, Submit
  <1>2. ScreenOK'
    BY <1>1, TypeParts DEF Finish, ScreenOK, QueueInv, Queues, Dialogs, world
  <1> QED BY <1>1, <1>2, DataStays, SameGlue, TypeParts DEF Finish

\* Another dialog of the same object.
LEMMA ShowTypes ==
    ASSUME TypeInv, UserTurn, NEW d \in Dialogs, Show(d),
           d \notin {"newpassword", "createfile"},
           d \in {"filedialog", "password", "pwerror", "prompterror"} => glue.kind # "change"
    PROVE  TypeInv'
  <1>1. ScreenOK'
    BY TypeParts DEF Show, ScreenOK, QueueInv, world, UserTurn
  <1>2. DataStaysOK
    BY DataStays, TypeParts DEF Show
  <1>3. GlueInv'
    BY <1>2, QueueSteps, TypeParts DEF GlueInv, DataStaysOK, Show, UserTurn
  <1> QED BY <1>1, <1>2, <1>3, TypePartsNext DEF DataStaysOK

LEMMA ShowNewPassword ==
    ASSUME TypeInv, UserTurn, Show("newpassword"), glue.name \in Files
    PROVE  TypeInv'
  <1>1. ScreenOK'
    BY TypeParts DEF Show, ScreenOK, QueueInv, world, UserTurn, Dialogs
  <1>2. DataStaysOK
    BY DataStays, TypeParts DEF Show
  <1>3. GlueInv'
    BY <1>2, QueueSteps, TypeParts, NoNameAssumption DEF GlueInv, DataStaysOK, Show, UserTurn
  <1> QED BY <1>1, <1>2, <1>3, TypePartsNext DEF DataStaysOK

LEMMA TypeStart ==
    ASSUME TypeInv, NEW kind \in {"load", "create", "change"}, Start(kind) PROVE TypeInv'
  <1>1. DataStaysOK
    BY DataStays, TypeParts DEF Start
  <1>2. glue' \in Glue /\ glue'.kind = kind /\ glue'.key = NoKey
        /\ glue'.name = IF kind = "change" /\ file.open THEN file.name ELSE NoName
    <2>1. file.open => file.name \in Files
      BY TypeParts DEF DataOK, FileInv
    <2> QED BY <2>1 DEF Start, NewGlue, Glue, Kinds
  <1>3. dialog' \in Dialogs /\ dialog' \in {"confirmsave", "oldpassword", "filedialog"}
        /\ (dialog' = "filedialog" => kind # "change")
    BY <1>2, RunDialogIs DEF Start
  <1>4. ScreenOK'
    BY <1>2, <1>3, TypeParts DEF Start, HotKey, UserTurn, ScreenOK, QueueInv, world
  <1>5. GlueInv'
    BY <1>1, <1>2, <1>3, QueueSteps DEF GlueInv, DataStaysOK, Start, HotKey, UserTurn
  <1> QED BY <1>1, <1>4, <1>5, TypePartsNext DEF DataStaysOK

LEMMA TypeConfirmSave ==
    ASSUME TypeInv, ConfirmSaveYes \/ ConfirmSaveNo \/ ConfirmSaveCancel PROVE TypeInv'
  <1>1. DataOK /\ ScreenOK /\ GlueInv
    BY TypeParts
  <1>2. CASE ConfirmSaveYes /\ ~SaveCrashes
    <2>1. DataStaysOK
      BY <1>1, <1>2, SaveTypes DEF ConfirmSaveYes
    <2>2. CASE SaveSucceeds /\ dialog' = RunDialog(glue, FALSE)
      <3>1. ScreenOK'
        BY <1>1, <1>2, <2>2, RunDialogIs DEF ConfirmSaveYes, SaveFails, SaveSucceeds, ScreenOK, QueueInv, world, Answer, UserTurn
      <3>2. GlueInv'
        BY <1>1, <1>2, <2>1, <2>2, RunDialogIs, QueueSteps DEF ConfirmSaveYes, GlueInv, DataStaysOK, Answer, UserTurn
      <3> QED BY <2>1, <3>1, <3>2, TypePartsNext DEF DataStaysOK
    <2>3. CASE SaveFails /\ dialog' = "none"
      <3>1. queue' = queue \/ queue' = <<"glue">>
        BY <1>2, <2>3, QueueSteps DEF ConfirmSaveYes, Submit, Answer, UserTurn
      <3>2. ScreenOK'
        BY <1>1, <1>2, <2>3, <3>1 DEF ConfirmSaveYes, SaveFails, ScreenOK, QueueInv, world, Answer, UserTurn, Queues, Dialogs
      <3> QED BY <1>2, <2>1, <2>3, <3>1, <3>2, SameGlue DEF ConfirmSaveYes
    <2> QED BY <1>2, <2>2, <2>3 DEF ConfirmSaveYes
  <1>3. CASE SaveCrashes
    BY <1>3, CrashTypes DEF SaveCrashes
  <1>4. CASE ConfirmSaveNo
    <2>1. glue' \in Glue /\ glue'.kind = glue.kind /\ glue'.key = glue.key /\ glue'.name = glue.name
      BY <1>1, <1>4 DEF ConfirmSaveNo, ScreenOK, Glue
    <2>2. ScreenOK'
      BY <1>1, <1>4, <2>1, RunDialogIs DEF ConfirmSaveNo, ScreenOK, QueueInv, world, Answer, UserTurn
    <2>3. DataStaysOK
      BY <1>1, <1>4, DataStays DEF ConfirmSaveNo
    <2>4. dialog' \in {"confirmsave", "oldpassword", "filedialog"}
          /\ (dialog' = "filedialog" => glue'.kind # "change")
      BY <1>4, RunDialogIs DEF ConfirmSaveNo
    <2>5. GlueInv'
      BY <1>1, <1>4, <2>1, <2>3, <2>4, QueueSteps DEF ConfirmSaveNo, GlueInv, DataStaysOK, Answer, UserTurn
    <2> QED BY <2>2, <2>3, <2>5, TypePartsNext DEF DataStaysOK
  <1> QED BY <1>2, <1>3, <1>4, FinishTypes DEF ConfirmSaveCancel, Answer

LEMMA TypeFile ==
    ASSUME TypeInv, (\E n \in Files : ChooseFile(n)) \/ CancelFile \/ CreateFileAnswer PROVE TypeInv'
  <1>1. DataOK /\ ScreenOK /\ GlueInv
    BY TypeParts
  <1>2. ASSUME NEW n \in Files, ChooseFile(n) PROVE TypeInv'
    <2>1. glue' \in Glue /\ glue'.kind = glue.kind /\ glue'.key = glue.key /\ glue'.name = n
      BY <1>1, <1>2 DEF ChooseFile, ScreenOK, Glue
    <2>2. dialog' \in {"password", "newpassword"} /\ queue' = queue /\ queue = <<>> /\ glue.kind # "change"
      BY <1>1, <1>2, QueueSteps DEF ChooseFile, Answer, UserTurn, GlueInv
    <2>3. ScreenOK'
      BY <1>1, <1>2, <2>1, <2>2 DEF ChooseFile, ScreenOK, QueueInv, world, Dialogs
    <2>4. DataOK'
      BY <1>1, <1>2, DataStays DEF ChooseFile, DataStaysOK
    <2>5. GlueInv'
      BY <2>1, <2>2, QueueSteps DEF GlueInv
    <2> QED BY <2>3, <2>4, <2>5, TypePartsNext
  <1>3. CASE CreateFileAnswer
    BY <1>1, <1>3, FinishTypes, ShowNewPassword DEF CreateFileAnswer, Answer, GlueInv
  <1> QED BY <1>2, <1>3, FinishTypes DEF CancelFile, Answer

\* PromptPassword submits its own event.
LEMMA PromptEnds ==
    ASSUME TypeInv, UserTurn, dialog' = "none", Submit("prompt"), UNCHANGED <<data, errormsg, world>>,
           glue' \in Glue, glue'.kind = glue.kind, glue'.name = glue.name, glue.kind # "change",
           glue'.key # NoKey => glue.name \in Files
    PROVE  TypeInv'
  <1>1. queue' = <<"prompt">>
    BY QueueSteps DEF UserTurn, Submit
  <1>2. ScreenOK'
    BY <1>1, TypeParts DEF ScreenOK, QueueInv, Queues, Dialogs, world
  <1>3. DataOK'
    BY DataStays, TypeParts DEF DataStaysOK
  <1>4. GlueInv'
    BY <1>1 DEF GlueInv
  <1> QED BY <1>2, <1>3, <1>4, TypePartsNext

LEMMA TypePrompt ==
    ASSUME TypeInv, \/ \E pw \in Passwords : PromptPassword(pw)
                    \/ CancelPassword \/ RetryPassword \/ ClosePromptError
    PROVE  TypeInv'
  <1>1. DataOK /\ ScreenOK /\ GlueInv /\ UserTurn
    BY TypeParts DEF PromptPassword, CancelPassword, RetryPassword, ClosePromptError, Answer
  <1>2. dialog \in {"password", "pwerror", "prompterror"} /\ glue.kind # "change"
    BY <1>1 DEF PromptPassword, CancelPassword, RetryPassword, ClosePromptError, Answer, GlueInv
  <1>3. \A d \in {"password", "pwerror", "prompterror"} : Show(d) => TypeInv'
    BY <1>1, <1>2, ShowTypes DEF Dialogs
  <1>4. Finish("prompt") => TypeInv'
    BY <1>1, <1>2, PromptEnds DEF Finish, ScreenOK, GlueInv
  <1>5. ASSUME NEW pw \in Passwords, PromptPassword(pw) PROVE TypeInv'
    <2>1. CASE /\ Recognized(glue.name) /\ disk[glue.name].state = "good"
               /\ Candidate(glue.name, pw) = disk[glue.name].key
               /\ glue' = [glue EXCEPT !.key = Candidate(glue.name, pw)]
               /\ dialog' = "none" /\ Submit("prompt")
               /\ UNCHANGED <<data, errormsg, world>>
      <3>1. glue.name \in Files
        BY <1>1, <2>1 DEF Recognized, ScreenOK, Glue
      <3>2. disk[glue.name].key \in Keys
        BY <1>1, <2>1, <3>1 DEF DataOK, FileInv
      <3>3. glue' \in Glue /\ glue'.kind = glue.kind /\ glue'.name = glue.name
        BY <1>1, <2>1, <3>2 DEF ScreenOK, Glue
      <3> QED BY <1>1, <1>2, <2>1, <3>1, <3>3, PromptEnds
    <2> QED BY <1>3, <1>5, <2>1 DEF PromptPassword
  <1> QED BY <1>3, <1>4, <1>5 DEF CancelPassword, RetryPassword, ClosePromptError

LEMMA TypeOldPassword ==
    ASSUME TypeInv, \/ \E pw \in Passwords : OldPassword(pw)
                    \/ CancelOldPassword \/ NonMatch \/ NewPasswordFails \/ CloseGenError
                    \/ CancelNewPassword
    PROVE  TypeInv'
  <1>1. DataOK /\ ScreenOK /\ GlueInv /\ UserTurn
    BY TypeParts DEF OldPassword, CancelOldPassword, NonMatch, NewPasswordFails, CloseGenError, CancelNewPassword, Answer
  <1>2. \A d \in {"nonmatch", "generror", "none"} : Show(d) => TypeInv'
    BY <1>1, ShowTypes DEF Dialogs
  <1>3. ASSUME NEW pw \in Passwords, OldPassword(pw) PROVE TypeInv'
    <2>1. CASE Recognized(glue.name) /\ Show("newpassword")
      <3>1. glue.name \in Files
        BY <1>1, <2>1 DEF Recognized, ScreenOK, Glue
      <3> QED BY <1>1, <2>1, <3>1, ShowNewPassword
    <2> QED BY <1>2, <1>3, <2>1 DEF OldPassword
  <1>4. CASE NonMatch
    <2>1. CASE Show(RunDialog(glue, changed))
      BY <1>1, <2>1, ShowTypes, RunDialogIs
    <2> QED BY <1>1, <1>4, <2>1, FinishTypes DEF NonMatch
  <1> QED BY <1>1, <1>2, <1>3, <1>4, FinishTypes DEF CancelOldPassword, NewPasswordFails, CloseGenError, CancelNewPassword

LEMMA TypeNewPassword ==
    ASSUME TypeInv, NEW pw \in Passwords, NEW s \in Salts, CreateNewFile(pw, s) \/ ChangeKey(pw, s)
    PROVE  TypeInv'
  <1>1. DataOK /\ ScreenOK /\ GlueInv
    BY TypeParts
  <1>2. UserTurn /\ dialog = "newpassword" /\ [pw |-> pw, salt |-> s] \in Keys
    BY DEF CreateNewFile, ChangeKey, Answer, Keys
  <1>3. CASE Finish("glue")
    BY <1>2, <1>3, FinishTypes
  <1>4. CASE ~Finish("glue")
    <2>1. queue' = <<"glue">> /\ dialog' = "none" /\ glue' = glue /\ UNCHANGED world
      BY <1>2, <1>4, QueueSteps DEF CreateNewFile, ChangeKey, Submit, UserTurn
    <2>2. DataOK' /\ errormsg' \in BOOLEAN /\ (glue.kind = "change" => DataStaysOK)
      <3>1. CASE CreateNewFile(pw, s)
        <4>1. glue.name \in Files /\ glue.kind # "change"
          BY <1>1, <1>2, <3>1 DEF CreateNewFile, GlueInv
        <4> QED BY <1>1, <1>2, <3>1, <4>1, LoadTypes DEF CreateNewFile, ScreenOK
      <3>2. CASE ChangeKey(pw, s)
        <4>1. file.open
          BY <1>1, <1>2, <3>2 DEF ChangeKey, GlueInv
        <4> QED BY <1>1, <1>2, <1>4, <3>2, <4>1, KeyChangeTypes DEF ChangeKey, ScreenOK, DataStaysOK
      <3> QED BY <3>1, <3>2
    <2>3. ScreenOK'
      BY <1>1, <2>1, <2>2 DEF ScreenOK, QueueInv, Queues, Dialogs, world
    <2>4. GlueInv'
      BY <1>1, <2>1, <2>2, QueueSteps DEF GlueInv, DataStaysOK
    <2> QED BY <2>2, <2>3, <2>4, TypePartsNext
  <1> QED BY <1>3, <1>4

LEMMA TypeDialog == ASSUME TypeInv, Dialog PROVE TypeInv'
  BY CrashTypes, TypeStart, TypeConfirmSave, TypeFile, TypePrompt, TypeOldPassword, TypeNewPassword
     DEF Dialog, StartCrashes

LEMMA TypeApoptosis == ASSUME TypeInv, Apoptosis PROVE TypeInv'
  <1>1. DataOK /\ ScreenOK /\ GlueInv
    BY TypeParts
  <1>2. CASE PromptApoptosis
    <2>1. queue = <<"prompt">> /\ queue' = <<"glue">> /\ glue.kind # "change" /\ dialog = "none"
      BY <1>1, <1>2, QueueSteps DEF PromptApoptosis, ScreenOK, QueueInv, Queues, GlueInv
    <2>2. DataOK' /\ errormsg' \in BOOLEAN
      <3>1. CASE glue.key = NoKey
        BY <1>1, <1>2, <3>1, DataStays DEF PromptApoptosis, ScreenOK, DataStaysOK
      <3>2. CASE glue.key # NoKey
        <4>1. glue.key \in Keys /\ glue.name \in Files
          BY <1>1, <3>2 DEF ScreenOK, Glue, GlueInv
        <4> QED BY <1>1, <1>2, <3>2, <4>1, LoadTypes DEF PromptApoptosis, ScreenOK
      <3> QED BY <3>1, <3>2
    <2>3. ScreenOK'
      BY <1>1, <1>2, <2>1, <2>2 DEF PromptApoptosis, ScreenOK, QueueInv, Queues, world
    <2>4. GlueInv'
      BY <1>1, <1>2, <2>1, QueueSteps DEF PromptApoptosis, GlueInv
    <2> QED BY <2>2, <2>3, <2>4, TypePartsNext
  <1>3. CASE GlueApoptosis
    <2>1. queue = <<"glue">> /\ queue' = <<>> /\ dialog' = "none"
      BY <1>1, <1>3, QueueSteps DEF GlueApoptosis, ScreenOK, QueueInv, Queues
    <2>2. DataOK'
      BY <1>1, <1>3, DataStays DEF GlueApoptosis, DataStaysOK
    <2>3. glue' \in Glue /\ glue'.kind = "none" /\ glue'.key = NoKey
      BY <1>3 DEF GlueApoptosis, NoGlue, NewGlue, Glue, Kinds
    <2>4. ScreenOK'
      BY <1>1, <1>3, <2>1, <2>3 DEF GlueApoptosis, ScreenOK, QueueInv, Queues, world, Dialogs
    <2>5. GlueInv'
      BY <2>1, <2>3, QueueSteps DEF GlueInv
    <2> QED BY <2>2, <2>4, <2>5, TypePartsNext
  <1> QED BY <1>2, <1>3 DEF Apoptosis

LEMMA TypeLockScreen == ASSUME TypeInv, LockScreen PROVE TypeInv'
  <1>1. CASE Lock /\ ~file.inner
    BY <1>1, CrashTypes DEF Lock
  <1>2. CASE ~(Lock /\ ~file.inner)
    <2>1. UNCHANGED <<data, glue, dialog, errormsg, queue>>
      BY <1>2 DEF LockScreen, Lock, Unlock, UnlockRefused, UnlockFails, LockQuit, vars, data
    <2>2. ScreenOK'
      BY <1>2, <2>1, TypeParts DEF LockScreen, Lock, Unlock, UnlockRefused, UnlockFails, LockQuit,
         vars, ScreenOK, QueueInv
    <2> QED BY <2>1, <2>2, DataStays, TypeParts, SameGlue
  <1> QED BY <1>1, <1>2

LEMMA TypeOthers ==
    ASSUME TypeInv, NEW n \in Files, NEW pw \in Passwords, NEW s \in Salts, OtherProcess(n, pw, s)
    PROVE  TypeInv'
  <1>1. DataOK /\ ScreenOK
    BY TypeParts
  <1>2. [pw |-> pw, salt |-> s] \in Keys /\ Recs(disk[n].items) \in SUBSET Records
    <2>1. disk[n].items \subseteq Items
      BY <1>1 DEF DataOK, FileContent
    <2> QED BY <2>1, RecordsOf DEF Keys
  <1>3. disk' \in [Files -> FileContent] /\ \A m \in Files : disk'[m].state = "good" => disk'[m].key \in Keys
    BY <1>1, <1>2, RecordsOf DEF OtherProcess, DataOK, FileInv
  <1>4. file' \in FileObject /\ file'.open = file.open /\ file'.name = file.name
    BY <1>1 DEF OtherProcess, DataOK, FileObject
  <1>5. DataStaysOK
    BY <1>1, <1>3, <1>4 DEF OtherProcess, DataOK, DataStaysOK, FileInv
  <1>6. ScreenOK'
    BY <1>1 DEF OtherProcess, ScreenOK, QueueInv, world
  <1> QED BY <1>5, <1>6, SameGlue DEF OtherProcess

LEMMA TypeNext == TypeInv /\ [Next]_vars => TypeInv'
  <1>1. ASSUME TypeInv, UNCHANGED vars PROVE TypeInv'
    <2>1. UNCHANGED data
      BY <1>1 DEF vars, data
    <2>2. ScreenOK'
      BY <1>1, TypeParts DEF vars, ScreenOK, QueueInv
    <2> QED BY <1>1, <2>1, <2>2, DataStays, TypeParts, SameGlue DEF vars
  <1> QED BY <1>1, TypeWindow, TypeDialog, TypeApoptosis, TypeLockScreen, TypeOthers DEF Next, Terminated

\* Every reachable state is well typed, whatever fails and whoever changes
\* the files: for every set of files, passwords, salts and records.
THEOREM TypeCorrect == Spec => []TypeOK
  <1>1. TypeInv => TypeOK
    BY DEF TypeInv
  <1> QED BY <1>1, TypeInit, TypeNext, PTL DEF Spec

-----------------------------------------------------------------------------
(***************************************************************************)
(* The error box, and unsaved changes.                                     *)
(***************************************************************************)
\* The dialogs of a glue object behind the question whether to save.
AfterQuestion == {"filedialog", "createfile", "password", "pwerror", "prompterror",
                  "oldpassword", "newpassword"}

\* PromptPassword comes without an error box of the main window, what follows
\* may have one.
BoxInv == errormsg => dialog = "none" /\ queue # <<"prompt">>

\* The user was asked before the first of these dialogs came up.
AgreedInv == changed /\ (dialog \in AfterQuestion \/ queue = <<"prompt">>)
                => glue.ignore_unsaved_file

\* Without a file there is nothing to save.
OpenInv == changed \/ list # {} => file.open

ScreenInv == BoxInv /\ AgreedInv /\ OpenInv

LEMMA ScreenInit == Init => ScreenInv
  <1> SUFFICES ASSUME Init PROVE ScreenInv
    OBVIOUS
  <1>1. errormsg = FALSE /\ changed = FALSE /\ list = {}
    BY DEF Init
  <1> QED BY <1>1 DEF ScreenInv, BoxInv, AgreedInv, OpenInv

\* Nothing is added to what could get lost, and no dialog comes up.
LEMMA ScreenStays ==
    ASSUME ScreenInv, UNCHANGED <<glue, queue>>, list' = list, changed' => changed,
           file.open => file'.open, errormsg' => errormsg /\ dialog' = dialog,
           dialog' = dialog \/ dialog' \notin AfterQuestion
    PROVE  ScreenInv'
  BY DEF ScreenInv, BoxInv, AgreedInv, OpenInv

\* A dialog opens in place of another one.
LEMMA ScreenShows ==
    ASSUME ScreenInv, UserTurn, ~errormsg, UNCHANGED <<data, errormsg, queue>>,
           changed /\ dialog' \in AfterQuestion => glue'.ignore_unsaved_file
    PROVE  ScreenInv'
  BY QueueSteps DEF ScreenInv, BoxInv, AgreedInv, OpenInv, UserTurn, data

\* The last dialog closes.
LEMMA ScreenCloses ==
    ASSUME dialog' = "none", queue' = <<"glue">>, OpenInv'
    PROVE  ScreenInv'
  BY QueueSteps DEF ScreenInv, BoxInv, AgreedInv, AfterQuestion

LEMMA SaveKeeps ==
    ASSUME TypeInv, ScreenInv
    PROVE  /\ SaveSucceeds => changed' = FALSE /\ list' = list /\ file' = file /\ errormsg' = errormsg
           /\ SaveFails => /\ changed' = changed /\ list' = list /\ file'.open = file.open
                           /\ errormsg' = TRUE
  <1>1. file.open => file.open = TRUE
    BY DEF TypeInv, TypeOK, FileObject
  <1>2. SaveSucceeds => changed' = FALSE
    BY DEF SaveSucceeds, ScreenInv, OpenInv, TypeInv, TypeOK
  <1>3. SaveFails => file'.open = file.open
    BY SaveTypes, TypeParts DEF DataStaysOK, DataOK, FileObject, SaveFails
  <1> QED BY <1>2, <1>3 DEF SaveSucceeds, SaveFails

LEMMA ScreenWindow == ASSUME TypeInv, ScreenInv, Window PROVE ScreenInv'
  <1>1. CASE ChangeList
    <2>1. /\ queue = <<>> /\ dialog = "none" /\ UNCHANGED <<glue, queue, dialog, errormsg, file>>
      BY <1>1 DEF ChangeList, AddRecord, EditRecord, DeleteRecord, HotKey, UserTurn
    <2>2. file.open
      BY <1>1 DEF ChangeList, AddRecord, EditRecord, DeleteRecord, ScreenInv, OpenInv
    <2> QED BY <2>1, <2>2, QueueSteps DEF ScreenInv, BoxInv, AgreedInv, OpenInv, AfterQuestion
  <1>2. CASE Save \/ ConfirmQuit
    <2>1. CASE SaveCrashes
      BY <2>1, ScreenStays DEF SaveCrashes, Crash, data
    <2>2. CASE ~SaveCrashes
      <3>1. UNCHANGED <<glue, queue>> /\ queue = <<>> /\ dialog' = "none" /\ list' = list
            /\ (changed' => changed) /\ (file.open => file'.open)
        <4>1. SaveSucceeds \/ SaveFails \/ UNCHANGED data
          BY <1>2, <2>2 DEF Save, ConfirmQuit
        <4>2. list' = list /\ (changed' => changed) /\ (file.open => file'.open)
          <5>1. CASE SaveSucceeds
            BY <5>1, SaveKeeps
          <5>2. CASE SaveFails
            BY <5>2, SaveKeeps
          <5> QED BY <4>1, <5>1, <5>2 DEF data
        <4>3. UNCHANGED <<glue, queue>> /\ queue = <<>> /\ dialog' = "none"
          BY <1>2, <2>2 DEF Save, ConfirmQuit, HotKey, Answer, UserTurn
        <4> QED BY <4>2, <4>3
      <3> QED BY <3>1, QueueSteps DEF ScreenInv, BoxInv, AgreedInv, OpenInv, AfterQuestion
    <2> QED BY <2>1, <2>2
  <1>3. CASE Quit
    BY <1>3, ScreenShows DEF Quit, HotKey, AfterQuestion
  <1>4. CASE CloseError
    BY <1>4, ScreenStays DEF CloseError, data
  <1> QED BY <1>1, <1>2, <1>3, <1>4 DEF Window

\* The question comes up when there are unsaved changes.
LEMMA RunDialogAsks ==
    ASSUME NEW g, NEW unsaved
    PROVE  unsaved /\ RunDialog(g, unsaved) \in AfterQuestion => g.ignore_unsaved_file
  BY DEF RunDialog, AfterQuestion

LEMMA ScreenFinish == ASSUME ScreenInv, UserTurn, Finish("glue") PROVE ScreenInv'
  <1>1. queue' = <<"glue">>
    BY QueueSteps DEF UserTurn, Finish, Submit
  <1> QED BY <1>1, ScreenCloses DEF Finish, ScreenInv, OpenInv, data

LEMMA ScreenPromptEnds ==
    ASSUME ScreenInv, UserTurn, ~errormsg, dialog' = "none", Submit("prompt"), UNCHANGED <<data, errormsg>>,
           changed => glue'.ignore_unsaved_file
    PROVE  ScreenInv'
  BY DEF ScreenInv, BoxInv, AgreedInv, OpenInv, data

LEMMA ScreenConfirmSave ==
    ASSUME TypeInv, ScreenInv, ConfirmSaveYes \/ ConfirmSaveNo \/ ConfirmSaveCancel PROVE ScreenInv'
  <1>1. UserTurn /\ ~errormsg /\ queue = <<>>
    BY DEF ConfirmSaveYes, ConfirmSaveNo, ConfirmSaveCancel, Answer, UserTurn
  <1>2. CASE ConfirmSaveYes
    <2>1. CASE SaveCrashes
      BY <2>1, ScreenStays DEF SaveCrashes, Crash, data
    <2>2. CASE SaveSucceeds /\ dialog' = RunDialog(glue, FALSE) /\ UNCHANGED <<glue, queue, world>>
      <3>1. changed' = FALSE /\ list' = list /\ file' = file /\ errormsg' = errormsg
        BY <2>2, SaveKeeps
      <3> QED BY <1>1, <2>2, <3>1, QueueSteps DEF ScreenInv, BoxInv, AgreedInv, OpenInv
    <2>3. CASE SaveFails /\ dialog' = "none"
      <3>1. changed' = changed /\ list' = list /\ file'.open = file.open
        BY <2>3, SaveKeeps
      <3>2. queue' \in {<<>>, <<"glue">>}
        BY <1>1, <1>2, <2>3, QueueSteps DEF ConfirmSaveYes, SaveSucceeds, SaveFails, Submit, SaveCrashes, Crash
      <3> QED BY <2>3, <3>1, <3>2, QueueSteps DEF ScreenInv, BoxInv, AgreedInv, OpenInv, AfterQuestion
    <2> QED BY <1>2, <2>1, <2>2, <2>3 DEF ConfirmSaveYes
  <1>3. CASE ConfirmSaveNo
    BY <1>1, <1>3, ScreenShows, RunDialogAsks DEF ConfirmSaveNo
  <1> QED BY <1>1, <1>2, <1>3, ScreenFinish DEF ConfirmSaveCancel

LEMMA ScreenAsks ==
    ASSUME TypeInv, ScreenInv,
           \/ \E kind \in {"load", "create", "change"} : Start(kind)
           \/ (\E n \in Files : ChooseFile(n)) \/ CancelFile \/ CreateFileAnswer
           \/ (\E pw \in Passwords : PromptPassword(pw) \/ OldPassword(pw))
           \/ CancelPassword \/ RetryPassword \/ ClosePromptError
           \/ CancelNewPassword \/ NewPasswordFails \/ CloseGenError
           \/ CancelOldPassword \/ NonMatch
    PROVE  ScreenInv'
  <1>1. UserTurn /\ ~errormsg
    BY DEF Start, ChooseFile, CancelFile, CreateFileAnswer, PromptPassword, OldPassword, CancelPassword,
       RetryPassword, ClosePromptError, CancelNewPassword, NewPasswordFails, CloseGenError,
       CancelOldPassword, NonMatch, Answer, HotKey
  <1>2. \A d : Show(d) /\ (changed /\ d \in AfterQuestion => glue.ignore_unsaved_file) => ScreenInv'
    BY <1>1, ScreenShows DEF Show
  <1>3. Finish("glue") => ScreenInv'
    BY <1>1, ScreenFinish
  <1>4. ASSUME NEW kind \in {"load", "create", "change"}, Start(kind) PROVE ScreenInv'
    BY <1>1, <1>4, ScreenShows, RunDialogAsks DEF Start
  <1>5. ASSUME NEW n \in Files, ChooseFile(n) PROVE ScreenInv'
    <2>1. glue'.ignore_unsaved_file = glue.ignore_unsaved_file
      BY <1>5 DEF ChooseFile, TypeInv, TypeOK, Glue
    <2> QED BY <1>1, <1>5, <2>1, ScreenShows DEF ChooseFile, Answer, ScreenInv, AgreedInv, AfterQuestion
  <1>6. CASE CreateFileAnswer \/ CancelFile
    BY <1>2, <1>3, <1>6 DEF CreateFileAnswer, CancelFile, Answer, ScreenInv, AgreedInv, AfterQuestion
  <1>7. ASSUME NEW pw \in Passwords, PromptPassword(pw) PROVE ScreenInv'
    <2>1. CASE /\ glue' = [glue EXCEPT !.key = Candidate(glue.name, pw)]
               /\ dialog' = "none" /\ Submit("prompt") /\ UNCHANGED <<data, errormsg, world>>
      <3>1. glue'.ignore_unsaved_file = glue.ignore_unsaved_file
        BY <2>1 DEF TypeInv, TypeOK, Glue
      <3>2. changed => glue.ignore_unsaved_file
        BY <1>7 DEF PromptPassword, Answer, ScreenInv, AgreedInv, AfterQuestion
      <3> QED BY <1>1, <2>1, <3>1, <3>2, ScreenPromptEnds
    <2>2. CASE Show("pwerror") \/ Show("prompterror")
      BY <1>2, <1>7, <2>2 DEF PromptPassword, Answer, ScreenInv, AgreedInv, AfterQuestion
    <2> QED BY <1>7, <2>1, <2>2 DEF PromptPassword
  <1>8. CASE CancelPassword \/ RetryPassword
    <2>1. changed => glue.ignore_unsaved_file
      BY <1>8 DEF CancelPassword, RetryPassword, Answer, ScreenInv, AgreedInv, AfterQuestion
    <2>2. Finish("prompt") => ScreenInv'
      BY <1>1, <2>1, ScreenPromptEnds DEF Finish
    <2> QED BY <1>2, <1>8, <2>1, <2>2 DEF CancelPassword, RetryPassword
  <1>9. ASSUME NEW pw \in Passwords, OldPassword(pw) PROVE ScreenInv'
    <2>1. changed => glue.ignore_unsaved_file
      BY <1>9 DEF OldPassword, Answer, ScreenInv, AgreedInv, AfterQuestion
    <2> QED BY <1>2, <1>9, <2>1 DEF OldPassword
  <1>10. CASE CancelNewPassword \/ NewPasswordFails \/ CloseGenError \/ CancelOldPassword
    <2>1. "none" \notin AfterQuestion /\ "generror" \notin AfterQuestion
      BY DEF AfterQuestion
    <2> QED BY <1>2, <1>3, <1>10, <2>1
            DEF CancelNewPassword, NewPasswordFails, CloseGenError, CancelOldPassword
  <1>11. CASE NonMatch
    BY <1>2, <1>3, <1>11, RunDialogAsks DEF NonMatch
  <1>12. CASE ClosePromptError
    <2>1. changed => glue.ignore_unsaved_file
      BY <1>12 DEF ClosePromptError, Answer, ScreenInv, AgreedInv, AfterQuestion
    <2> QED BY <1>1, <1>12, <2>1, ScreenPromptEnds DEF ClosePromptError, Finish
  <1> QED BY <1>4, <1>5, <1>6, <1>7, <1>8, <1>9, <1>10, <1>11, <1>12

LEMMA LoadOpens ==
    ASSUME TypeInv, ScreenInv, NEW n \in Files, NEW k \in Keys, NEW create, load_password_file(n, k, create)
    PROVE  OpenInv'
  <1>1. /\ ReadInto(list', Opened(n, k), disk'[n]) => file'.open
        /\ ReadFails(Opened(n, k)) => file'.open
    BY OpenedIs, ReadIs, ReadFailsIs
  <1>2. ConstructFails(n, k, create) => file'.open = file.open
    BY CreationFailureIs DEF TypeInv, TypeOK, FileObject
  <1> QED BY <1>1, <1>2 DEF load_password_file, Loads, LoadFails, OpenInv, ScreenInv

LEMMA ScreenNewPassword ==
    ASSUME TypeInv, ScreenInv, NEW pw \in Passwords, NEW s \in Salts, CreateNewFile(pw, s) \/ ChangeKey(pw, s)
    PROVE  ScreenInv'
  <1>1. UserTurn
    BY DEF CreateNewFile, ChangeKey, Answer
  <1>2. CASE Finish("glue")
    BY <1>1, <1>2, ScreenFinish
  <1>3. CASE ~Finish("glue")
    <2>1. queue' = <<"glue">> /\ dialog' = "none"
      BY <1>1, <1>3, QueueSteps DEF CreateNewFile, ChangeKey, Submit, UserTurn
    <2>2. OpenInv'
      <3>1. CASE ChangeKey(pw, s)
        <4>1. change_password([pw |-> pw, salt |-> s]) /\ file.open
          BY <1>3, <3>1, TypeParts DEF ChangeKey, Answer, GlueInv
        <4>2. file'.open
          <5>1. [pw |-> pw, salt |-> s] \in Keys
            BY DEF Keys
          <5>2. DataStaysOK
            BY <4>1, <5>1, KeyChangeTypes, TypeParts DEF ScreenOK
          <5> QED BY <4>1, <5>2 DEF DataStaysOK
        <4> QED BY <4>2 DEF OpenInv
      <3>2. CASE CreateNewFile(pw, s)
        <4>1. glue.name \in Files
          BY <3>2, TypeParts DEF CreateNewFile, Answer, GlueInv
        <4>2. [pw |-> pw, salt |-> s] \in Keys
          BY DEF Keys
        <4> QED BY <3>2, <4>1, <4>2, LoadOpens DEF CreateNewFile
      <3> QED BY <3>1, <3>2
    <2> QED BY <2>1, <2>2, ScreenCloses
  <1> QED BY <1>2, <1>3

LEMMA ScreenApoptosis == ASSUME TypeInv, ScreenInv, Apoptosis PROVE ScreenInv'
  <1>1. queue \in Queues /\ queue # <<>> /\ dialog = "none" /\ dialog' = "none"
    BY DEF Apoptosis, PromptApoptosis, GlueApoptosis, TypeInv, QueueInv, world
  <1>2. CASE PromptApoptosis
    <2>1. queue' = <<"glue">>
      BY <1>1, <1>2, QueueSteps DEF PromptApoptosis, Queues
    <2>2. OpenInv'
      <3>1. CASE glue.key = NoKey
        BY <1>2, <3>1 DEF PromptApoptosis, data, ScreenInv, OpenInv
      <3>2. CASE glue.key # NoKey
        <4>1. glue.name \in Files /\ glue.key \in Keys
          BY <3>2, TypeParts DEF GlueInv, ScreenOK, Glue
        <4> QED BY <1>2, <3>2, <4>1, LoadOpens DEF PromptApoptosis
      <3> QED BY <3>1, <3>2
    <2> QED BY <1>1, <2>1, <2>2, ScreenCloses
  <1>3. CASE GlueApoptosis
    <2>1. queue' = <<>>
      BY <1>1, <1>3, QueueSteps DEF GlueApoptosis, Queues
    <2> QED BY <1>1, <1>3, <2>1, QueueSteps DEF GlueApoptosis, ScreenInv, BoxInv, AgreedInv, OpenInv,
            AfterQuestion, data
  <1> QED BY <1>2, <1>3 DEF Apoptosis

LEMMA ScreenOthers ==
    ASSUME TypeInv, ScreenInv,
           \/ LockScreen
           \/ \E n \in Files, pw \in Passwords, s \in Salts : OtherProcess(n, pw, s)
           \/ UNCHANGED vars
    PROVE  ScreenInv'
  <1>1. UNCHANGED <<list, changed, glue, dialog, errormsg, queue>>
    BY DEF LockScreen, Lock, Crash, Unlock, UnlockRefused, UnlockFails, LockQuit, OtherProcess, vars, data
  <1>2. file'.open = file.open
    BY DEF LockScreen, Lock, Crash, Unlock, UnlockRefused, UnlockFails, LockQuit, OtherProcess, vars, data,
       TypeInv, TypeOK, FileObject
  <1> QED BY <1>1, <1>2, ScreenStays

LEMMA ScreenDialog == ASSUME TypeInv, ScreenInv, Dialog PROVE ScreenInv'
  <1>1. CASE StartCrashes
    BY <1>1, ScreenStays DEF StartCrashes, Crash, data
  <1> QED BY <1>1, ScreenConfirmSave, ScreenAsks, ScreenNewPassword DEF Dialog

LEMMA ScreenNext == TypeInv /\ ScreenInv /\ [Next]_vars => ScreenInv'
  BY ScreenWindow, ScreenDialog, ScreenApoptosis, ScreenOthers DEF Next, Terminated

\* The assertions errormsgdialog == nullptr hold whatever fails, in whatever
\* order the user opens and leaves dialogs.
THEOREM ErrorBoxCorrect == Spec => []ErrorBoxAlone
  <1>1. TypeInv /\ ScreenInv => ErrorBoxAlone
    BY DEF TypeInv, QueueInv, Queues, ScreenInv, BoxInv, ErrorBoxAlone
  <1> QED BY <1>1, TypeInit, TypeNext, ScreenInit, ScreenNext, PTL DEF Spec

LEMMA LosesStep ==
    ASSUME TypeInv, ScreenInv, Next, ~UNCHANGED vars, changed
    PROVE  /\ (list' # list /\ ~HotKey) => glue.ignore_unsaved_file
           /\ running' = "quit" => dialog = "confirmquit"
  <1>1. CASE Window
    <2>1. CASE ChangeList
      BY <2>1 DEF ChangeList, AddRecord, EditRecord, DeleteRecord, HotKey, UserTurn, world
    <2>2. CASE Save \/ Quit \/ CloseError
      BY <2>2 DEF Save, Quit, CloseError, HotKey, UserTurn, world, SaveCrashes, Crash, data
    <2>3. CASE ConfirmQuit
      BY <2>3, SaveKeeps DEF ConfirmQuit, Answer, SaveCrashes, Crash, data
    <2> QED BY <1>1, <2>1, <2>2, <2>3 DEF Window
  <1>2. CASE Dialog
    <2>1. running' # "quit"
      BY <1>2 DEF Dialog, Start, StartCrashes, ConfirmSaveYes, ConfirmSaveNo, ConfirmSaveCancel, ChooseFile,
         CancelFile, CreateFileAnswer, PromptPassword, OldPassword, CancelPassword, RetryPassword,
         ClosePromptError, CreateNewFile, ChangeKey, CancelNewPassword, NewPasswordFails, CloseGenError,
         CancelOldPassword, NonMatch, Answer, HotKey, UserTurn, world, SaveCrashes, Crash, Show, Finish
    <2>2. CASE list' # list
      <3>1. dialog = "newpassword"
        BY <1>2, <2>2, SaveKeeps DEF Dialog, Start, StartCrashes, ConfirmSaveYes, ConfirmSaveNo,
           ConfirmSaveCancel, ChooseFile, CancelFile, CreateFileAnswer, PromptPassword, OldPassword,
           CancelPassword, RetryPassword, ClosePromptError, CreateNewFile, ChangeKey, CancelNewPassword,
           NewPasswordFails, CloseGenError, CancelOldPassword, NonMatch, Answer, SaveCrashes, Crash, Show,
           Finish, data
      <3> QED BY <2>1, <3>1 DEF ScreenInv, AgreedInv, AfterQuestion
    <2> QED BY <2>1, <2>2
  <1>3. CASE Apoptosis
    <2>1. queue \in Queues
      BY DEF TypeInv, QueueInv
    <2>2. running' # "quit" /\ (list' # list => queue = <<"prompt">>)
      BY <1>3, <2>1, QueueSteps DEF Apoptosis, PromptApoptosis, GlueApoptosis, world, data, Queues
    <2> QED BY <2>2 DEF ScreenInv, AgreedInv
  <1>4. CASE LockScreen
    BY <1>4 DEF LockScreen, Lock, Crash, Unlock, UnlockRefused, UnlockFails, LockQuit, vars, data
  <1>5. CASE \E n \in Files, pw \in Passwords, s \in Salts : OtherProcess(n, pw, s)
    BY <1>5 DEF OtherProcess, world
  <1> QED BY <1>1, <1>2, <1>3, <1>4, <1>5 DEF Next, Terminated

\* Unsaved changes are given up in two ways only: after the question whether to
\* save, and from the confirmation at the end of the program.
THEOREM LosesCorrect == Spec => LosesOnlyAgreed
  <1>1. TypeInv /\ ScreenInv /\ [Next]_vars
            => [changed => /\ (list' # list /\ ~HotKey) => glue.ignore_unsaved_file
                           /\ running' = "quit" => dialog = "confirmquit"]_vars
    BY LosesStep
  <1> QED BY <1>1, TypeInit, TypeNext, ScreenInit, ScreenNext, PTL DEF Spec, LosesOnlyAgreed

-----------------------------------------------------------------------------
(***************************************************************************)
(* The keys agree, and a save keeps what is owed.                          *)
(***************************************************************************)
\* What a step does to the data.
LEMMA DataSteps ==
    ASSUME TypeInv, [Next]_vars
    PROVE  \/ UNCHANGED data
           \/ ChangeList \/ SaveSucceeds \/ SaveFails
           \/ \E n \in Files, k \in Keys, create \in BOOLEAN : load_password_file(n, k, create)
           \/ file.open /\ \E k \in Keys : change_password(k)
           \/ \E n \in Files, pw \in Passwords, s \in Salts : OtherProcess(n, pw, s)
  <1>1. CASE Window
    BY <1>1 DEF Window, Save, Quit, ConfirmQuit, CloseError, SaveCrashes, Crash, data
  <1>2. CASE Dialog
    <2>1. ASSUME NEW pw \in Passwords, NEW s \in Salts
          PROVE  [pw |-> pw, salt |-> s] \in Keys
      BY DEF Keys
    <2>2. ASSUME NEW pw \in Passwords, NEW s \in Salts, CreateNewFile(pw, s)
          PROVE  \E n \in Files, k \in Keys, create \in BOOLEAN : load_password_file(n, k, create)
      <3>1. glue.name \in Files
        BY <2>2, TypeParts DEF CreateNewFile, Answer, GlueInv
      <3> QED BY <2>1, <2>2, <3>1 DEF CreateNewFile
    <2>3. ASSUME NEW pw \in Passwords, NEW s \in Salts, ChangeKey(pw, s)
          PROVE  UNCHANGED data \/ (file.open /\ \E k \in Keys : change_password(k))
      <3>1. file.open
        BY <2>3, TypeParts DEF ChangeKey, Answer, GlueInv
      <3> QED BY <2>1, <2>3, <3>1 DEF ChangeKey, Finish
    <2>4. \/ UNCHANGED data
          \/ SaveSucceeds \/ SaveFails
          \/ \E pw \in Passwords, s \in Salts : CreateNewFile(pw, s) \/ ChangeKey(pw, s)
      BY <1>2 DEF Dialog, Start, StartCrashes, ConfirmSaveYes, ConfirmSaveNo, ConfirmSaveCancel, ChooseFile,
         CancelFile, CreateFileAnswer, PromptPassword, OldPassword, CancelPassword, RetryPassword,
         ClosePromptError, CancelNewPassword, NewPasswordFails, CloseGenError, CancelOldPassword, NonMatch,
         SaveCrashes, Crash, Show, Finish
    <2> QED BY <2>2, <2>3, <2>4
  <1>3. CASE Apoptosis
    <2>1. glue.key # NoKey => glue.key \in Keys /\ glue.name \in Files
      BY TypeParts DEF ScreenOK, Glue, GlueInv
    <2> QED BY <1>3, <2>1 DEF Apoptosis, PromptApoptosis, GlueApoptosis, data
  <1>4. CASE LockScreen \/ UNCHANGED vars
    BY <1>4 DEF LockScreen, Lock, Crash, Unlock, UnlockRefused, UnlockFails, LockQuit, vars, data
  <1> QED BY <1>1, <1>2, <1>3, <1>4 DEF Next, Terminated

KeysAgree == clean /\ file.open /\ file.inner /\ file.fresh =>
                /\ factory = file.key
                /\ Under(list, factory)
                /\ disk[file.name].state = "good" =>
                      /\ disk[file.name].key = factory
                      /\ ~changed /\ ~file.bad => list = disk[file.name].items

\* What the user stored is on disk until the next save, and in the list, unless
\* its reading was cut short.
OwedInv == clean /\ file.open => /\ ~file.bad => owed[file.name] \subseteq Recs(list)
                                 /\ owed[file.name] \subseteq Recs(disk[file.name].items)

SyncInv == KeysAgree /\ OwedInv

LEMMA GoodRecords ==
    ASSUME NEW k, NEW R
    PROVE  Recs(Good(k, R).items) = R /\ Good(k, R).key = k /\ Under(Good(k, R).items, k)
  <1>1. Good(k, R).items = [rec : R, key : {k}]
    BY DEF Good
  <1>2. ASSUME NEW r \in R PROVE r \in Recs(Good(k, R).items)
    <2>1. [rec |-> r, key |-> k] \in Good(k, R).items
      BY <1>1
    <2> QED BY <2>1 DEF Recs
  <1>3. ASSUME NEW r \in Recs(Good(k, R).items) PROVE r \in R
    BY <1>1, <1>3 DEF Recs
  <1>4. Recs(Good(k, R).items) = R
    BY <1>2, <1>3
  <1> QED BY <1>1, <1>4 DEF Good, Under

LEMMA SyncInit == Init => SyncInv
  BY DEF Init, NoFile, SyncInv, KeysAgree, OwedInv

LEMMA SyncStays == ASSUME SyncInv, UNCHANGED data PROVE SyncInv'
  BY DEF SyncInv, KeysAgree, OwedInv, data

LEMMA SyncChangeList == ASSUME TypeInv, SyncInv, ChangeList PROVE SyncInv'
  <1>1. UNCHANGED <<disk, file, factory, clean>>
    BY DEF ChangeList, AddRecord, EditRecord, DeleteRecord
  <1>2. changed' = TRUE /\ \A k : Under(list, k) /\ k = factory => Under(list', k)
    BY DEF ChangeList, AddRecord, EditRecord, DeleteRecord, Under
  <1>3. KeysAgree'
    BY <1>1, <1>2 DEF SyncInv, KeysAgree
  <1>4. ASSUME file.open, owed[file.name] \subseteq Recs(list) PROVE owed'[file.name] \subseteq Recs(list')
    <2>1. owed \in [Files -> SUBSET Records] /\ file.name \in Files
      BY <1>4 DEF TypeInv, TypeOK, FileInv
    <2>2. ASSUME NEW r \in Records, AddRecord(r) PROVE owed'[file.name] \subseteq Recs(list')
      BY <1>4, <2>2 DEF AddRecord, Recs
    <2>3. ASSUME NEW i \in list, NEW L, list \ {i} \subseteq L, list' = L,
                 owed' = [owed EXCEPT ![file.name] = @ \ {i.rec}]
          PROVE  owed'[file.name] \subseteq Recs(list')
      BY <1>4, <2>1, <2>3 DEF Recs
    <2> QED BY <2>2, <2>3 DEF ChangeList, EditRecord, DeleteRecord
  <1>5. file.open => owed'[file.name] \subseteq owed[file.name]
    BY DEF ChangeList, AddRecord, EditRecord, DeleteRecord, TypeInv, TypeOK, FileInv
  <1>6. OwedInv'
    BY <1>1, <1>4, <1>5 DEF SyncInv, OwedInv
  <1> QED BY <1>3, <1>6 DEF SyncInv

LEMMA SyncSaves == ASSUME TypeInv, SyncInv, SaveSucceeds \/ SaveFails PROVE SyncInv'
  <1>1. file.open => file.name \in Files
    BY DEF TypeInv, FileInv
  <1>2. /\ disk \in [Files -> FileContent] /\ owed \in [Files -> SUBSET Records] /\ file \in FileObject
        /\ changed \in BOOLEAN /\ list \subseteq Items /\ DataOK
    BY TypeParts DEF TypeInv, TypeOK
  <1>3. list' = list /\ clean' = clean /\ factory' = factory
    BY DEF SaveSucceeds, SaveFails
  <1>4. CASE UNCHANGED <<disk, file, owed>>
    <2>1. changed' = changed \/ list = disk[file.name].items \/ ~file.open
      <3>1. CASE SaveFails
        BY <3>1 DEF SaveFails
      <3>2. CASE UNCHANGED <<disk, changed, owed>>
        BY <3>2
      <3>3. CASE file.open /\ disk' = [disk EXCEPT ![file.name] = Saved(@, list)]
        <4>1. Saved(disk[file.name], list).items = list
          BY <1>1, <1>2, <3>3, DiskReadable, SavedReadable
        <4> QED BY <1>1, <1>2, <1>4, <3>3, <4>1
      <3> QED BY <3>1, <3>2, <3>3 DEF SaveSucceeds
    <2> QED BY <1>3, <1>4, <2>1 DEF SyncInv, KeysAgree, OwedInv
  <1>5. CASE /\ SaveFails /\ file.open /\ UNCHANGED <<disk, owed>>
             /\ file' = Spoilt(file)
    BY <1>2, <1>3, <1>5, SpoiltIs DEF SyncInv, KeysAgree, OwedInv
  <1>6. CASE /\ SaveSucceeds /\ file.open /\ ~file.bad /\ file' = file /\ changed' = FALSE
             /\ disk' = [disk EXCEPT ![file.name] = Saved(disk[file.name], list)]
             /\ owed' = [owed EXCEPT ![file.name] = owed[file.name] \cup Recs(list)]
    <2>1. /\ disk'[file.name] = Saved(disk[file.name], list)
          /\ owed'[file.name] = owed[file.name] \cup Recs(list)
      BY <1>1, <1>2, <1>6
    <2>2. /\ Saved(disk[file.name], list).items = list
          /\ Saved(disk[file.name], list).key = disk[file.name].key
          /\ Saved(disk[file.name], list).state = disk[file.name].state
      BY <1>1, <1>2, <1>6, DiskReadable, SavedReadable
    <2> QED BY <1>3, <1>6, <2>1, <2>2 DEF SyncInv, KeysAgree, OwedInv
  <1>7. ASSUME SaveFails, file.open, file.fresh, NEW L \in SUBSET list, NEW fresh \in BOOLEAN, NEW bad \in BOOLEAN,
               disk' = [disk EXCEPT ![file.name] = Saved(disk[file.name], L)],
               file' = Stopped(file, fresh, bad),
               owed' = [owed EXCEPT ![file.name] = {}]
        PROVE  SyncInv'
    <2>1. disk'[file.name] = Saved(disk[file.name], L) /\ owed'[file.name] = {}
      BY <1>1, <1>2, <1>7
    <2>2. /\ Saved(disk[file.name], L).key = disk[file.name].key
          /\ Saved(disk[file.name], L).state = disk[file.name].state
      BY <1>1, <1>2, <1>7, DiskReadable, SavedReadable
    <2>3. /\ file'.open = file.open /\ file'.inner = file.inner /\ file'.key = file.key
          /\ file'.name = file.name
      BY <1>2, <1>7, StoppedIs
    <2>4. changed' = changed /\ changed /\ file.fresh
      BY <1>7 DEF SaveFails
    <2> QED BY <1>3, <1>7, <2>1, <2>2, <2>3, <2>4 DEF SyncInv, KeysAgree, OwedInv
  <1> QED BY <1>2, <1>4, <1>5, <1>6, <1>7, SaveIs

LEMMA SyncLoads ==
    ASSUME TypeInv, NEW n \in Files, NEW k \in Keys, NEW create, load_password_file(n, k, create)
    PROVE  SyncInv'
  <1>1. CASE LoadFails(n, k, create)
    BY <1>1 DEF LoadFails, SyncInv, KeysAgree, OwedInv
  <1>2. CASE Loads(n, k, create)
    <2>1. disk'[n].key = k
      BY <1>2 DEF Loads, Constructs, Good, TypeInv, TypeOK
    <2>2. /\ Opened(n, k) \in FileObject /\ Opened(n, k).name = n /\ Opened(n, k).key = k
          /\ ~Opened(n, k).bad
      BY OpenedIs
    <2>3. /\ file'.name = n /\ file'.key = k /\ Under(list', k)
          /\ ~file'.bad => list' = disk'[n].items
      BY <1>2, <2>2, ReadIs DEF Loads
    <2>4. owed'[n] = Recs(disk'[n].items)
      BY <1>2 DEF Loads, TypeInv, TypeOK
    <2> QED BY <1>2, <2>1, <2>3, <2>4 DEF Loads, load_password_file, SyncInv, KeysAgree, OwedInv
  <1> QED BY <1>1, <1>2 DEF load_password_file

LEMMA SyncKeyChange ==
    ASSUME TypeInv, SyncInv, file.open, NEW k \in Keys, change_password(k)
    PROVE  SyncInv'
  <1>1. CASE clean' = FALSE
    BY <1>1 DEF SyncInv, KeysAgree, OwedInv
  <1>2. CASE KeyChanged(k) /\ ReadInto(list', Renewed(file, k), disk'[file.name]) /\ UNCHANGED clean
    <2>1. DataOK /\ file \in FileObject
      BY TypeParts DEF DataOK
    <2>2. /\ disk'[file.name].key = k
          /\ owed'[file.name] = owed[file.name] \cap Recs(disk'[file.name].items)
      BY <1>2, <2>1, KeyChangedIs
    <2>3. /\ Renewed(file, k) \in FileObject /\ Renewed(file, k).name = file.name
          /\ Renewed(file, k).key = k /\ ~Renewed(file, k).bad
      BY <2>1, RenewedIs
    <2>4. /\ file'.name = file.name /\ file'.key = k /\ Under(list', k)
          /\ ~file'.bad => list' = disk'[file.name].items
      BY <1>2, <2>3, ReadIs
    <2> QED BY <1>2, <2>2, <2>4 DEF change_password, SyncInv, KeysAgree, OwedInv
  <1> QED BY <1>1, <1>2 DEF change_password

LEMMA SyncOthers ==
    ASSUME TypeInv, SyncInv, NEW n \in Files, NEW pw \in Passwords, NEW s \in Salts, OtherProcess(n, pw, s)
    PROVE  SyncInv'
  <1>1. file' = [file EXCEPT !.fresh = file.fresh /\ n # file.name]
    BY DEF OtherProcess
  <1>2. file'.open = file.open /\ file'.inner = file.inner /\ file'.key = file.key /\ file'.name = file.name
        /\ file'.bad = file.bad /\ (file'.fresh => file.fresh /\ n # file.name)
    BY <1>1 DEF TypeInv, TypeOK, FileObject
  <1>3. KeysAgree'
    BY <1>2 DEF OtherProcess, TypeInv, TypeOK, SyncInv, KeysAgree
  <1>4. \A m \in Files : Recs(disk'[m].items) = Recs(disk[m].items)
    BY GoodRecords DEF OtherProcess, TypeInv, TypeOK
  <1>5. OwedInv'
    BY <1>2, <1>4 DEF OtherProcess, TypeInv, FileInv, SyncInv, OwedInv
  <1> QED BY <1>3, <1>5 DEF SyncInv

LEMMA SyncNext == TypeInv /\ SyncInv /\ [Next]_vars => SyncInv'
  BY DataSteps, SyncStays, SyncChangeList, SyncSaves, SyncLoads, SyncKeyChange, SyncOthers

\* The password that unlocks is the one of the factory.
LEMMA PasswordMatches ==
    ASSUME TypeInv, file.open, disk[file.name].state = "good", disk[file.name].key = factory,
           NEW pw \in Passwords
    PROVE  MatchPasswordWithCurrent(pw) <=> pw = factory.pw
  <1>1. factory \in Keys
    BY DEF TypeInv, FileInv
  <1> QED BY <1>1 DEF Keys, MatchPasswordWithCurrent, Candidate

\* The window, its File, the list and the disk agree on the key, whatever the
\* user does and however often the key is changed.
THEOREM InSyncCorrect == Spec => []InSync
  <1>1. TypeInv /\ SyncInv => InSync
    BY PasswordMatches DEF SyncInv, KeysAgree, InSync
  <1> QED BY <1>1, TypeInit, TypeNext, SyncInit, SyncNext, PTL DEF Spec

LEMMA StaysOpen == ASSUME TypeInv, [Next]_vars, file.open PROVE file'.open
  <1>1. DataOK /\ errormsg \in BOOLEAN
    BY TypeParts DEF ScreenOK
  <1>2. ChangeList => file'.open
    BY DEF ChangeList, AddRecord, EditRecord, DeleteRecord
  <1>3. \A n, pw, s : OtherProcess(n, pw, s) => file'.open
    BY <1>1 DEF OtherProcess, DataOK, FileObject
  <1> QED BY <1>1, <1>2, <1>3, DataSteps, DataStays, SaveTypes, LoadTypes, KeyChangeTypes DEF DataStaysOK

\* A save that works keeps every record the user is owed, in lists of every
\* length.
THEOREM SaveKeepsCorrect == Spec => SaveKeepsCommitted
  <1>1. TypeInv /\ ScreenInv /\ SyncInv' /\ [Next]_vars
            => [changed /\ ~changed' /\ clean /\ clean' =>
                    owed'[file'.name] \subseteq Recs(disk'[file'.name].items)]_vars
    BY StaysOpen DEF ScreenInv, OpenInv, SyncInv, OwedInv
  <1> QED BY <1>1, TypeInit, TypeNext, ScreenInit, ScreenNext, SyncInit, SyncNext, PTL
          DEF Spec, SaveKeepsCommitted
====
