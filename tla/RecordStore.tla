---------------------------- MODULE RecordStore ----------------------------
(***************************************************************************)
(* YAPET::File as it is meant: each member function is a single step, and  *)
(* what a step does not finish is confined to the file it works on.  Once  *)
(* a key change has touched the file, the backup is the file as it was.    *)
(* It is needed: a key change that succeeds may have lost records.         *)
(***************************************************************************)
EXTENDS FileOutcomes

CONSTANTS
    Keys,       \* crypto factories
    Lists       \* the lists of encrypted records that are saved

VARIABLES
    pet,        \* the password file
    bak,        \* its backup
    file        \* the File object

vars == <<pet, bak, file>>

NoFile == [open |-> FALSE, key |-> NoKey, inner |-> FALSE, fresh |-> FALSE,
           bad |-> FALSE]

Init == pet = Unusable("absent") /\ bak = Unusable("absent") /\ file = NoFile

\* The constructor, on a new and on an existing file.
Create(k) == /\ ~file.open
             /\ pet' = Good(k, {}) /\ file' = Renewed(file, k)
             /\ UNCHANGED bak

CreateFails(k) == /\ ~file.open
                  /\ pet' \in CreationFailures(k)
                  /\ UNCHANGED <<bak, file>>

Open(k) == /\ ~file.open /\ pet.state = "good"
           /\ file' = Renewed(file, k)
           /\ UNCHANGED <<pet, bak>>

Save(list) == /\ file.open /\ Writes(pet, file)
              /\ pet' = Saved(pet, list)
              /\ UNCHANGED <<bak, file>>

\* A call that is killed leaves the file the way one that fails does, but no
\* object.
Leaves(o) == pet' = o.pet /\ file' \in {o.file, NoFile}

SaveFails(list) == /\ file.open /\ Writes(pet, file)
                   /\ \E o \in SaveAborts(pet, file, list) : Leaves(o)
                   /\ UNCHANGED bak

SetNewKey(k) == /\ file.open /\ Accepts(pet, file)
                /\ pet' \in Rekeyings(pet, file.key, k) /\ bak' = pet
                /\ file' = Renewed(file, k)

\* _yapetFile is reset, and the file not yet renamed.
SetNewKeyFails == /\ file.open /\ file.inner /\ file.fresh
                  /\ file' = [file EXCEPT !.inner = FALSE, !.bad = FALSE]
                  /\ UNCHANGED <<pet, bak>>

SetNewKeyAborts(k) == /\ file.open /\ file.inner /\ file.fresh
                      /\ \E o \in KeyAborts(pet, file, k) : Leaves(o)
                      /\ bak' = pet

\* A call that reads the header or the records leaves the stream in error.
Spoil == /\ file.open /\ file.inner
         /\ file' = Spoilt(file)
         /\ UNCHANGED <<pet, bak>>

\* The object is destroyed, its process too; any other call that fails leaves
\* everything as it is.
Close == file' = NoFile /\ UNCHANGED <<pet, bak>>

Next == \/ \E k \in Keys : Create(k) \/ CreateFails(k) \/ Open(k) \/ SetNewKey(k) \/ SetNewKeyAborts(k)
        \/ \E list \in Lists : Save(list) \/ SaveFails(list)
        \/ SetNewKeyFails \/ Spoil \/ Close

Spec == Init /\ [][Next]_vars
=============================================================================
