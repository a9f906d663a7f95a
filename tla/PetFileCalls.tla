---------------------------- MODULE PetFileCalls ----------------------------
(***************************************************************************)
(* PetFile with a process that has the file to itself implements           *)
(* RecordStore.  A history variable remembers what the running call found, *)
(* so that its system calls are steps of no effect, up to the last one.    *)
(***************************************************************************)
EXTENDS PetFileInv

VARIABLE before     \* history: file, backup and object when the call began

Owner == CHOOSE p \in Procs : TRUE

Running == call[Owner].op # "none"

\* What the caller can tell of a file, and of the object.
Whole(n) == disk[n].exists /\ disk[n].parts = 3 /\ ~disk[n].junk

Seen(n) == [state |-> IF ~disk[n].exists THEN "absent" ELSE IF Whole(n) THEN "good" ELSE "broken",
            key   |-> IF Whole(n) THEN disk[n].key ELSE NoKey,
            items |-> IF Whole(n) THEN disk[n].items ELSE {}]

SeenFile == LET open == call[Owner].pc # "closed" IN
            [open  |-> open,
             key   |-> IF open THEN obj[Owner].key ELSE NoKey,
             inner |-> obj[Owner].raw # "none",
             bad   |-> obj[Owner].raw \in {"bad", "closed"},
             fresh |-> open /\ NotModified(Owner)]

Snapshot == [pet |-> Seen("pet"), bak |-> Seen("bak"), file |-> SeenFile]

NoCall == <<>>

callVars == <<vars, before>>

\* The first system call of a member function takes the picture.
CallsInit == Init /\ before = NoCall
CallsNext == Next /\ before' = IF ~Running' THEN NoCall
                               ELSE IF Running THEN before ELSE Snapshot
CallsSpec == CallsInit /\ [][CallsNext]_callVars

\* What the caller sees changes when the call ends.
CallerPet  == IF Running THEN before.pet  ELSE Seen("pet")
CallerBak  == IF Running THEN before.bak  ELSE Seen("bak")
CallerFile == IF Running THEN before.file ELSE SeenFile

Abstract == INSTANCE RecordStore WITH
    pet <- CallerPet, bak <- CallerBak, file <- CallerFile

-----------------------------------------------------------------------------
(***************************************************************************)
(* What a running call has made of what it found.                          *)
(***************************************************************************)
\* An object that passed notModifiedOrThrow.
Checked(k) == [open : {TRUE}, key : {k}, inner : {TRUE}, fresh : {TRUE}, bad : BOOLEAN]

ConstructInv ==
    LET c == call[Owner] o == obj[Owner] IN
    c.op \in {"create", "open"} =>
        /\ before.file = Abstract!NoFile /\ before.bak = Seen("bak")
        /\ o.raw # "none"
        /\ c.op = "create" /\ c.pc = "stamp" => disk["pet"].key = o.key
        /\ c.op = "open" => before.pet = Seen("pet") /\ disk["pet"].exists
        /\ c.op = "open" /\ c.pc = "stamp" => disk["pet"].parts = 3

SaveInv ==
    LET c == call[Owner] o == obj[Owner] IN
    c.op = "save" =>
        /\ before.file \in Checked(o.key)
        /\ before.file.bad <=> c.pc = "trunc" /\ o.raw # "open"
        /\ before.bak = Seen("bak")
        /\ o.raw # "none" /\ c.batch \in Lists
        /\ IF c.pc = "trunc" THEN before.pet = Seen("pet") /\ NotModified(Owner)
           ELSE before.pet = [state |-> "good", key |-> disk["pet"].key,
                              items |-> before.pet.items]

\* The new key is not yet that of the object when the backup is opened.
NewKeyInv ==
    LET c == call[Owner] o == obj[Owner] old == before.pet IN
    c.op = "newkey" =>
        /\ before.file \in Checked(IF c.pc \in {"rename", "openbak"} THEN o.key ELSE c.other)
        /\ (o.raw = "none") <=> (c.pc \in {"rename", "openbak", "create"})
        /\ IF c.pc = "rename"
           THEN old = Seen("pet") /\ before.bak = Seen("bak") /\ NotModified(Owner)
           ELSE old = Seen("bak") /\ old.state # "absent"
        /\ c.pc \notin {"rename", "openbak"} => Seen("pet") \in Abstract!Begun(old, c.other, o.key)
        /\ c.pc \in {"trunc", "reopen", "write", "stamp"} =>
              /\ old.state = "good"
              /\ c.batch \subseteq {Reencrypted(i, c.other, o.key) : i \in old.items}

CallInv == /\ \A n \in Names : ~disk[n].junk
           /\ call[Owner].pc = "closed" => obj[Owner].raw = "none"
           /\ ConstructInv /\ SaveInv /\ NewKeyInv

-----------------------------------------------------------------------------
\* Each member function of File, the constructors included, is all or one of a
\* few ways of nothing to its caller, wherever it fails or the process dies: a
\* failed save leaves records of the list and none of the file before, a key
\* change none that is not of the file before, and once a key change has touched
\* the file its backup is the file as it was (file.cc:87 to 180).  A save goes
\* through only on a stream whose last read was not cut short, whereas a key
\* change that goes through may have lost records: RecordStore says which.
ImplementsRecordStore == Abstract!Spec
=============================================================================
