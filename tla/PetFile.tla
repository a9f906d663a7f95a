------------------------------ MODULE PetFile ------------------------------
(***************************************************************************)
(* YAPET::File (libs/crypt/file.cc) together with the layers below it,     *)
(* Yapet10File/Yapet20File, YapetFile and RawFile (libs/file), on a file   *)
(* system that several YAPET processes share.                              *)
(*                                                                         *)
(* One action is one system call, or a run of calls between which no other *)
(* process can make a difference.  Every call may fail, a process may die  *)
(* between any two of them, and other processes run in between.            *)
(*                                                                         *)
(* The data is abstracted: a password record is a model value, an          *)
(* encrypted record is the pair of the record and the key it is encrypted  *)
(* under, a key stands for a crypto factory (password and salt), and the   *)
(* record area of a file is a set, since nothing depends on the order.     *)
(***************************************************************************)
EXTENDS Naturals, FiniteSets

CONSTANTS
    Procs,      \* YAPET processes that use the same file
    Records,    \* password records in the clear
    Keys,       \* crypto factories
    Lists,      \* the lists of encrypted records callers hand to save()
    MaxTime,    \* bound on the clock, in seconds
    NoKey       \* no key: what a record that was decrypted with a wrong key and
                \* encrypted again is under

Items == [rec : Records, key : Keys \cup {NoKey}]

ASSUME ListsAssumption   == Lists \subseteq SUBSET [rec : Records, key : Keys]
ASSUME NoKeyAssumption   == NoKey \notin Keys
ASSUME KeysAssumption    == Keys # {}
ASSUME MaxTimeAssumption == MaxTime \in Nat \ {0}

\* The content of a key field that means nothing.
AnyKey == CHOOSE k \in Keys : TRUE

VARIABLES
    disk,       \* what the names "pet" (the file) and "bak" (file + ".bak") denote
    now,        \* the clock, in the seconds of st_mtime
    obj,        \* per process, its YAPET::File
    call,       \* per process, the File member function that is running
    promised,   \* history: the records the constructor found or save() stored last
    foreign     \* history: last second another process changed "pet" since the stamp

vars == <<disk, now, obj, call, promised, foreign>>

Time == 0..MaxTime

(***************************************************************************)
(* The file system.  parts counts what the front of the file holds:        *)
(* nothing, the identifier, also the unencrypted meta data, also the       *)
(* encrypted header.  key is the key of that header.  junk is true when    *)
(* writers overlapped and the record area may not parse.                   *)
(***************************************************************************)
Names == {"pet", "bak"}

FileContent == [exists : BOOLEAN, parts : 0..3, key : Keys,
                items : SUBSET Items, junk : BOOLEAN, mtime : Time]

Absent   == [exists |-> FALSE, parts |-> 0, key |-> AnyKey, items |-> {},
             junk |-> FALSE, mtime |-> 0]
Empty(k) == [exists |-> TRUE, parts |-> 0, key |-> k, items |-> {},
             junk |-> FALSE, mtime |-> now]

\* A stream refers to the file a name denotes, to a file that lost its name
\* when a rename replaced it, or to nothing.
Streams == Names \cup {"gone", "none"}

\* rename(pet, bak) carries the open streams along.
FollowRename(s) == CASE s = "pet" -> "bak"
                     [] s = "bak" -> "gone"
                     [] OTHER     -> s

\* What readPasswordRecords may deliver from behind a stream: RawFile::read
\* takes a length it cannot read for the end of the file, whatever the reason,
\* and the records from there on are missing without a word.
ReadsOf(s) ==
    CASE s = "gone"   -> SUBSET Items
      [] s = "none"   -> {}
      [] s \in Names  -> SUBSET disk[s].items

ReadsAll(s, items) == s \in Names /\ items = disk[s].items

\* The record area ends where it likes.
EndsAnywhere(s) == s = "gone" \/ (s \in Names /\ disk[s].junk)

HasHeader(s) == s = "gone" \/ (s \in Names /\ disk[s].parts = 3)

Recs(items) == {i.rec : i \in items}

Under(items, k) == \A i \in items : i.key = k

\* The file opens, and File::read succeeds, with the right password.
Loadable(n) == /\ disk[n].exists
               /\ disk[n].parts = 3
               /\ ~disk[n].junk
               /\ Under(disk[n].items, disk[n].key)

(***************************************************************************)
(* The File object: _yapetFile is null ("none"), its RawFile is closed,    *)
(* open, or open with the error indicator of the FILE set, which fseek     *)
(* does not clear ("bad"); the stream, the factory, the mtime stamp.  res  *)
(* is how the last member function ended; "damaged" is a setNewKey that    *)
(* returned normally without all of the records, which its caller cannot   *)
(* tell from "rekeyed".                                                    *)
(***************************************************************************)
Results == {"none", "created", "opened", "saved", "rekeyed", "damaged", "refused", "failed"}

RawStates == {"none", "closed", "open", "bad"}

FileObject == [raw : RawStates, fd : Streams,
               key : Keys, stamp : Time, res : Results]

NoObject == [raw |-> "none", fd |-> "none", key |-> AnyKey,
             stamp |-> 0, res |-> "none"]

Locations == {"closed", "idle", "validate", "stamp", "ident", "meta", "header",
              "trunc", "reopen", "write", "rename", "openbak", "create", "convert"}

\* other is newCryptoFactory, and the old one once they are swapped; old is
\* the stream of oldFile; batch the records to write and left those not yet
\* written; lost tells that not all of the old records are in batch.
Call == [op : {"none", "create", "open", "save", "newkey"}, pc : Locations,
         other : Keys, old : Streams,
         batch : SUBSET Items, left : SUBSET Items, lost : BOOLEAN]

At(op, pc)  == [op |-> op, pc |-> pc, other |-> AnyKey, old |-> "none",
                batch |-> {}, left |-> {}, lost |-> FALSE]
Closed      == At("none", "closed")
Idle        == At("none", "idle")

TypeOK == /\ disk \in [Names -> FileContent]
          /\ now \in Time
          /\ obj \in [Procs -> FileObject]
          /\ call \in [Procs -> Call]
          /\ promised \subseteq Records
          /\ foreign \in [Procs -> Time]

Init == /\ disk = [n \in Names |-> Absent]
        /\ now = 1
        /\ obj = [p \in Procs |-> NoObject]
        /\ call = [p \in Procs |-> Closed]
        /\ promised = {}
        /\ foreign = [p \in Procs |-> 0]

-----------------------------------------------------------------------------
(***************************************************************************)
(* How a member function goes on or ends.                                  *)
(***************************************************************************)
Goto(p, pc) == call' = [call EXCEPT ![p].pc = pc]

Return(p) == call' = [call EXCEPT ![p] = Idle]

WithStream(o, raw, fd) == [o EXCEPT !.raw = raw, !.fd = fd]
WithResult(o, res)     == [o EXCEPT !.res = res]

\* An exception leaves the constructor: the object never comes to life.
Abandon(p) == /\ obj' = [obj EXCEPT ![p] = NoObject]
              /\ call' = [call EXCEPT ![p] = Closed]

\* An exception leaves another member function, with _yapetFile as it is.
Ended(o, res, raw) ==
    WithResult(WithStream(o, raw, IF raw \in {"open", "bad"} THEN o.fd ELSE "none"), res)

Throw(p, res, raw) == /\ obj' = [obj EXCEPT ![p] = Ended(obj[p], res, raw)]
                      /\ Return(p)

Constructing(p) == call[p].op \in {"create", "open"}

\* Either of them.
Fail(p, raw) == IF Constructing(p) THEN Abandon(p) ELSE Throw(p, "failed", raw)

\* Process p changes what is stored under a name; the stamps the others have
\* of "pet" no longer describe it.
HasStamp(q) == call[q].pc # "closed" /\ ~Constructing(q)

Touch(p, n) ==
    foreign' = IF n # "pet" THEN foreign
               ELSE [q \in Procs |-> IF q # p /\ HasStamp(q) THEN now ELSE foreign[q]]

\* Mutant of NotModified: only a file that went back in time is refused.
NotModifiedIfNewer(p) == disk["pet"].exists /\ disk["pet"].mtime >= obj[p].stamp

\* File::notModifiedOrThrow
NotModified(p) == disk["pet"].exists /\ disk["pet"].mtime = obj[p].stamp

\* The record area no longer holds what p itself put there.
Disturbed(p, s) == disk[s].items # call[p].batch \ call[p].left \/ disk[s].junk

-----------------------------------------------------------------------------
(***************************************************************************)
(* The constructor on an existing file: open, validateExistingFile, stamp. *)
(***************************************************************************)
\* When fopen fails, the permissions are not secure or hasValidFormat is
\* false, nothing has happened.
OpenRaw(p, k) ==
    /\ call[p].pc = "closed"
    /\ disk["pet"].exists /\ disk["pet"].parts > 0
    /\ obj' = [obj EXCEPT ![p] = [raw |-> "open", fd |-> "pet", key |-> k,
                                  stamp |-> 0, res |-> "none"]]
    /\ call' = [call EXCEPT ![p] = At("open", "validate")]
    /\ UNCHANGED <<disk, now, promised, foreign>>

\* The header decrypts.  A wrong key yields valid padding for one password in
\* 256; the control string then mismatches, which is caught and only logged.
HeaderAccepted(p) ==
    /\ call[p].pc = "validate"
    /\ HasHeader(obj[p].fd)
    /\ Goto(p, "stamp")
    /\ UNCHANGED <<disk, now, obj, promised, foreign>>

\* InvalidPasswordError, or the header cannot be read.
HeaderRejected(p) ==
    /\ call[p].pc = "validate"
    /\ Abandon(p)
    /\ UNCHANGED <<disk, now, promised, foreign>>

(***************************************************************************)
(* The constructor on a new file.  fopen("w+"), chown, chmod and the size  *)
(* test follow each other at once and are one step.                        *)
(***************************************************************************)
CreateRaw(p, k) ==
    /\ call[p].pc = "closed"
    /\ disk' = [disk EXCEPT !["pet"] = Empty(k)]
    /\ obj' = [obj EXCEPT ![p] = [raw |-> "open", fd |-> "pet", key |-> k,
                                  stamp |-> 0, res |-> "none"]]
    /\ call' = [call EXCEPT ![p] = At("create", "ident")]
    /\ Touch(p, "pet")
    /\ promised' = {}
    /\ UNCHANGED <<now>>

\* chown or chmod fails when an existing file is already truncated.
CreateRawFails(p, k) ==
    /\ call[p].pc = "closed"
    /\ disk' = [disk EXCEPT !["pet"] = Empty(k)]
    /\ UNCHANGED <<obj, call>>
    /\ Touch(p, "pet")
    /\ promised' = {}
    /\ UNCHANGED <<now>>

(***************************************************************************)
(* initializeEmptyFile, of a created file and of the new file of a key     *)
(* change: identifier, meta data, header.  A part that lands behind a gap  *)
(* left by another process does not make the file valid.                   *)
(***************************************************************************)
InitLocations == {"ident", "meta", "header"}

PartWritten(pc, f, k) ==
    CASE pc = "ident"  -> [f EXCEPT !.parts = IF @ = 0 THEN 1 ELSE @, !.mtime = now]
      [] pc = "meta"   -> [f EXCEPT !.parts = IF @ = 0 THEN 0 ELSE 2, !.mtime = now]
      [] pc = "header" -> [f EXCEPT !.parts = IF @ < 2 THEN @ ELSE 3,
                                    !.key = k, !.mtime = now]

AfterPart(op, pc) == CASE pc = "ident"  -> "meta"
                       [] pc = "meta"   -> "header"
                       [] pc = "header" -> IF op = "create" THEN "stamp" ELSE "convert"

WritePart(p) ==
    LET s == obj[p].fd IN
    /\ call[p].pc \in InitLocations
    /\ disk' = IF s \in Names
               THEN [disk EXCEPT ![s] = PartWritten(call[p].pc, @, obj[p].key)]
               ELSE disk
    /\ Goto(p, AfterPart(call[p].op, call[p].pc))
    /\ Touch(p, s)
    /\ UNCHANGED <<now, obj, promised>>

WritePartFails(p) ==
    /\ call[p].pc \in InitLocations
    /\ Fail(p, "bad")
    /\ UNCHANGED <<disk, now, promised, foreign>>

(***************************************************************************)
(* File::save: the check of the modification time, then                    *)
(* writePasswordRecords.  The window never forces a write.                 *)
(***************************************************************************)
SaveCheck(p, list) ==
    /\ call[p].pc = "idle" /\ obj[p].raw # "none"
    /\ NotModified(p)
    /\ obj' = [obj EXCEPT ![p] = WithResult(@, "none")]
    /\ call' = [call EXCEPT ![p] = [At("save", "trunc") EXCEPT !.batch = list,
                                                               !.left = list]]
    /\ UNCHANGED <<disk, now, promised, foreign>>

\* The RetryableError "File has been externally modified", of save() and of
\* setNewKey(), or the FileError of stat().
CheckRefuses(p) ==
    /\ call[p].pc = "idle" /\ obj[p].raw # "none"
    /\ ~NotModified(p)
    /\ Throw(p, IF disk["pet"].exists THEN "refused" ELSE "failed", obj[p].raw)
    /\ UNCHANGED <<disk, now, promised, foreign>>

\* Mutant of Truncate: the file is reopened for writing without truncating it.
TruncateForgotten(p) ==
    /\ call[p].pc = "trunc"
    /\ obj[p].raw = "open" /\ HasHeader(obj[p].fd)
    /\ disk["pet"].exists
    /\ obj' = [obj EXCEPT ![p] = WithStream(@, "closed", "none")]
    /\ Goto(p, "reopen")
    /\ Touch(p, "pet")
    /\ promised' = IF call[p].op = "save" THEN {} ELSE promised
    /\ UNCHANGED <<disk, now>>

\* readHeader through the stream, close it, truncate the file by its name.
\* The records saved before are gone from here on.
Truncate(p) ==
    /\ call[p].pc = "trunc"
    /\ obj[p].raw = "open" /\ HasHeader(obj[p].fd)
    /\ disk["pet"].exists
    /\ disk' = [disk EXCEPT !["pet"].items = {}, !["pet"].junk = FALSE,
                            !["pet"].mtime = now]
    /\ obj' = [obj EXCEPT ![p] = WithStream(@, "closed", "none")]
    /\ Goto(p, "reopen")
    /\ Touch(p, "pet")
    /\ promised' = IF call[p].op = "save" THEN {} ELSE promised
    /\ UNCHANGED <<now>>

\* readHeader throws: the stream is not open or in error, holds no header, or
\* the read sets its error indicator.
ReadHeaderFails(p) ==
    /\ call[p].pc = "trunc"
    /\ \E raw \in {obj[p].raw} \cup (IF obj[p].raw = "open" THEN {"bad"} ELSE {}) :
          /\ raw = "open" => ~HasHeader(obj[p].fd)
          /\ Fail(p, raw)
    /\ UNCHANGED <<disk, now, promised, foreign>>

\* truncate() fails when the stream is already closed.
TruncateFails(p) ==
    /\ call[p].pc = "trunc"
    /\ obj[p].raw = "open" /\ HasHeader(obj[p].fd)
    /\ Fail(p, "closed")
    /\ UNCHANGED <<disk, now, promised, foreign>>

Reopen(p) ==
    /\ call[p].pc = "reopen"
    /\ disk["pet"].exists
    /\ obj' = [obj EXCEPT ![p] = WithStream(@, "open", "pet")]
    /\ Goto(p, "write")
    /\ UNCHANGED <<disk, now, promised, foreign>>

ReopenFails(p) ==
    /\ call[p].pc = "reopen"
    /\ Fail(p, "closed")
    /\ UNCHANGED <<disk, now, promised, foreign>>

\* One more record reaches the file, whenever stdio hands it over.
WriteRecord(p) ==
    LET s == obj[p].fd IN
    /\ call[p].pc = "write"
    /\ \E i \in call[p].left :
         /\ call' = [call EXCEPT ![p].left = @ \ {i}]
         /\ \/ /\ s \in Names
               /\ \E j \in {FALSE} \cup {Disturbed(p, s)} :
                    disk' = [disk EXCEPT ![s].items = @ \cup {i}, ![s].mtime = now,
                                         ![s].junk = j]
            \/ s \notin Names /\ disk' = disk
    /\ Touch(p, s)
    /\ UNCHANGED <<now, obj, promised>>

\* fwrite, or the final fflush, fails: the records in the buffer are lost.
WriteFails(p) ==
    /\ call[p].pc = "write"
    /\ Fail(p, "bad")
    /\ UNCHANGED <<disk, now, promised, foreign>>

Flushed(p) ==
    /\ call[p].pc = "write" /\ call[p].left = {}
    /\ Goto(p, "stamp")
    /\ UNCHANGED <<disk, now, obj, promised, foreign>>

(***************************************************************************)
(* The last statement of the constructor, of save and of setNewKey: take   *)
(* the modification time of whatever the name denotes now.                 *)
(***************************************************************************)
ResultOf(c) == CASE c.op = "create" -> "created"
                 [] c.op = "open"   -> "opened"
                 [] c.op = "save"   -> "saved"
                 [] OTHER           -> IF c.lost THEN "damaged" ELSE "rekeyed"

\* save() tells its caller the list is stored, which it is if the caller
\* encrypted it under the key of the file.
Promise(p) ==
    LET pet == disk["pet"] IN
    CASE call[p].op = "save" -> IF Under(call[p].batch, pet.key)
                                THEN Recs(call[p].batch) ELSE {}
      [] call[p].op = "open" -> IF Loadable("pet") THEN Recs(pet.items) ELSE {}
      [] OTHER               -> promised

\* Mutant of Stamp: save() and setNewKey() keep the stamp of the constructor.
StampOnlyInConstructor(p) ==
    /\ call[p].pc = "stamp"
    /\ disk["pet"].exists
    /\ obj' = [obj EXCEPT ![p] = WithResult(
                    [obj[p] EXCEPT !.stamp = IF Constructing(p) THEN disk["pet"].mtime
                                             ELSE obj[p].stamp],
                    ResultOf(call[p]))]
    /\ Return(p)
    /\ promised' = Promise(p)
    /\ foreign' = [foreign EXCEPT ![p] = 0]
    /\ UNCHANGED <<disk, now>>

Stamp(p) ==
    /\ call[p].pc = "stamp"
    /\ disk["pet"].exists
    /\ obj' = [obj EXCEPT ![p] = WithResult([obj[p] EXCEPT !.stamp = disk["pet"].mtime],
                                            ResultOf(call[p]))]
    /\ Return(p)
    /\ promised' = Promise(p)
    /\ foreign' = [foreign EXCEPT ![p] = 0]
    /\ UNCHANGED <<disk, now>>

StampFails(p) ==
    /\ call[p].pc = "stamp"
    /\ Fail(p, obj[p].raw)
    /\ UNCHANGED <<disk, now, promised, foreign>>

(***************************************************************************)
(* File::setNewKey.                                                        *)
(***************************************************************************)
StoresPromised(n) == Loadable(n) /\ promised \subseteq Recs(disk[n].items)

\* History: the check takes for the file it knows what a key change that failed
\* in the second of the stamp left behind, or one that lost records and said
\* nothing.
Deceived(p) == /\ obj[p].res \in {"failed", "damaged"}
               /\ NotModified(p)
               /\ ~StoresPromised("pet")

\* Mutant of KeyCheck: the key change begins without notModifiedOrThrow.
KeyUnchecked(p, k) ==
    /\ call[p].pc = "idle" /\ obj[p].raw # "none"
    /\ disk["pet"].exists
    /\ obj' = [obj EXCEPT ![p] = WithResult(WithStream(@, "none", "none"), "none")]
    /\ call' = [call EXCEPT ![p] = [At("newkey", "rename") EXCEPT !.other = k]]
    /\ promised' = IF Deceived(p) THEN {} ELSE promised
    /\ UNCHANGED <<disk, now, foreign>>

\* The check, and _yapetFile.reset().
KeyCheck(p, k) ==
    /\ call[p].pc = "idle" /\ obj[p].raw # "none"
    /\ NotModified(p)
    /\ obj' = [obj EXCEPT ![p] = WithResult(WithStream(@, "none", "none"), "none")]
    /\ call' = [call EXCEPT ![p] = [At("newkey", "rename") EXCEPT !.other = k]]
    /\ promised' = IF Deceived(p) THEN {} ELSE promised
    /\ UNCHANGED <<disk, now, foreign>>

\* The previous backup is replaced.
Rename(p) ==
    /\ call[p].pc = "rename"
    /\ disk["pet"].exists
    /\ disk' = [n \in Names |-> IF n = "bak" THEN disk["pet"] ELSE Absent]
    /\ obj' = [q \in Procs |-> [obj[q] EXCEPT !.fd = FollowRename(@)]]
    /\ call' = [q \in Procs |-> [call[q] EXCEPT
                    !.old = FollowRename(@),
                    !.pc = IF q = p THEN "openbak" ELSE @]]
    /\ Touch(p, "pet")
    /\ UNCHANGED <<now, promised>>

RenameFails(p) ==
    /\ call[p].pc = "rename"
    /\ Fail(p, "none")
    /\ UNCHANGED <<disk, now, promised, foreign>>

\* Open the backup with the old factory, then swap in the new one.
OpenBackup(p) ==
    /\ call[p].pc = "openbak"
    /\ disk["bak"].exists /\ disk["bak"].parts > 0
    /\ obj' = [obj EXCEPT ![p] = [obj[p] EXCEPT !.key = call[p].other]]
    /\ call' = [call EXCEPT ![p].other = obj[p].key, ![p].old = "bak",
                            ![p].pc = "create"]
    /\ UNCHANGED <<disk, now, promised, foreign>>

\* Mutant of OpenBackupFails: the backup is renamed back, with its old time.
RenameBack(p) ==
    /\ call[p].pc = "openbak"
    /\ disk["bak"].exists
    /\ disk' = [n \in Names |-> IF n = "pet" THEN disk["bak"] ELSE Absent]
    /\ Throw(p, "failed", "none")
    /\ Touch(p, "pet")
    /\ UNCHANGED <<now, promised>>

OpenBackupFails(p) ==
    /\ call[p].pc = "openbak"
    /\ Fail(p, "none")
    /\ UNCHANGED <<disk, now, promised, foreign>>

NewFile(p) ==
    /\ call[p].pc = "create"
    /\ disk' = [disk EXCEPT !["pet"] = Empty(obj[p].key)]
    /\ obj' = [obj EXCEPT ![p] = WithStream(@, "open", "pet")]
    /\ Goto(p, "ident")
    /\ Touch(p, "pet")
    /\ UNCHANGED <<now, promised>>

\* fopen fails.
NewFileFails(p) ==
    /\ call[p].pc = "create"
    /\ Fail(p, "closed")
    /\ UNCHANGED <<disk, now, promised, foreign>>

\* chown or chmod fails on the file just created.
NewFileInsecure(p) ==
    /\ call[p].pc = "create"
    /\ disk' = [disk EXCEPT !["pet"] = Empty(obj[p].key)]
    /\ obj' = [obj EXCEPT ![p] = WithResult(WithStream(@, "open", "pet"), "failed")]
    /\ Return(p)
    /\ Touch(p, "pet")
    /\ UNCHANGED <<now, promised>>

\* Mutant of Convert: the decrypted records are not encrypted again.
ConvertUnencrypted(p) ==
    /\ call[p].pc = "convert"
    /\ HasHeader(call[p].old)
    /\ \E items \in ReadsOf(call[p].old) :
         /\ Under(items, call[p].other)
         /\ call' = [call EXCEPT ![p].batch = Recs(items), ![p].left = Recs(items),
                                 ![p].pc = "trunc"]
    /\ UNCHANGED <<disk, now, obj, promised, foreign>>

\* A record under another key may decrypt to garbage, when the padding happens
\* to be valid: nobody looks at it.
Reencrypted(i, old, new) == [i EXCEPT !.key = IF i.key = old THEN new ELSE NoKey]

\* Read the records of the backup, decrypt them with the old key and encrypt
\* them with the new one; writePasswordRecords follows.
Convert(p) ==
    /\ call[p].pc = "convert"
    /\ HasHeader(call[p].old)
    /\ \E items \in ReadsOf(call[p].old) :
         LET new == {Reencrypted(i, call[p].other, obj[p].key) : i \in items} IN
         call' = [call EXCEPT ![p].batch = new, ![p].left = new, ![p].pc = "trunc",
                              ![p].lost  = ~(ReadsAll(call[p].old, items)
                                             /\ Under(items, call[p].other))]
    /\ UNCHANGED <<disk, now, obj, promised, foreign>>

\* The header cannot be read, a record not decrypted.
ConvertFails(p) ==
    /\ call[p].pc = "convert"
    /\ Fail(p, "open")
    /\ UNCHANGED <<disk, now, promised, foreign>>

(***************************************************************************)
(* File::read.  A list that is short leaves the stream in error, so that   *)
(* nothing is saved through it any more.                                   *)
(***************************************************************************)
Read(p) ==
    /\ call[p].pc = "idle" /\ obj[p].raw = "open"
    /\ HasHeader(obj[p].fd)
    /\ \E items \in ReadsOf(obj[p].fd), raw \in {"open", "bad"} :
         /\ Under(items, obj[p].key)
         /\ raw = "open" => ReadsAll(obj[p].fd, items) \/ EndsAnywhere(obj[p].fd)
         /\ obj' = [obj EXCEPT ![p] = WithStream(obj[p], raw, obj[p].fd)]
    /\ UNCHANGED <<disk, now, call, promised, foreign>>

\* fread sets the error indicator; getMasterPWSet, getFileVersion and
\* getHeaderVersion read the same way and leave the same behind.
ReadFails(p) ==
    /\ call[p].pc = "idle" /\ obj[p].raw = "open"
    /\ obj' = [obj EXCEPT ![p] = WithStream(obj[p], "bad", obj[p].fd)]
    /\ UNCHANGED <<disk, now, call, promised, foreign>>

(***************************************************************************)
(* The environment.                                                        *)
(***************************************************************************)
\* The File is destroyed, or its process exits or dies.  A member function
\* called when _yapetFile is null ends here too.
Stop(p) ==
    /\ call[p].pc # "closed"
    /\ obj' = [obj EXCEPT ![p] = NoObject]
    /\ call' = [call EXCEPT ![p] = Closed]
    /\ foreign' = [foreign EXCEPT ![p] = 0]
    /\ UNCHANGED <<disk, now, promised>>

Tick ==
    /\ now < MaxTime
    /\ now' = now + 1
    /\ UNCHANGED <<disk, obj, call, promised, foreign>>

-----------------------------------------------------------------------------
Construct(p) == \/ \E k \in Keys : OpenRaw(p, k) \/ CreateRaw(p, k) \/ CreateRawFails(p, k)
                \/ HeaderAccepted(p) \/ HeaderRejected(p)

InitializeFile(p) == WritePart(p) \/ WritePartFails(p)

Save(p) == CheckRefuses(p) \/ \E list \in Lists : SaveCheck(p, list)

WriteRecords(p) == \/ Truncate(p) \/ ReadHeaderFails(p) \/ TruncateFails(p)
                   \/ Reopen(p) \/ ReopenFails(p)
                   \/ WriteRecord(p) \/ WriteFails(p) \/ Flushed(p)

TakeStamp(p) == Stamp(p) \/ StampFails(p)

SetNewKey(p) == \/ \E k \in Keys : KeyCheck(p, k)
                \/ Rename(p) \/ RenameFails(p)
                \/ OpenBackup(p) \/ OpenBackupFails(p)
                \/ NewFile(p) \/ NewFileFails(p) \/ NewFileInsecure(p)
                \/ Convert(p) \/ ConvertFails(p)

ReadRecords(p) == Read(p) \/ ReadFails(p)

Process(p) == \/ Construct(p) \/ InitializeFile(p) \/ Save(p) \/ WriteRecords(p)
              \/ TakeStamp(p) \/ SetNewKey(p) \/ ReadRecords(p) \/ Stop(p)

Next == Tick \/ \E p \in Procs : Process(p)

Spec == Init /\ [][Next]_vars

-----------------------------------------------------------------------------
(***************************************************************************)
(* Several processes.                                                      *)
(***************************************************************************)
\* A save or a key change that passes notModifiedOrThrow (file.cc:87) follows
\* no modification by another process that happened in a later second than
\* the one of the stamp: only a change within that second goes unnoticed.
SeesForeignChange ==
    [][\A p \in Procs : (call[p].pc = "idle" /\ call'[p].pc \in {"trunc", "rename"})
                            => foreign[p] <= obj[p].stamp]_vars

\* What SeesForeignChange rests on: no file ever gets an older modification
\* time than the last change of its name that somebody else has to notice.
MtimeCoversForeign ==
    \A p \in Procs : /\ foreign[p] <= now
                     /\ disk["pet"].mtime <= now
                     /\ disk["pet"].exists => foreign[p] <= disk["pet"].mtime

-----------------------------------------------------------------------------
(***************************************************************************)
(* A single process.                                                       *)
(***************************************************************************)
\* What the constructor found in the file, or save() stored, can be loaded from
\* the file or from its backup with one password, at every step of a key
\* change, of a failed one, and after a crash inside it (setNewKey,
\* file.cc:147).  The truncation inside save() voids the promise, and a key
\* change that replaces the backup although the file is not what it was: the
\* one before failed in the second of the stamp, so that the check does not
\* refuse, or it lost records and said nothing (Deceived).
PromiseRecoverable ==
    promised = {} \/ \E n \in Names : StoresPromised(n)

\* A call that returns normally leaves a whole file behind: its header is that
\* of the object's key, the stamp is its modification time, so that the next
\* save is accepted (tests/crypt/file_aes256.cc:293, "file1 must allow to
\* re-save"), and the records are those of the list saved or of the file before
\* the key change.  But setNewKey returns normally, too, when its reading of the
\* backup was cut short (rawfile.cc:153) or a record in it was under another key
\* (file.cc:186): then the records are in the backup.
SuccessIsComplete ==
    \A p \in Procs :
        LET pet == disk["pet"] res == obj[p].res IN
        (call[p].pc = "idle" /\ res \in {"created", "saved", "rekeyed", "damaged"})
        => /\ pet.exists /\ pet.parts = 3 /\ ~pet.junk
           /\ pet.mtime = obj[p].stamp
           /\ res # "damaged" /\ Under(pet.items, pet.key)
                => promised \subseteq Recs(pet.items)
           /\ res = "saved" /\ Under(pet.items, pet.key) => promised = Recs(pet.items)
           /\ res \in {"rekeyed", "damaged"} => pet.key = obj[p].key
           /\ res = "rekeyed" => Loadable("pet")
           /\ res = "damaged" => promised = {} \/ StoresPromised("bak")

-----------------------------------------------------------------------------
(***************************************************************************)
(* What the source says and the code does not do.                          *)
(***************************************************************************)
\* "Indicates that a wrong password, thus key, was used for decryption of a
\* file" (yapeterror.hh:51): no File comes to life under a wrong key.
WrongKeyRejected ==
    [][\A p \in Procs : (obj[p].res # "opened" /\ obj'[p].res = "opened")
                            => disk["pet"].key = obj[p].key]_vars
=============================================================================
