--------------------------- MODULE PetFileProofs ---------------------------
(***************************************************************************)
(* Proofs about PetFile for any number of processes, records and keys.     *)
(***************************************************************************)
EXTENDS PetFile, TLAPS

\* Type correctness -------------------------------------------------------

LEMMA Literals ==
    /\ {"pet", "bak", "gone", "none"} = Streams
    /\ {"pet", "bak"} = Names
    /\ {"none", "closed", "open", "bad"} = RawStates
    /\ {"none", "created", "opened", "saved", "rekeyed", "damaged", "refused", "failed"} = Results
    /\ 0 \in Time /\ 1 \in Time
    /\ AnyKey \in Keys
  BY MaxTimeAssumption, KeysAssumption
     DEF Streams, Names, RawStates, Results, Time, AnyKey

LEMMA ConstantTypes ==
    /\ Absent \in FileContent
    /\ NoObject \in FileObject
    /\ Closed \in Call
    /\ Idle \in Call
    /\ At("create", "ident") \in Call
    /\ At("open", "validate") \in Call
  BY Literals DEF Absent, FileContent, NoObject, FileObject, Closed, Idle, At, Call, Locations

LEMMA EmptyType ==
    ASSUME NEW k \in Keys, now \in Time
    PROVE  Empty(k) \in FileContent
  BY DEF Empty, FileContent

LEMMA InitType == Init => TypeOK
  <1> SUFFICES ASSUME Init PROVE TypeOK
    OBVIOUS
  <1>1. QED
    BY ConstantTypes, Literals DEF Init, TypeOK

LEMMA TouchType ==
    ASSUME TypeOK, NEW p \in Procs, NEW n, Touch(p, n)
    PROVE  foreign' \in [Procs -> Time]
  BY DEF TypeOK, Touch

\* The two ways a member function changes its object.
LEMMA ObjectUpdates ==
    ASSUME NEW o \in FileObject, NEW raw \in RawStates,
           NEW fd \in Streams, NEW res \in Results
    PROVE  /\ WithStream(o, raw, fd) \in FileObject
           /\ WithResult(o, res) \in FileObject
           /\ WithResult(WithStream(o, raw, fd), res) \in FileObject
  BY DEF FileObject, WithStream, WithResult

LEMMA AbandonType ==
    ASSUME TypeOK, NEW p \in Procs, Abandon(p)
    PROVE  obj' \in [Procs -> FileObject] /\ call' \in [Procs -> Call]
  BY ConstantTypes DEF TypeOK, Abandon

LEMMA ThrowType ==
    ASSUME TypeOK, NEW p \in Procs, NEW res \in Results,
           NEW raw \in RawStates, Throw(p, res, raw)
    PROVE  obj' \in [Procs -> FileObject] /\ call' \in [Procs -> Call]
  <1>1. obj' \in [Procs -> FileObject]
    <2>1. Ended(obj[p], res, raw) \in FileObject
      <3>1. obj[p] \in FileObject /\ obj[p].fd \in Streams
        BY DEF TypeOK, FileObject
      <3>2. QED
        BY <3>1, ObjectUpdates, Literals DEF Ended
    <2>2. QED
      BY <2>1 DEF Throw, TypeOK
  <1>2. call' \in [Procs -> Call]
    BY ConstantTypes DEF TypeOK, Throw, Return
  <1>3. QED
    BY <1>1, <1>2

LEMMA FailType ==
    ASSUME TypeOK, NEW p \in Procs,
           NEW raw \in RawStates, Fail(p, raw)
    PROVE  obj' \in [Procs -> FileObject] /\ call' \in [Procs -> Call]
  BY AbandonType, ThrowType, Literals DEF Fail

LEMMA GotoType ==
    ASSUME TypeOK, NEW p \in Procs, NEW pc \in Locations, Goto(p, pc)
    PROVE  call' \in [Procs -> Call]
  BY DEF TypeOK, Goto, Call

LEMMA ReturnType ==
    ASSUME TypeOK, NEW p \in Procs, Return(p)
    PROVE  call' \in [Procs -> Call]
  BY ConstantTypes DEF TypeOK, Return

LEMMA ConstructType ==
    ASSUME TypeOK, NEW p \in Procs, Construct(p)
    PROVE  TypeOK'
  <1>0. now \in Time
    BY DEF TypeOK
  <1>1. ASSUME NEW k \in Keys, OpenRaw(p, k) PROVE TypeOK'
    BY <1>0, <1>1, ConstantTypes, Literals DEF OpenRaw, TypeOK, FileObject
  <1>2. ASSUME NEW k \in Keys, CreateRaw(p, k) PROVE TypeOK'
    <2>1. Empty(k) \in FileContent /\ At("create", "ident") \in Call
      BY <1>0, ConstantTypes, EmptyType
    <2>2. foreign' \in [Procs -> Time]
      BY <1>2, TouchType DEF CreateRaw
    <2>3. obj' \in [Procs -> FileObject]
      BY <1>2, Literals DEF CreateRaw, TypeOK, FileObject
    <2>4. QED
      BY <1>2, <2>1, <2>2, <2>3 DEF CreateRaw, TypeOK
  <1>3. ASSUME NEW k \in Keys, CreateRawFails(p, k) PROVE TypeOK'
    <2>1. Empty(k) \in FileContent
      BY <1>0, ConstantTypes, EmptyType
    <2>2. foreign' \in [Procs -> Time]
      BY <1>3, TouchType DEF CreateRawFails
    <2>3. QED
      BY <1>3, <2>1, <2>2 DEF CreateRawFails, TypeOK
  <1>4. CASE HeaderAccepted(p)
    BY <1>4, GotoType DEF HeaderAccepted, TypeOK, Locations
  <1>5. CASE HeaderRejected(p)
    BY <1>5, AbandonType DEF HeaderRejected, TypeOK
  <1>6. QED
    BY <1>1, <1>2, <1>3, <1>4, <1>5 DEF Construct

LEMMA FileUpdates ==
    ASSUME now \in Time, NEW f \in FileContent, NEW n \in 0..3, NEW k \in Keys
    PROVE  /\ [f EXCEPT !.parts = n, !.mtime = now] \in FileContent
           /\ [f EXCEPT !.parts = n, !.key = k, !.mtime = now] \in FileContent
  BY DEF FileContent

LEMMA PartWrittenType ==
    ASSUME now \in Time, NEW pc \in InitLocations, NEW f \in FileContent, NEW k \in Keys
    PROVE  PartWritten(pc, f, k) \in FileContent
  <1>0. f.parts \in 0..3
    BY DEF FileContent
  <1>1. /\ (IF f.parts = 0 THEN 1 ELSE f.parts) \in 0..3
        /\ (IF f.parts = 0 THEN 0 ELSE 2) \in 0..3
        /\ (IF f.parts < 2 THEN f.parts ELSE 3) \in 0..3
    BY <1>0
  <1>2. CASE pc = "ident"
    BY <1>1, <1>2, FileUpdates DEF PartWritten
  <1>3. CASE pc = "meta"
    BY <1>1, <1>3, FileUpdates DEF PartWritten
  <1>4. CASE pc = "header"
    BY <1>1, <1>4, FileUpdates DEF PartWritten
  <1>5. QED
    BY <1>2, <1>3, <1>4 DEF InitLocations

LEMMA InitializeFileType ==
    ASSUME TypeOK, NEW p \in Procs, InitializeFile(p)
    PROVE  TypeOK'
  <1>1. CASE WritePart(p)
    <2>1. /\ call[p].pc \in InitLocations
          /\ obj[p].fd \in Streams /\ obj[p].key \in Keys
          /\ now \in Time
      BY <1>1 DEF WritePart, TypeOK, FileObject
    <2>2. disk' \in [Names -> FileContent]
      <3>1. CASE obj[p].fd \in {"pet", "bak"}
        <4>1. PartWritten(call[p].pc, disk[obj[p].fd], obj[p].key) \in FileContent
          BY <2>1, <3>1, PartWrittenType, Literals DEF TypeOK
        <4>2. QED
          BY <1>1, <3>1, <4>1 DEF WritePart, TypeOK
      <3>2. CASE obj[p].fd \notin {"pet", "bak"}
        BY <1>1, <3>2, Literals DEF WritePart, TypeOK
      <3>3. QED
        BY <3>1, <3>2
    <2>3. AfterPart(call[p].op, call[p].pc) \in Locations
      BY <2>1 DEF AfterPart, InitLocations, Locations
    <2>4. call' \in [Procs -> Call]
      BY <1>1, <2>3, GotoType DEF WritePart
    <2>5. foreign' \in [Procs -> Time]
      BY <1>1, TouchType DEF WritePart
    <2>6. QED
      BY <1>1, <2>2, <2>4, <2>5 DEF WritePart, TypeOK
  <1>2. CASE WritePartFails(p)
    BY <1>2, FailType, Literals DEF WritePartFails, TypeOK
  <1>3. QED
    BY <1>1, <1>2 DEF InitializeFile

LEMMA SaveType ==
    ASSUME TypeOK, NEW p \in Procs, Save(p)
    PROVE  TypeOK'
  <1>1. CASE CheckRefuses(p)
    <2>1. obj[p].raw \in RawStates
      BY DEF TypeOK, FileObject
    <2>2. (IF disk["pet"].exists THEN "refused" ELSE "failed") \in Results
      BY Literals
    <2>3. QED
      BY <1>1, <2>1, <2>2, ThrowType DEF CheckRefuses, TypeOK
  <1>2. ASSUME NEW list \in Lists, SaveCheck(p, list) PROVE TypeOK'
    <2>0. list \subseteq Items
      BY ListsAssumption DEF Items
    <2>1. [At("save", "trunc") EXCEPT !.batch = list, !.left = list] \in Call
      BY <2>0, Literals DEF At, Call, Locations
    <2>2. obj' \in [Procs -> FileObject]
      BY <1>2, ObjectUpdates, Literals DEF SaveCheck, TypeOK
    <2>3. QED
      BY <1>2, <2>1, <2>2 DEF SaveCheck, TypeOK
  <1>3. QED
    BY <1>1, <1>2 DEF Save

LEMMA WriteRecordsType ==
    ASSUME TypeOK, NEW p \in Procs, WriteRecords(p)
    PROVE  TypeOK'
  <1>0. obj[p].raw \in RawStates /\ obj[p].fd \in Streams
    BY DEF TypeOK, FileObject
  <1>1. CASE Truncate(p)
    <2>1. disk' \in [Names -> FileContent]
      BY <1>1, Literals DEF Truncate, TypeOK, FileContent
    <2>2. obj' \in [Procs -> FileObject]
      BY <1>1, ObjectUpdates, Literals DEF Truncate, TypeOK
    <2>3. call' \in [Procs -> Call] /\ foreign' \in [Procs -> Time]
      BY <1>1, GotoType, TouchType DEF Truncate, Locations
    <2>4. QED
      BY <1>1, <2>1, <2>2, <2>3 DEF Truncate, TypeOK
  <1>2. CASE ReadHeaderFails(p)
    BY <1>0, <1>2, FailType, Literals DEF ReadHeaderFails, TypeOK
  <1>3. CASE TruncateFails(p)
    BY <1>3, FailType, Literals DEF TruncateFails, TypeOK
  <1>4. CASE Reopen(p)
    <2>1. obj' \in [Procs -> FileObject]
      BY <1>4, ObjectUpdates, Literals DEF Reopen, TypeOK
    <2>2. call' \in [Procs -> Call]
      BY <1>4, GotoType DEF Reopen, Locations
    <2>3. QED
      BY <1>4, <2>1, <2>2 DEF Reopen, TypeOK
  <1>5. CASE ReopenFails(p)
    BY <1>5, FailType, Literals DEF ReopenFails, TypeOK
  <1>6. CASE WriteRecord(p)
    <2>1. PICK i \in call[p].left :
             /\ call' = [call EXCEPT ![p].left = @ \ {i}]
             /\ \/ /\ obj[p].fd \in Names
                   /\ \E j \in {FALSE} \cup {Disturbed(p, obj[p].fd)} :
                        disk' = [disk EXCEPT ![obj[p].fd].items = @ \cup {i},
                                             ![obj[p].fd].mtime = now,
                                             ![obj[p].fd].junk = j]
                \/ obj[p].fd \notin Names /\ disk' = disk
      BY <1>6 DEF WriteRecord
    <2>2. i \in Items
      BY DEF TypeOK, Call
    <2>3. call' \in [Procs -> Call]
      BY <2>1 DEF TypeOK, Call
    <2>4. Disturbed(p, obj[p].fd) \in BOOLEAN
      BY DEF Disturbed
    <2>5. disk' \in [Names -> FileContent]
      BY <2>1, <2>2, <2>4 DEF TypeOK, FileContent
    <2>6. foreign' \in [Procs -> Time]
      BY <1>6, TouchType DEF WriteRecord
    <2>7. QED
      BY <1>6, <2>3, <2>5, <2>6 DEF WriteRecord, TypeOK
  <1>7. CASE WriteFails(p)
    BY <1>7, FailType, Literals DEF WriteFails, TypeOK
  <1>8. CASE Flushed(p)
    BY <1>8, GotoType DEF Flushed, TypeOK, Locations
  <1>9. QED
    BY <1>1, <1>2, <1>3, <1>4, <1>5, <1>6, <1>7, <1>8 DEF WriteRecords

LEMMA TakeStampType ==
    ASSUME TypeOK, NEW p \in Procs, TakeStamp(p)
    PROVE  TypeOK'
  <1>1. CASE Stamp(p)
    <2>1. obj' \in [Procs -> FileObject]
      <3>1. ResultOf(call[p]) \in Results
        BY Literals DEF ResultOf
      <3>2. disk["pet"].mtime \in Time
        BY Literals DEF TypeOK, FileContent
      <3>3. [obj[p] EXCEPT !.stamp = disk["pet"].mtime] \in FileObject
        BY <3>2 DEF TypeOK, FileObject
      <3>4. QED
        BY <1>1, <3>1, <3>3, ObjectUpdates, Literals DEF Stamp, TypeOK
    <2>2. promised' \subseteq Records
      <3>1. call[p].batch \subseteq Items /\ disk["pet"].items \subseteq Items
        BY Literals DEF TypeOK, Call, FileContent
      <3>2. Recs(call[p].batch) \subseteq Records
        BY <3>1 DEF Recs, Items
      <3>3. Recs(disk["pet"].items) \subseteq Records
        BY <3>1 DEF Recs, Items
      <3>4. QED
        BY <1>1, <3>2, <3>3 DEF Stamp, Promise, TypeOK
    <2>3. call' \in [Procs -> Call]
      BY <1>1, ReturnType DEF Stamp
    <2>4. foreign' \in [Procs -> Time]
      BY <1>1, Literals DEF Stamp, TypeOK
    <2>5. QED
      BY <1>1, <2>1, <2>2, <2>3, <2>4 DEF Stamp, TypeOK
  <1>2. CASE StampFails(p)
    <2>1. obj[p].raw \in RawStates
      BY DEF TypeOK, FileObject
    <2>2. QED
      BY <1>2, <2>1, FailType, Literals DEF StampFails, TypeOK
  <1>3. QED
    BY <1>1, <1>2 DEF TakeStamp

LEMMA RecsType ==
    ASSUME NEW items \in SUBSET Items
    PROVE  Recs(items) \subseteq Records
  BY DEF Recs, Items

LEMMA ReadsType ==
    ASSUME TypeOK, NEW s \in Streams
    PROVE  ReadsOf(s) \subseteq SUBSET Items
  <1>1. CASE s = "gone"
    BY <1>1 DEF ReadsOf, Names
  <1>2. CASE s = "none"
    BY <1>2 DEF ReadsOf, Names
  <1>3. CASE s \in Names
    <2>1. disk[s].items \subseteq Items
      BY <1>3 DEF TypeOK, FileContent
    <2>2. ReadsOf(s) \subseteq SUBSET disk[s].items
      BY <1>3, Literals DEF ReadsOf
    <2>3. QED
      BY <2>1, <2>2
  <1>4. QED
    BY <1>1, <1>2, <1>3 DEF Streams

LEMMA ReencryptedType ==
    ASSUME NEW i \in Items, NEW old, NEW new \in Keys
    PROVE  Reencrypted(i, old, new) \in Items
  BY DEF Reencrypted, Items

LEMMA SetNewKeyType ==
    ASSUME TypeOK, NEW p \in Procs, SetNewKey(p)
    PROVE  TypeOK'
  <1>0. obj[p] \in FileObject /\ obj[p].key \in Keys /\ now \in Time
    BY DEF TypeOK, FileObject
  <1>1. ASSUME NEW k \in Keys, KeyCheck(p, k) PROVE TypeOK'
    <2>1. [At("newkey", "rename") EXCEPT !.other = k] \in Call
      BY Literals DEF At, Call, Locations
    <2>2. obj' \in [Procs -> FileObject]
      BY <1>1, ObjectUpdates, Literals DEF KeyCheck, TypeOK
    <2>3. QED
      BY <1>1, <2>1, <2>2 DEF KeyCheck, TypeOK
  <1>2. CASE Rename(p)
    <2>1. disk' \in [Names -> FileContent]
      BY <1>0, <1>2, ConstantTypes, Literals DEF Rename, TypeOK
    <2>2. ASSUME NEW q \in Procs
          PROVE  [obj[q] EXCEPT !.fd = FollowRename(obj[q].fd)] \in FileObject
      BY Literals DEF TypeOK, FileObject, FollowRename
    <2>3. ASSUME NEW q \in Procs
          PROVE  [call[q] EXCEPT !.old = FollowRename(call[q].old),
                                 !.pc = IF q = p THEN "openbak" ELSE call[q].pc] \in Call
      <3>1. call[q] \in Call
        BY DEF TypeOK
      <3>2. FollowRename(call[q].old) \in Streams
        BY <3>1, Literals DEF Call, FollowRename, Streams, Names
      <3>3. (IF q = p THEN "openbak" ELSE call[q].pc) \in Locations
        BY <3>1, Literals DEF Call, Locations
      <3>4. QED
        BY <3>1, <3>2, <3>3 DEF Call
    <2>4. obj' \in [Procs -> FileObject] /\ call' \in [Procs -> Call]
      BY <1>2, <2>2, <2>3 DEF Rename
    <2>5. foreign' \in [Procs -> Time]
      BY <1>2, TouchType DEF Rename
    <2>6. QED
      BY <1>2, <2>1, <2>4, <2>5 DEF Rename, TypeOK
  <1>3. CASE RenameFails(p)
    BY <1>3, FailType, Literals DEF RenameFails, TypeOK
  <1>4. CASE OpenBackup(p)
    <2>1. obj' \in [Procs -> FileObject]
      BY <1>4 DEF OpenBackup, TypeOK, FileObject, Call
    <2>2. call' \in [Procs -> Call]
      BY <1>0, <1>4 DEF OpenBackup, TypeOK, Call, Locations
    <2>3. QED
      BY <1>4, <2>1, <2>2 DEF OpenBackup, TypeOK
  <1>5. CASE OpenBackupFails(p)
    BY <1>5, FailType, Literals DEF OpenBackupFails, TypeOK
  <1>6. CASE NewFile(p)
    <2>1. disk' \in [Names -> FileContent]
      BY <1>0, <1>6, EmptyType, Literals DEF NewFile, TypeOK
    <2>2. obj' \in [Procs -> FileObject]
      BY <1>6, ObjectUpdates, Literals DEF NewFile, TypeOK
    <2>3. call' \in [Procs -> Call] /\ foreign' \in [Procs -> Time]
      BY <1>6, GotoType, TouchType DEF NewFile, Locations
    <2>4. QED
      BY <1>6, <2>1, <2>2, <2>3 DEF NewFile, TypeOK
  <1>7. CASE NewFileFails(p)
    BY <1>7, FailType, Literals DEF NewFileFails, TypeOK
  <1>8. CASE NewFileInsecure(p)
    <2>1. disk' \in [Names -> FileContent]
      BY <1>0, <1>8, EmptyType, Literals DEF NewFileInsecure, TypeOK
    <2>2. obj' \in [Procs -> FileObject]
      BY <1>8, ObjectUpdates, Literals DEF NewFileInsecure, TypeOK
    <2>3. call' \in [Procs -> Call] /\ foreign' \in [Procs -> Time]
      BY <1>8, ReturnType, TouchType DEF NewFileInsecure
    <2>4. QED
      BY <1>8, <2>1, <2>2, <2>3 DEF NewFileInsecure, TypeOK
  <1>9. CASE Convert(p)
    <2>1. PICK items \in ReadsOf(call[p].old) :
             LET new == {Reencrypted(i, call[p].other, obj[p].key) : i \in items} IN
             call' = [call EXCEPT ![p].batch = new, ![p].left = new, ![p].pc = "trunc",
                                  ![p].lost  = ~(ReadsAll(call[p].old, items)
                                                 /\ Under(items, call[p].other))]
      BY <1>9 DEF Convert
    <2>2. call[p] \in Call /\ call[p].old \in Streams
      BY DEF TypeOK, Call
    <2>3. items \subseteq Items
      BY <2>2, ReadsType
    <2>4. {Reencrypted(i, call[p].other, obj[p].key) : i \in items} \subseteq Items
      BY <1>0, <2>3, ReencryptedType
    <2>5. ASSUME NEW new \in SUBSET Items, NEW lost \in BOOLEAN
          PROVE  [call[p] EXCEPT !.batch = new, !.left = new, !.pc = "trunc",
                                 !.lost = lost] \in Call
      BY <2>2 DEF Call, Locations
    <2>6. call' \in [Procs -> Call]
      BY <2>1, <2>4, <2>5 DEF TypeOK
    <2>7. QED
      BY <1>9, <2>6 DEF Convert, TypeOK
  <1>10. CASE ConvertFails(p)
    BY <1>10, FailType, Literals DEF ConvertFails, TypeOK
  <1>11. QED
    BY <1>1, <1>2, <1>3, <1>4, <1>5, <1>6, <1>7, <1>8, <1>9, <1>10 DEF SetNewKey

LEMMA ReadRecordsType ==
    ASSUME TypeOK, NEW p \in Procs, ReadRecords(p)
    PROVE  TypeOK'
  <1>1. CASE Read(p)
    <2>1. obj[p] \in FileObject /\ obj[p].fd \in Streams
      BY DEF TypeOK, FileObject
    <2>2. PICK raw \in {"open", "bad"} :
             obj' = [obj EXCEPT ![p] = WithStream(obj[p], raw, obj[p].fd)]
      BY <1>1 DEF Read
    <2>3. WithStream(obj[p], raw, obj[p].fd) \in FileObject
      BY <2>1, ObjectUpdates, Literals
    <2>4. QED
      BY <1>1, <2>2, <2>3 DEF Read, TypeOK
  <1>2. CASE ReadFails(p)
    <2>1. obj[p] \in FileObject /\ obj[p].fd \in Streams
      BY DEF TypeOK, FileObject
    <2>2. QED
      BY <1>2, <2>1, ObjectUpdates, Literals DEF ReadFails, TypeOK
  <1>3. QED
    BY <1>1, <1>2 DEF ReadRecords

LEMMA StopType ==
    ASSUME TypeOK, NEW p \in Procs, Stop(p)
    PROVE  TypeOK'
  BY ConstantTypes, Literals DEF Stop, TypeOK

LEMMA TickType ==
    ASSUME TypeOK, Tick
    PROVE  TypeOK'
  BY MaxTimeAssumption DEF Tick, TypeOK, Time

LEMMA NextType ==
    ASSUME TypeOK, [Next]_vars
    PROVE  TypeOK'
  <1>1. CASE Tick
    BY <1>1, TickType
  <1>2. ASSUME NEW p \in Procs, Process(p) PROVE TypeOK'
    BY <1>2, ConstructType, InitializeFileType, SaveType, WriteRecordsType,
       TakeStampType, SetNewKeyType, ReadRecordsType, StopType DEF Process
  <1>3. CASE UNCHANGED vars
    BY <1>3 DEF vars, TypeOK
  <1>4. QED
    BY <1>1, <1>2, <1>3 DEF Next

\* Every variable keeps its type, for any number of processes sharing the file.
THEOREM TypeCorrect == Spec => []TypeOK
  <1>1. TypeOK /\ [Next]_vars => TypeOK'
    BY NextType
  <1>2. QED
    BY InitType, <1>1, PTL DEF Spec

\* External modifications -------------------------------------------------

\* A step of a process leaves the file alone and takes no foreign change back
\* but its own, or it changes the file in the current second.
PetKept == /\ disk'["pet"] = disk["pet"]
           /\ now' = now
           /\ \A q \in Procs : foreign'[q] \in {foreign[q], 0}

PetChanged == /\ disk'["pet"].mtime = now \/ disk'["pet"] = Absent
              /\ now' = now
              /\ \A q \in Procs : foreign'[q] \in {foreign[q], now}

LEMMA TouchForeign ==
    ASSUME TypeOK, NEW p \in Procs, NEW n, Touch(p, n)
    PROVE  /\ \A q \in Procs : foreign'[q] \in {foreign[q], now}
           /\ n # "pet" => foreign' = foreign
  BY DEF TypeOK, Touch

LEMMA StepShape ==
    ASSUME TypeOK, NEW p \in Procs, Process(p)
    PROVE  PetKept \/ PetChanged
  <1>1. CASE Construct(p)
    <2>1. ASSUME NEW k \in Keys, OpenRaw(p, k) PROVE PetKept
      BY <2>1 DEF OpenRaw, PetKept
    <2>2. ASSUME NEW k \in Keys, CreateRaw(p, k) \/ CreateRawFails(p, k)
          PROVE  PetChanged
      <3>1. Touch(p, "pet") /\ now' = now /\ disk' = [disk EXCEPT !["pet"] = Empty(k)]
        BY <2>2 DEF CreateRaw, CreateRawFails
      <3>2. disk'["pet"].mtime = now
        BY <3>1, Literals DEF TypeOK, Empty
      <3>3. QED
        BY <3>1, <3>2, TouchForeign DEF PetChanged
    <2>3. CASE HeaderAccepted(p) \/ HeaderRejected(p)
      BY <2>3 DEF HeaderAccepted, HeaderRejected, PetKept
    <2>4. QED
      BY <1>1, <2>1, <2>2, <2>3 DEF Construct
  <1>2. CASE InitializeFile(p)
    <2>1. CASE WritePart(p)
      <3>1. call[p].pc \in InitLocations /\ Touch(p, obj[p].fd) /\ now' = now
        BY <2>1 DEF WritePart
      <3>2. CASE obj[p].fd = "pet"
        <4>1. disk' = [disk EXCEPT !["pet"] =
                          PartWritten(call[p].pc, disk["pet"], obj[p].key)]
          BY <2>1, <3>2, Literals DEF WritePart
        <4>2. disk["pet"] \in FileContent
          BY Literals DEF TypeOK
        <4>3. PartWritten(call[p].pc, disk["pet"], obj[p].key).mtime = now
          BY <3>1, <4>2 DEF PartWritten, InitLocations, FileContent
        <4>4. disk'["pet"].mtime = now
          BY <4>1, <4>3, Literals DEF TypeOK
        <4>5. QED
          BY <3>1, <4>4, TouchForeign DEF PetChanged
      <3>3. CASE obj[p].fd # "pet"
        <4>1. disk'["pet"] = disk["pet"]
          BY <2>1, <3>3, Literals DEF WritePart, TypeOK
        <4>2. QED
          BY <3>1, <3>3, <4>1, TouchForeign DEF PetKept
      <3>4. QED
        BY <3>2, <3>3
    <2>2. CASE WritePartFails(p)
      BY <2>2 DEF WritePartFails, PetKept
    <2>3. QED
      BY <1>2, <2>1, <2>2 DEF InitializeFile
  <1>3. CASE Save(p)
    BY <1>3 DEF Save, CheckRefuses, SaveCheck, PetKept
  <1>4. CASE WriteRecords(p)
    <2>1. CASE Truncate(p)
      <3>1. Touch(p, "pet") /\ now' = now
        BY <2>1 DEF Truncate
      <3>2. disk'["pet"].mtime = now
        BY <2>1, Literals DEF Truncate, TypeOK, FileContent
      <3>3. QED
        BY <3>1, <3>2, TouchForeign DEF PetChanged
    <2>2. CASE WriteRecord(p)
      <3>1. Touch(p, obj[p].fd) /\ now' = now
        BY <2>2 DEF WriteRecord
      <3>2. CASE obj[p].fd = "pet"
        <4>1. PICK i \in call[p].left, j \in BOOLEAN :
                 disk' = [disk EXCEPT !["pet"].items = @ \cup {i},
                                      !["pet"].mtime = now, !["pet"].junk = j]
          BY <2>2, <3>2, Literals DEF WriteRecord, Disturbed
        <4>2. disk'["pet"].mtime = now
          BY <4>1, Literals DEF TypeOK, FileContent
        <4>3. QED
          BY <3>1, <4>2, TouchForeign DEF PetChanged
      <3>3. CASE obj[p].fd # "pet"
        <4>1. disk'["pet"] = disk["pet"]
          BY <2>2, <3>3, Literals DEF WriteRecord, TypeOK
        <4>2. QED
          BY <3>1, <3>3, <4>1, TouchForeign DEF PetKept
      <3>4. QED
        BY <3>2, <3>3
    <2>3. CASE \/ ReadHeaderFails(p) \/ TruncateFails(p) \/ Reopen(p)
               \/ ReopenFails(p) \/ WriteFails(p) \/ Flushed(p)
      BY <2>3 DEF ReadHeaderFails, TruncateFails, Reopen, ReopenFails, WriteFails,
                  Flushed, PetKept
    <2>4. QED
      BY <1>4, <2>1, <2>2, <2>3 DEF WriteRecords
  <1>5. CASE TakeStamp(p)
    BY <1>5 DEF TakeStamp, Stamp, StampFails, PetKept, TypeOK
  <1>6. CASE SetNewKey(p)
    <2>1. CASE Rename(p)
      <3>1. Touch(p, "pet") /\ now' = now
        BY <2>1 DEF Rename
      <3>2. disk'["pet"] = Absent
        BY <2>1, Literals DEF Rename
      <3>3. QED
        BY <3>1, <3>2, TouchForeign DEF PetChanged
    <2>2. CASE NewFile(p) \/ NewFileInsecure(p)
      <3>1. /\ Touch(p, "pet") /\ now' = now
            /\ disk' = [disk EXCEPT !["pet"] = Empty(obj[p].key)]
        BY <2>2 DEF NewFile, NewFileInsecure
      <3>2. disk'["pet"].mtime = now
        BY <3>1, Literals DEF TypeOK, Empty
      <3>3. QED
        BY <3>1, <3>2, TouchForeign DEF PetChanged
    <2>3. ASSUME NEW k \in Keys, KeyCheck(p, k) PROVE PetKept
      BY <2>3 DEF KeyCheck, PetKept
    <2>4. CASE \/ RenameFails(p) \/ OpenBackup(p) \/ OpenBackupFails(p)
               \/ NewFileFails(p) \/ Convert(p) \/ ConvertFails(p)
      BY <2>4 DEF RenameFails, OpenBackup, OpenBackupFails, NewFileFails, Convert,
                  ConvertFails, PetKept
    <2>5. QED
      BY <1>6, <2>1, <2>2, <2>3, <2>4 DEF SetNewKey
  <1>7. CASE ReadRecords(p)
    BY <1>7 DEF ReadRecords, Read, ReadFails, PetKept
  <1>8. CASE Stop(p)
    BY <1>8 DEF Stop, PetKept, TypeOK
  <1>9. QED
    BY <1>1, <1>2, <1>3, <1>4, <1>5, <1>6, <1>7, <1>8 DEF Process

LEMMA NextMtime ==
    ASSUME TypeOK, MtimeCoversForeign, [Next]_vars
    PROVE  MtimeCoversForeign'
  <1>0. /\ now \in Nat /\ disk["pet"].mtime \in Nat
        /\ \A q \in Procs : foreign[q] \in Nat
    BY MaxTimeAssumption, Literals DEF TypeOK, FileContent, Time
  <1>1. CASE Tick
    BY <1>0, <1>1 DEF Tick, MtimeCoversForeign
  <1>2. ASSUME NEW p \in Procs, Process(p) PROVE MtimeCoversForeign'
    <2>1. CASE PetKept
      BY <1>0, <2>1 DEF PetKept, MtimeCoversForeign
    <2>2. CASE PetChanged
      BY <1>0, <2>2 DEF PetChanged, MtimeCoversForeign, Absent
    <2>3. QED
      BY <1>2, <2>1, <2>2, StepShape
  <1>3. CASE UNCHANGED vars
    BY <1>3 DEF vars, MtimeCoversForeign
  <1>4. QED
    BY <1>1, <1>2, <1>3 DEF Next

\* The modification time of the file is never older than a foreign change of
\* it that a process has not noticed.
THEOREM MtimeCorrect == Spec => []MtimeCoversForeign
  <1>1. Init => MtimeCoversForeign
    BY Literals DEF Init, MtimeCoversForeign, Absent
  <1>2. TypeOK /\ MtimeCoversForeign /\ [Next]_vars => MtimeCoversForeign'
    BY NextMtime
  <1>3. QED
    BY <1>1, <1>2, TypeCorrect, PTL DEF Spec

\* Only a passed check takes a process from rest into a modification.
Enters(p) == call[p].pc = "idle" /\ call'[p].pc \in {"trunc", "rename"}

LEMMA EntersByCheck ==
    ASSUME TypeOK, NEW p \in Procs, NEW q \in Procs, Process(q), Enters(p)
    PROVE  NotModified(p)
  <1>0. call \in [Procs -> Call] /\ Idle.pc = "idle" /\ Closed.pc = "closed"
    BY DEF TypeOK, Idle, Closed, At
  <1>1. ASSUME call' = [call EXCEPT ![q] = Idle] \/ call' = [call EXCEPT ![q] = Closed]
        PROVE  FALSE
    BY <1>0, <1>1 DEF Enters
  <1>2. ASSUME call[q].pc # "idle", NEW c, call' = [call EXCEPT ![q] = c]
        PROVE  FALSE
    BY <1>0, <1>2 DEF Enters
  <1>3. ASSUME call' = call PROVE FALSE
    BY <1>3 DEF Enters
  <1>4. ASSUME NEW raw, Fail(q, raw) PROVE FALSE
    BY <1>1, <1>4 DEF Fail, Abandon, Throw, Return
  <1>5. ASSUME NEW pc, call[q].pc # "idle", Goto(q, pc) PROVE FALSE
    <2>1. call' = [call EXCEPT ![q] = [call[q] EXCEPT !.pc = pc]]
      BY <1>5 DEF Goto
    <2>2. QED
      BY <1>2, <1>5, <2>1
  <1>6. CASE Construct(q)
    <2>1. ASSUME NEW k \in Keys, OpenRaw(q, k) \/ CreateRaw(q, k) PROVE FALSE
      BY <1>2, <2>1 DEF OpenRaw, CreateRaw
    <2>2. ASSUME NEW k \in Keys, CreateRawFails(q, k) PROVE FALSE
      BY <1>3, <2>2 DEF CreateRawFails
    <2>3. CASE HeaderAccepted(q)
      BY <1>5, <2>3 DEF HeaderAccepted
    <2>4. CASE HeaderRejected(q)
      BY <1>1, <2>4 DEF HeaderRejected, Abandon
    <2>5. QED
      BY <1>6, <2>1, <2>2, <2>3, <2>4 DEF Construct
  <1>7. CASE InitializeFile(q)
    <2>1. CASE WritePart(q)
      BY <1>5, <2>1 DEF WritePart, InitLocations
    <2>2. CASE WritePartFails(q)
      BY <1>4, <2>2 DEF WritePartFails
    <2>3. QED
      BY <1>7, <2>1, <2>2 DEF InitializeFile
  <1>8. CASE Save(q)
    <2>1. CASE CheckRefuses(q)
      BY <1>1, <2>1 DEF CheckRefuses, Throw, Return
    <2>2. ASSUME NEW list \in Lists, SaveCheck(q, list) PROVE NotModified(p)
      BY <1>0, <2>2 DEF SaveCheck, Enters
    <2>3. QED
      BY <1>8, <2>1, <2>2 DEF Save
  <1>9. CASE WriteRecords(q)
    <2>1. CASE Truncate(q) \/ Reopen(q) \/ Flushed(q)
      BY <1>5, <2>1 DEF Truncate, Reopen, Flushed
    <2>2. CASE ReadHeaderFails(q) \/ TruncateFails(q) \/ ReopenFails(q) \/ WriteFails(q)
      BY <1>4, <2>2 DEF ReadHeaderFails, TruncateFails, ReopenFails, WriteFails
    <2>3. CASE WriteRecord(q)
      <3>1. PICK i \in call[q].left :
               call' = [call EXCEPT ![q] = [call[q] EXCEPT !.left = @ \ {i}]]
        BY <2>3 DEF WriteRecord
      <3>2. QED
        BY <1>2, <2>3, <3>1 DEF WriteRecord
    <2>4. QED
      BY <1>9, <2>1, <2>2, <2>3 DEF WriteRecords
  <1>10. CASE TakeStamp(q)
    BY <1>1, <1>4, <1>10 DEF TakeStamp, Stamp, StampFails, Return
  <1>11. CASE SetNewKey(q)
    <2>1. ASSUME NEW k \in Keys, KeyCheck(q, k) PROVE NotModified(p)
      BY <1>0, <2>1 DEF KeyCheck, Enters
    <2>2. CASE Rename(q)
      BY <1>0, <2>2 DEF Rename, Enters, Call
    <2>3. CASE \/ RenameFails(q) \/ OpenBackupFails(q) \/ NewFileFails(q)
               \/ ConvertFails(q)
      BY <1>4, <2>3 DEF RenameFails, OpenBackupFails, NewFileFails, ConvertFails
    <2>4. CASE OpenBackup(q)
      <3>1. call' = [call EXCEPT ![q] = [call[q] EXCEPT
                        !.other = obj[q].key, !.old = "bak", !.pc = "create"]]
        BY <2>4 DEF OpenBackup
      <3>2. QED
        BY <1>2, <2>4, <3>1 DEF OpenBackup
    <2>5. CASE NewFile(q)
      BY <1>5, <2>5 DEF NewFile
    <2>6. CASE NewFileInsecure(q)
      BY <1>1, <2>6 DEF NewFileInsecure, Return
    <2>7. CASE Convert(q)
      <3>1. call[q].pc = "convert" /\ (p # q => call'[p] = call[p])
        BY <1>0, <2>7 DEF Convert
      <3>2. QED
        BY <3>1 DEF Enters
    <2>8. QED
      BY <1>11, <2>1, <2>2, <2>3, <2>4, <2>5, <2>6, <2>7 DEF SetNewKey
  <1>12. CASE ReadRecords(q)
    BY <1>3, <1>12 DEF ReadRecords, Read, ReadFails
  <1>13. CASE Stop(q)
    BY <1>1, <1>13 DEF Stop
  <1>14. QED
    BY <1>6, <1>7, <1>8, <1>9, <1>10, <1>11, <1>12, <1>13 DEF Process

\* Every process that passes notModifiedOrThrow has noticed every foreign
\* modification that happened in a later second than its stamp.
THEOREM ForeignChangesSeen == Spec => SeesForeignChange
  <1> DEFINE Seen == \A p \in Procs : Enters(p) => foreign[p] <= obj[p].stamp
  <1>1. TypeOK /\ MtimeCoversForeign /\ [Next]_vars => [Seen]_vars
    <2> SUFFICES ASSUME TypeOK, MtimeCoversForeign, Next,
                        NEW p \in Procs, Enters(p)
                 PROVE  foreign[p] <= obj[p].stamp
      OBVIOUS
    <2>1. CASE Tick
      BY <2>1 DEF Tick, Enters
    <2>2. ASSUME NEW q \in Procs, Process(q) PROVE NotModified(p)
      BY <2>2, EntersByCheck
    <2>3. QED
      BY <2>1, <2>2 DEF Next, NotModified, MtimeCoversForeign
  <1>2. [Seen]_vars <=> [\A p \in Procs :
            (call[p].pc = "idle" /\ call'[p].pc \in {"trunc", "rename"})
                => foreign[p] <= obj[p].stamp]_vars
    BY DEF Enters
  <1>3. QED
    BY <1>1, <1>2, TypeCorrect, MtimeCorrect, PTL DEF Spec, SeesForeignChange
=============================================================================
