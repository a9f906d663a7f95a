------------------------ MODULE PetFileSingleProofs ------------------------
(***************************************************************************)
(* One process has the file to itself: what the program said is stored can *)
(* always be recovered, a call that returns normally leaves a complete     *)
(* file, and to its caller every member function is a step of RecordStore. *)
(* SingleInv is inductive together with TypeOK, and CallInv on top of both. *)
(***************************************************************************)
EXTENDS PetFileCalls, PetFileProofs

One(p) == ControlInv(p) /\ FileInv(p) /\ PromiseInv(p)

\* Safe depends on the promise and on one file only.
LEMMA SafeMoved ==
    ASSUME NEW m \in Names, NEW n \in Names, disk'[n] = disk[m], promised' = promised
    PROVE  Safe(n)' <=> Safe(m)
  BY DEF Safe, StoresPromised, Loadable, Under, Recs

LEMMA SafeEmpty ==
    ASSUME NEW n \in Names, promised' = {}
    PROVE  Safe(n)'
  BY DEF Safe

\* At every location one of the two files is safe.
LEMMA SomewhereSafe ==
    ASSUME TypeOK, NEW p \in Procs, One(p)
    PROVE  Safe("pet") \/ Safe("bak")
  <1>1. call[p].op \in {"none", "create", "open", "save", "newkey"}
    BY DEF TypeOK, Call
  <1>2. promised = {} => Safe("pet")
    BY DEF Safe
  <1>3. QED
    BY <1>1, <1>2 DEF One, PromiseInv

\* What holds of a process at rest whatever ended its last call.
AtRest(p) == /\ call[p] = Idle
             /\ obj[p].fd \in {"pet", "none"}
             /\ obj[p].raw = "open" => obj[p].fd = "pet"
             /\ Safe("pet") \/ Safe("bak")
             /\ obj[p].raw # "none" /\ NotModified(p)
                  => Safe("pet") \/ obj[p].res \in {"failed", "damaged"}

LEMMA RestKeepsInv ==
    ASSUME NEW p \in Procs, AtRest(p)'
    PROVE  One(p)'
  <1>1. /\ call'[p].op = "none" /\ call'[p].pc = "idle" /\ call'[p].left = {}
        /\ call'[p].batch = {}
    BY DEF AtRest, Idle, At
  <1>2. ControlInv(p)'
    BY <1>1 DEF AtRest, ControlInv, InitLocations
  <1>3. FileInv(p)'
    BY <1>1 DEF FileInv, Fresh, Rewriting, InitLocations
  <1>4. PromiseInv(p)'
    BY <1>1 DEF AtRest, PromiseInv
  <1>5. QED
    BY <1>2, <1>3, <1>4 DEF One

LEMMA ClosedKeepsInv ==
    ASSUME NEW p \in Procs, call'[p] = Closed, obj'[p] = NoObject,
           (Safe("pet") \/ Safe("bak"))'
    PROVE  One(p)'
  <1>1. /\ call'[p].op = "none" /\ call'[p].pc = "closed" /\ call'[p].left = {}
        /\ obj'[p].raw = "none" /\ obj'[p].fd = "none"
    BY DEF Closed, At, NoObject
  <1>2. ControlInv(p)'
    BY <1>1 DEF ControlInv, InitLocations
  <1>3. FileInv(p)'
    BY <1>1 DEF FileInv, Fresh, Rewriting, InitLocations
  <1>4. PromiseInv(p)'
    BY <1>1 DEF PromiseInv
  <1>5. QED
    BY <1>2, <1>3, <1>4 DEF One

\* A step that leaves the files and the promise alone and abandons a
\* constructor.
LEMMA AbandonKeepsInv ==
    ASSUME TypeOK, NEW p \in Procs, One(p), Abandon(p),
           disk' = disk, promised' = promised
    PROVE  One(p)'
  <1>1. call'[p] = Closed /\ obj'[p] = NoObject
    BY DEF Abandon, TypeOK
  <1>2. (Safe("pet") \/ Safe("bak"))'
    BY SomewhereSafe, SafeMoved, Literals
  <1>3. QED
    BY <1>1, <1>2, ClosedKeepsInv

\* An exception leaves a member function.
LEMMA ThrowKeepsInv ==
    ASSUME TypeOK, NEW p \in Procs, One(p),
           NEW res, res = "failed" \/ ~NotModified(p),
           NEW raw \in RawStates, Throw(p, res, raw),
           raw = "open" => obj[p].raw = "open",
           disk' = disk, promised' = promised
    PROVE  One(p)'
  <1>1. call'[p] = Idle /\ obj'[p] = Ended(obj[p], res, raw)
    BY DEF Throw, Return, TypeOK
  <1>2. /\ obj'[p].raw = raw /\ obj'[p].stamp = obj[p].stamp /\ obj'[p].res = res
        /\ obj'[p].fd = IF raw \in {"open", "bad"} THEN obj[p].fd ELSE "none"
    BY <1>1 DEF Ended, WithStream, WithResult, TypeOK, FileObject
  <1>3. obj'[p].fd \in {"pet", "none"} /\ (obj'[p].raw = "open" => obj'[p].fd = "pet")
    BY <1>2 DEF One, ControlInv
  <1>4. (Safe("pet") \/ Safe("bak"))'
    BY SomewhereSafe, SafeMoved, Literals
  <1>5. NotModified(p)' => obj'[p].res = "failed"
    BY <1>2 DEF NotModified
  <1>6. AtRest(p)'
    BY <1>1, <1>3, <1>4, <1>5 DEF AtRest
  <1>7. QED
    BY <1>6, RestKeepsInv

LEMMA FailKeepsInv ==
    ASSUME TypeOK, NEW p \in Procs, One(p),
           NEW raw \in RawStates, Fail(p, raw),
           raw = "open" => obj[p].raw = "open",
           disk' = disk, promised' = promised
    PROVE  One(p)'
  BY AbandonKeepsInv, ThrowKeepsInv DEF Fail

\* The fields of the file "pet" behind an EXCEPT.
LEMMA PetUpdated ==
    ASSUME TypeOK, NEW f, disk' = [disk EXCEPT !["pet"] = f]
    PROVE  disk'["pet"] = f /\ disk'["bak"] = disk["bak"]
  BY Literals DEF TypeOK

LEMMA CallUpdated ==
    ASSUME TypeOK, NEW p \in Procs, NEW c, call' = [call EXCEPT ![p] = c]
    PROVE  call'[p] = c
  BY DEF TypeOK

LEMMA ObjUpdated ==
    ASSUME TypeOK, NEW p \in Procs, NEW o, obj' = [obj EXCEPT ![p] = o]
    PROVE  obj'[p] = o
  BY DEF TypeOK

LEMMA WentTo ==
    ASSUME TypeOK, NEW p \in Procs, NEW pc, Goto(p, pc)
    PROVE  /\ call'[p].pc = pc
           /\ call'[p].op = call[p].op /\ call'[p].old = call[p].old
           /\ call'[p].batch = call[p].batch /\ call'[p].left = call[p].left
           /\ call'[p].other = call[p].other /\ call'[p].lost = call[p].lost
  BY DEF TypeOK, Goto, Call

LEMMA ConstructKeepsInv ==
    ASSUME TypeOK, NEW p \in Procs, One(p), Construct(p)
    PROVE  One(p)'
  <1>1. ASSUME NEW k \in Keys, OpenRaw(p, k) PROVE One(p)'
    <2>1. /\ call'[p] = At("open", "validate")
          /\ obj'[p] = [raw |-> "open", fd |-> "pet", key |-> k,
                        stamp |-> 0, res |-> "none"]
          /\ disk' = disk /\ promised' = promised
      BY <1>1, CallUpdated, ObjUpdated DEF OpenRaw
    <2>2. call'[p].op = "open" /\ call'[p].pc = "validate" /\ call'[p].left = {}
      BY <2>1 DEF At
    <2>3. (Safe("pet") \/ Safe("bak"))'
      BY <2>1, SomewhereSafe, SafeMoved, Literals
    <2>4. ControlInv(p)'
      BY <2>1, <2>2 DEF ControlInv, InitLocations
    <2>5. FileInv(p)'
      BY <2>2 DEF FileInv, Fresh, Rewriting, InitLocations
    <2>6. PromiseInv(p)'
      BY <2>2, <2>3 DEF PromiseInv
    <2>7. QED
      BY <2>4, <2>5, <2>6 DEF One
  <1>2. ASSUME NEW k \in Keys, CreateRaw(p, k) PROVE One(p)'
    <2>1. /\ call'[p] = At("create", "ident")
          /\ obj'[p] = [raw |-> "open", fd |-> "pet", key |-> k,
                        stamp |-> 0, res |-> "none"]
          /\ disk'["pet"] = Empty(k) /\ promised' = {}
      BY <1>2, CallUpdated, ObjUpdated, PetUpdated DEF CreateRaw
    <2>2. /\ call'[p].op = "create" /\ call'[p].pc = "ident"
          /\ call'[p].left = {} /\ call'[p].batch = {}
      BY <2>1 DEF At
    <2>3. ControlInv(p)'
      BY <2>1, <2>2 DEF ControlInv, InitLocations
    <2>4. FileInv(p)'
      BY <2>1, <2>2 DEF FileInv, Fresh, Rewriting, InitLocations, Empty, PartsAt
    <2>5. PromiseInv(p)'
      BY <2>1, <2>2 DEF PromiseInv
    <2>6. QED
      BY <2>3, <2>4, <2>5 DEF One
  <1>3. ASSUME NEW k \in Keys, CreateRawFails(p, k) PROVE One(p)'
    <2>1. /\ call' = call /\ obj' = obj /\ promised' = {} /\ call[p].pc = "closed"
          /\ call[p].op = "none"
      BY <1>3 DEF CreateRawFails, One, ControlInv
    <2>2. ControlInv(p)'
      BY <2>1 DEF One, ControlInv
    <2>3. FileInv(p)'
      BY <2>1 DEF FileInv, Fresh, Rewriting, InitLocations
    <2>4. PromiseInv(p)'
      BY <2>1, SafeEmpty, Literals DEF PromiseInv
    <2>5. QED
      BY <2>2, <2>3, <2>4 DEF One
  <1>4. CASE HeaderAccepted(p)
    <2>1. /\ call'[p].pc = "stamp" /\ call'[p].op = "open" /\ call[p].op = "open"
          /\ call'[p].left = call[p].left
          /\ obj' = obj /\ disk' = disk /\ promised' = promised
          /\ call[p].pc = "validate"
      BY <1>4, WentTo DEF HeaderAccepted, One, ControlInv
    <2>2. ControlInv(p)'
      BY <2>1 DEF One, ControlInv, InitLocations
    <2>3. FileInv(p)'
      BY <2>1 DEF One, FileInv, Fresh, Rewriting, InitLocations
    <2>4. (Safe("pet") \/ Safe("bak"))'
      BY <2>1, SomewhereSafe, SafeMoved, Literals
    <2>5. PromiseInv(p)'
      BY <2>1, <2>4 DEF PromiseInv
    <2>6. QED
      BY <2>2, <2>3, <2>5 DEF One
  <1>5. CASE HeaderRejected(p)
    BY <1>5, AbandonKeepsInv DEF HeaderRejected
  <1>6. QED
    BY <1>1, <1>2, <1>3, <1>4, <1>5 DEF Construct

LEMMA InitializeFileKeepsInv ==
    ASSUME TypeOK, NEW p \in Procs, One(p), InitializeFile(p)
    PROVE  One(p)'
  <1>1. CASE WritePart(p)
    <2>1. /\ call[p].pc \in InitLocations /\ obj[p].fd = "pet" /\ obj[p].raw = "open"
          /\ call[p].op \in {"create", "newkey"}
          /\ obj[p].key \in Keys
      BY <1>1 DEF WritePart, One, ControlInv, TypeOK, FileObject, InitLocations
    <2>2. /\ disk' = [disk EXCEPT !["pet"] = PartWritten(call[p].pc, disk["pet"], obj[p].key)]
          /\ obj' = obj /\ now' = now /\ promised' = promised
      BY <1>1, <2>1, Literals DEF WritePart
    <2>3. /\ call'[p].pc = AfterPart(call[p].op, call[p].pc)
          /\ call'[p].op = call[p].op /\ call'[p].old = call[p].old
          /\ call'[p].left = call[p].left
      BY <1>1, WentTo DEF WritePart
    <2>4. /\ disk'["bak"] = disk["bak"]
          /\ disk'["pet"] = PartWritten(call[p].pc, disk["pet"], obj[p].key)
      BY <2>2, PetUpdated
    <2>5. /\ disk["pet"].exists /\ ~disk["pet"].junk /\ disk["pet"].items = {}
          /\ disk["pet"].parts = PartsAt(call[p].pc)
          /\ disk["pet"] \in FileContent
      BY <2>1, Literals DEF One, FileInv, Fresh, TypeOK
    <2>6. /\ disk'["pet"].exists /\ ~disk'["pet"].junk /\ disk'["pet"].items = {}
          /\ disk'["pet"].parts = PartsAt(call'[p].pc)
          /\ disk'["pet"].mtime = now
          /\ call[p].pc = "header" => disk'["pet"].key = obj[p].key
      <3>1. CASE call[p].pc = "ident"
        BY <2>3, <2>4, <2>5, <3>1 DEF PartWritten, PartsAt, AfterPart, FileContent
      <3>2. CASE call[p].pc = "meta"
        BY <2>3, <2>4, <2>5, <3>2 DEF PartWritten, PartsAt, AfterPart, FileContent
      <3>3. CASE call[p].pc = "header"
        <4>1. call'[p].pc \in {"stamp", "convert"} /\ disk["pet"].parts = 2
          BY <2>3, <2>5, <3>3 DEF AfterPart, PartsAt
        <4>2. disk'["pet"] = [disk["pet"] EXCEPT !.parts = 3, !.key = obj[p].key,
                                                 !.mtime = now]
          BY <2>4, <3>3, <4>1 DEF PartWritten
        <4>3. QED
          BY <2>5, <4>1, <4>2 DEF PartsAt, FileContent
      <3>4. QED
        BY <2>1, <3>1, <3>2, <3>3 DEF InitLocations
    <2>7. \/ call'[p].pc \in {"meta", "header"}
          \/ call[p].pc = "header" /\ call'[p].pc = "stamp" /\ call[p].op = "create"
          \/ call[p].pc = "header" /\ call'[p].pc = "convert" /\ call[p].op = "newkey"
      BY <2>1, <2>3 DEF AfterPart, InitLocations
    <2>8. ControlInv(p)'
      BY <2>1, <2>2, <2>3, <2>7 DEF One, ControlInv, InitLocations
    <2>9. FileInv(p)'
      BY <2>1, <2>2, <2>3, <2>6, <2>7
         DEF One, FileInv, Fresh, Rewriting, InitLocations
    <2>10. PromiseInv(p)'
      <3>1. Safe("bak") => Safe("bak")'
        BY <2>2, <2>4, SafeMoved, Literals
      <3>2. QED
        BY <2>1, <2>2, <2>3, <2>7, <3>1 DEF One, PromiseInv, InitLocations
    <2>11. QED
      BY <2>8, <2>9, <2>10 DEF One
  <1>2. CASE WritePartFails(p)
    BY <1>2, FailKeepsInv, Literals DEF WritePartFails, InitLocations
  <1>3. QED
    BY <1>1, <1>2 DEF InitializeFile

LEMMA SaveKeepsInv ==
    ASSUME TypeOK, NEW p \in Procs, One(p), Save(p)
    PROVE  One(p)'
  <1>1. CASE CheckRefuses(p)
    <2>1. obj[p].raw \in RawStates /\ call[p].op = "none"
      BY <1>1 DEF TypeOK, FileObject, CheckRefuses, One, ControlInv
    <2>2. QED
      BY <1>1, <2>1, ThrowKeepsInv DEF CheckRefuses
  <1>2. ASSUME NEW list \in Lists, SaveCheck(p, list) PROVE One(p)'
    <2>1. /\ call'[p] = [At("save", "trunc") EXCEPT !.batch = list, !.left = list]
          /\ obj'[p] = WithResult(obj[p], "none")
          /\ disk' = disk /\ promised' = promised
          /\ call[p].pc = "idle" /\ obj[p].raw # "none" /\ NotModified(p)
      BY <1>2, CallUpdated, ObjUpdated DEF SaveCheck
    <2>2. /\ call'[p].op = "save" /\ call'[p].pc = "trunc"
          /\ call'[p].left = list /\ call'[p].batch = list
      BY <2>1 DEF At
    <2>3. obj'[p].raw = obj[p].raw /\ obj'[p].fd = obj[p].fd
      BY <2>1 DEF WithResult, TypeOK, FileObject
    <2>4. (Safe("pet") \/ Safe("bak"))'
      BY <2>1, SomewhereSafe, SafeMoved, Literals
    <2>5. ControlInv(p)'
      BY <2>2, <2>3 DEF One, ControlInv, InitLocations
    <2>6. FileInv(p)'
      BY <2>2 DEF FileInv, Fresh, Rewriting, InitLocations
    <2>7. PromiseInv(p)'
      BY <2>2, <2>4 DEF PromiseInv
    <2>8. QED
      BY <2>5, <2>6, <2>7 DEF One
  <1>3. QED
    BY <1>1, <1>2 DEF Save

LEMMA WriteRecordsKeepsInv ==
    ASSUME TypeOK, NEW p \in Procs, One(p), WriteRecords(p)
    PROVE  One(p)'
  <1>0. obj[p] \in FileObject /\ obj[p].raw \in RawStates /\ disk["pet"] \in FileContent
    BY Literals DEF TypeOK, FileObject
  <1>1. CASE Truncate(p)
    <2>1. /\ call[p].pc = "trunc" /\ obj[p].raw = "open" /\ obj[p].fd = "pet"
          /\ call[p].op \in {"save", "newkey"} /\ call[p].left = call[p].batch
          /\ disk["pet"].exists /\ disk["pet"].parts = 3
      BY <1>1, Literals DEF Truncate, One, ControlInv, FileInv, HasHeader
    <2>2. /\ disk' = [disk EXCEPT !["pet"] = [disk["pet"] EXCEPT
                        !.items = {}, !.junk = FALSE, !.mtime = now]]
          /\ now' = now
          /\ promised' = IF call[p].op = "save" THEN {} ELSE promised
      BY <1>1 DEF Truncate
    <2>3. /\ disk'["bak"] = disk["bak"]
          /\ disk'["pet"].exists /\ disk'["pet"].parts = 3 /\ ~disk'["pet"].junk
          /\ disk'["pet"].items = {} /\ disk'["pet"].mtime = now
          /\ disk'["pet"].key = disk["pet"].key
      <3>1. /\ disk'["bak"] = disk["bak"]
            /\ disk'["pet"] = [disk["pet"] EXCEPT !.items = {}, !.junk = FALSE,
                                                 !.mtime = now]
        BY <2>2, PetUpdated
      <3>2. QED
        BY <1>0, <2>1, <3>1 DEF FileContent
    <2>4. /\ call'[p].pc = "reopen" /\ call'[p].op = call[p].op
          /\ call'[p].batch = call[p].batch /\ call'[p].left = call[p].left
          /\ call'[p].lost = call[p].lost
      BY <1>1, WentTo DEF Truncate
    <2>5. /\ obj'[p].raw = "closed" /\ obj'[p].fd = "none"
          /\ obj'[p].key = obj[p].key /\ obj'[p].stamp = obj[p].stamp
      <3>1. obj'[p] = WithStream(obj[p], "closed", "none")
        BY <1>1, ObjUpdated DEF Truncate
      <3>2. QED
        BY <1>0, <3>1 DEF WithStream, FileObject
    <2>6. ControlInv(p)'
      BY <2>1, <2>4, <2>5 DEF ControlInv, InitLocations
    <2>7. FileInv(p)'
      BY <2>1, <2>2, <2>3, <2>4, <2>5
         DEF One, FileInv, Fresh, Rewriting, InitLocations
    <2>8. PromiseInv(p)'
      <3>1. CASE call[p].op = "save"
        BY <2>2, <2>4, <3>1 DEF PromiseInv
      <3>2. CASE call[p].op = "newkey"
        <4>1. Safe("bak")'
          BY <2>1, <2>2, <2>3, <3>2, SafeMoved, Literals DEF One, PromiseInv
        <4>2. QED
          BY <2>4, <3>2, <4>1 DEF PromiseInv
      <3>3. QED
        BY <2>1, <3>1, <3>2
    <2>9. QED
      BY <2>6, <2>7, <2>8 DEF One
  <1>2. CASE ReadHeaderFails(p)
    BY <1>0, <1>2, FailKeepsInv, Literals DEF ReadHeaderFails
  <1>3. CASE TruncateFails(p)
    BY <1>3, FailKeepsInv, Literals DEF TruncateFails
  <1>4. CASE Reopen(p)
    <2>1. /\ call'[p].pc = "write" /\ call'[p].op = call[p].op
          /\ call'[p].batch = call[p].batch /\ call'[p].left = call[p].left
          /\ call'[p].lost = call[p].lost
          /\ call[p].pc = "reopen" /\ call[p].op \in {"save", "newkey"}
      BY <1>4, WentTo DEF Reopen, One, ControlInv
    <2>2. /\ obj'[p].raw = "open" /\ obj'[p].fd = "pet"
          /\ obj'[p].key = obj[p].key /\ obj'[p].stamp = obj[p].stamp
      <3>1. obj'[p] = WithStream(obj[p], "open", "pet")
        BY <1>4, ObjUpdated DEF Reopen
      <3>2. QED
        BY <1>0, <3>1 DEF WithStream, FileObject
    <2>3. disk' = disk /\ now' = now /\ promised' = promised
      BY <1>4 DEF Reopen
    <2>4. ControlInv(p)'
      BY <2>1, <2>2 DEF ControlInv, InitLocations
    <2>5. FileInv(p)'
      BY <2>1, <2>2, <2>3 DEF One, FileInv, Fresh, Rewriting, InitLocations
    <2>6. PromiseInv(p)'
      BY <2>1, <2>2, <2>3 DEF One, PromiseInv, Safe, StoresPromised, Loadable
    <2>7. QED
      BY <2>4, <2>5, <2>6 DEF One
  <1>5. CASE ReopenFails(p)
    BY <1>5, FailKeepsInv, Literals DEF ReopenFails
  <1>6. CASE WriteRecord(p)
    <2>1. /\ call[p].pc = "write" /\ obj[p].raw = "open" /\ obj[p].fd = "pet"
          /\ call[p].op \in {"save", "newkey"}
          /\ disk["pet"].exists /\ ~disk["pet"].junk /\ disk["pet"].parts = 3
          /\ call[p].left \subseteq call[p].batch
          /\ disk["pet"].items = call[p].batch \ call[p].left
      BY <1>6 DEF WriteRecord, One, ControlInv, FileInv, Rewriting
    <2>2. Disturbed(p, "pet") = FALSE
      BY <2>1 DEF Disturbed
    <2>3. PICK i \in call[p].left :
             /\ call' = [call EXCEPT ![p].left = @ \ {i}]
             /\ \/ /\ obj[p].fd \in Names
                   /\ \E j \in {FALSE} \cup {Disturbed(p, obj[p].fd)} :
                        disk' = [disk EXCEPT ![obj[p].fd].items = @ \cup {i},
                                             ![obj[p].fd].mtime = now,
                                             ![obj[p].fd].junk = j]
                \/ obj[p].fd \notin Names /\ disk' = disk
      BY <1>6 DEF WriteRecord
    <2>4. /\ obj' = obj /\ now' = now /\ promised' = promised
      BY <1>6 DEF WriteRecord
    <2>5. /\ call'[p].left = call[p].left \ {i} /\ call'[p].pc = "write"
          /\ call'[p].op = call[p].op /\ call'[p].batch = call[p].batch
          /\ call'[p].lost = call[p].lost
      BY <2>1, <2>3 DEF TypeOK, Call
    <2>6. /\ disk'["bak"] = disk["bak"]
          /\ disk'["pet"].exists /\ ~disk'["pet"].junk /\ disk'["pet"].parts = 3
          /\ disk'["pet"].key = disk["pet"].key /\ disk'["pet"].mtime = now
          /\ disk'["pet"].items = disk["pet"].items \cup {i}
      <3>1. PICK j \in {FALSE} \cup {Disturbed(p, "pet")} :
               disk' = [disk EXCEPT !["pet"].items = @ \cup {i},
                                    !["pet"].mtime = now, !["pet"].junk = j]
        BY <2>1, <2>3, Literals
      <3>2. j = FALSE
        BY <2>2
      <3>3. QED
        BY <1>0, <2>1, <3>1, <3>2, Literals DEF TypeOK, FileContent
    <2>7. disk'["pet"].items = call'[p].batch \ call'[p].left
      BY <2>1, <2>5, <2>6
    <2>8. ControlInv(p)'
      BY <2>1, <2>4, <2>5 DEF ControlInv, InitLocations
    <2>9. FileInv(p)'
      BY <2>1, <2>4, <2>5, <2>6, <2>7
         DEF One, FileInv, Fresh, Rewriting, InitLocations
    <2>10. PromiseInv(p)'
      <3>1. Safe("bak") => Safe("bak")'
        BY <2>4, <2>6, SafeMoved, Literals
      <3>2. QED
        BY <2>1, <2>4, <2>5, <3>1 DEF One, PromiseInv
    <2>11. QED
      BY <2>8, <2>9, <2>10 DEF One
  <1>7. CASE WriteFails(p)
    BY <1>7, FailKeepsInv, Literals DEF WriteFails
  <1>8. CASE Flushed(p)
    <2>1. /\ call'[p].pc = "stamp" /\ call'[p].op = call[p].op
          /\ call'[p].batch = call[p].batch /\ call'[p].left = call[p].left
          /\ call'[p].lost = call[p].lost
          /\ call[p].pc = "write" /\ call[p].op \in {"save", "newkey"}
          /\ call[p].left = {}
          /\ obj' = obj /\ disk' = disk /\ now' = now /\ promised' = promised
      BY <1>8, WentTo DEF Flushed, One, ControlInv
    <2>2. ControlInv(p)'
      BY <2>1 DEF One, ControlInv, InitLocations
    <2>3. FileInv(p)'
      BY <2>1 DEF One, FileInv, Fresh, Rewriting, InitLocations
    <2>4. PromiseInv(p)'
      BY <2>1 DEF One, PromiseInv, Safe, StoresPromised, Loadable
    <2>5. QED
      BY <2>2, <2>3, <2>4 DEF One
  <1>9. QED
    BY <1>1, <1>2, <1>3, <1>4, <1>5, <1>6, <1>7, <1>8 DEF WriteRecords

\* Whatever the call was, the file holds the promise when the stamp is taken,
\* but for a key change that lost records.
LEMMA StampSafe ==
    ASSUME TypeOK, NEW p \in Procs, One(p), Stamp(p)
    PROVE  Safe("pet")' \/ (Safe("bak")' /\ obj'[p].res = "damaged")
  <1>1. /\ call[p].op \in {"create", "open", "save", "newkey"}
        /\ call[p].pc = "stamp" /\ call[p].left = {}
        /\ disk' = disk /\ promised' = Promise(p)
    BY DEF Stamp, One, ControlInv, FileInv, TypeOK, Call
  <1>2. CASE call[p].op = "create"
    BY <1>1, <1>2 DEF One, PromiseInv, Promise, Safe
  <1>3. CASE call[p].op = "open"
    <2>1. CASE Loadable("pet")
      BY <1>1, <1>3, <2>1 DEF Promise, Safe, StoresPromised, Loadable
    <2>2. CASE ~Loadable("pet")
      BY <1>1, <1>3, <2>2 DEF Promise, Safe
    <2>3. QED
      BY <2>1, <2>2
  <1>4. CASE call[p].op \in {"save", "newkey"}
    <2>1. /\ disk["pet"].exists /\ ~disk["pet"].junk /\ disk["pet"].parts = 3
          /\ disk["pet"].items = call[p].batch
      BY <1>1, <1>4 DEF One, FileInv, Rewriting
    <2>2. CASE call[p].op = "save"
      BY <1>1, <2>1, <2>2 DEF Promise, Safe, StoresPromised, Loadable
    <2>3. CASE call[p].op = "newkey" /\ ~call[p].lost
      BY <1>1, <2>1, <2>3 DEF One, FileInv, Promise, Safe, StoresPromised, Loadable
    <2>4. CASE call[p].op = "newkey" /\ call[p].lost
      <3>1. promised' = promised /\ Safe("bak")
        BY <1>1, <2>4 DEF Promise, One, PromiseInv
      <3>2. obj'[p].res = "damaged"
        BY <2>4 DEF Stamp, ResultOf, WithResult, TypeOK, FileObject
      <3>3. QED
        BY <1>1, <3>1, <3>2, SafeMoved, Literals
    <2>5. QED
      BY <1>4, <2>2, <2>3, <2>4
  <1>5. QED
    BY <1>1, <1>2, <1>3, <1>4

LEMMA TakeStampKeepsInv ==
    ASSUME TypeOK, NEW p \in Procs, One(p), TakeStamp(p)
    PROVE  One(p)'
  <1>0. obj[p] \in FileObject /\ obj[p].raw \in RawStates
    BY DEF TypeOK, FileObject
  <1>1. CASE Stamp(p)
    <2>1. call'[p] = Idle
      BY <1>1, CallUpdated DEF Stamp, Return
    <2>2. obj'[p].raw = obj[p].raw /\ obj'[p].fd = obj[p].fd
      BY <1>0, <1>1, ObjUpdated DEF Stamp, WithResult, FileObject
    <2>3. AtRest(p)'
      BY <1>1, <2>1, <2>2, StampSafe DEF AtRest, One, ControlInv
    <2>4. QED
      BY <2>3, RestKeepsInv
  <1>2. CASE StampFails(p)
    BY <1>0, <1>2, FailKeepsInv DEF StampFails
  <1>3. QED
    BY <1>1, <1>2 DEF TakeStamp

\* What encrypting a record again makes of it.
LEMMA ReencryptedOwn ==
    ASSUME NEW i \in Items, NEW new, NEW old, i.key = old
    PROVE  Reencrypted(i, old, new).key = new
  BY DEF Reencrypted, Items

LEMMA RecsReencrypted ==
    ASSUME NEW items \in SUBSET Items, NEW old, NEW new
    PROVE  Recs({Reencrypted(i, old, new) : i \in items}) = Recs(items)
  <1>1. \A i \in items : Reencrypted(i, old, new).rec = i.rec
    BY DEF Reencrypted, Items
  <1>2. QED
    BY <1>1 DEF Recs

\* What a conversion of these records does to the call.
Converted(p, items) ==
    LET new == {Reencrypted(i, call[p].other, obj[p].key) : i \in items} IN
    /\ call'[p].batch = new /\ call'[p].left = new /\ call'[p].pc = "trunc"
    /\ call'[p].op = call[p].op /\ call'[p].old = call[p].old /\ call'[p].other = call[p].other
    /\ call'[p].lost \in BOOLEAN
    /\ call'[p].lost <=> ~(ReadsAll(call[p].old, items) /\ Under(items, call[p].other))

LEMMA ConvertIs ==
    ASSUME NEW p \in Procs, TypeOK, Convert(p)
    PROVE  \E items \in ReadsOf(call[p].old) : Converted(p, items)
  <1>1. PICK items \in ReadsOf(call[p].old) :
           LET new == {Reencrypted(i, call[p].other, obj[p].key) : i \in items} IN
           call' = [call EXCEPT ![p].batch = new, ![p].left = new, ![p].pc = "trunc",
                                ![p].lost  = ~(ReadsAll(call[p].old, items)
                                               /\ Under(items, call[p].other))]
    BY Zenon DEF Convert
  <1> DEFINE new  == {Reencrypted(i, call[p].other, obj[p].key) : i \in items}
             lost == ~(ReadsAll(call[p].old, items) /\ Under(items, call[p].other))
  <1>2. call' = [call EXCEPT ![p].batch = new, ![p].left = new, ![p].pc = "trunc",
                             ![p].lost  = lost]
    BY <1>1, Zenon
  <1>3. lost \in BOOLEAN /\ (lost <=> ~(ReadsAll(call[p].old, items) /\ Under(items, call[p].other)))
    OBVIOUS
  <1>4. call \in [Procs -> Call] /\ call[p] \in Call
    BY DEF TypeOK
  <1> HIDE DEF lost
  <1>5. /\ call'[p].batch = new /\ call'[p].left = new /\ call'[p].pc = "trunc"
        /\ call'[p].op = call[p].op /\ call'[p].old = call[p].old /\ call'[p].other = call[p].other
        /\ call'[p].lost = lost
    <2> HIDE DEF new
    <2> QED BY <1>2, <1>4 DEF Call
  <1>6. Converted(p, items)
    BY <1>3, <1>5 DEF Converted
  <1> QED BY <1>6

LEMMA SetNewKeyKeepsInv ==
    ASSUME TypeOK, NEW p \in Procs, One(p), SetNewKey(p)
    PROVE  One(p)'
  <1>0. /\ obj[p] \in FileObject /\ obj[p].raw \in RawStates /\ obj[p].stamp \in Nat
        /\ now \in Nat /\ disk["pet"].mtime \in Nat /\ call[p] \in Call
    BY Literals, MaxTimeAssumption DEF TypeOK, FileObject, FileContent, Time
  <1>1. ASSUME NEW k \in Keys, KeyCheck(p, k) PROVE One(p)'
    <2>1. /\ call'[p] = [At("newkey", "rename") EXCEPT !.other = k]
          /\ obj'[p] = WithResult(WithStream(obj[p], "none", "none"), "none")
          /\ disk' = disk /\ now' = now
          /\ promised' = IF Deceived(p) THEN {} ELSE promised
          /\ call[p].pc = "idle" /\ call[p].op = "none"
          /\ obj[p].raw # "none" /\ NotModified(p)
      BY <1>1, CallUpdated, ObjUpdated DEF KeyCheck, One, ControlInv
    <2>2. /\ call'[p].op = "newkey" /\ call'[p].pc = "rename"
          /\ call'[p].left = {} /\ call'[p].batch = {}
      BY <2>1 DEF At
    <2>3. /\ obj'[p].raw = "none" /\ obj'[p].fd = "none"
          /\ obj'[p].stamp = obj[p].stamp
      BY <1>0, <2>1 DEF WithResult, WithStream, FileObject
    <2>4. Safe("pet")'
      <3>1. CASE promised' = {}
        BY <3>1 DEF Safe
      <3>2. CASE promised' = promised /\ ~Deceived(p)
        <4>1. Safe("pet")
          BY <2>1, <3>2 DEF One, PromiseInv, Deceived, Safe
        <4>2. QED
          BY <2>1, <3>2, <4>1, SafeMoved, Literals
      <3>3. QED
        BY <2>1, <3>1, <3>2
    <2>6. ControlInv(p)'
      BY <2>2, <2>3 DEF ControlInv, InitLocations
    <2>7. FileInv(p)'
      BY <2>2 DEF FileInv, Fresh, Rewriting, InitLocations
    <2>8. PromiseInv(p)'
      BY <2>2, <2>4 DEF PromiseInv
    <2>9. QED
      BY <2>6, <2>7, <2>8 DEF One
  <1>2. CASE Rename(p)
    <2>1. /\ call[p].pc = "rename" /\ call[p].op = "newkey" /\ obj[p].fd = "none"
          /\ now' = now /\ promised' = promised
      BY <1>2 DEF Rename, One, ControlInv
    <2>2. disk'["bak"] = disk["pet"] /\ disk'["pet"] = Absent
      BY <1>2, Literals DEF Rename
    <2>3. /\ call'[p].pc = "openbak" /\ call'[p].op = call[p].op
          /\ call'[p].left = call[p].left /\ call'[p].batch = call[p].batch
      BY <1>0, <1>2 DEF Rename, Call
    <2>4. /\ obj'[p].raw = obj[p].raw /\ obj'[p].stamp = obj[p].stamp
          /\ obj'[p].fd = "none"
      BY <1>0, <1>2, <2>1 DEF Rename, FileObject, FollowRename
    <2>5. Safe("bak")'
      BY <2>1, <2>2, SafeMoved, Literals DEF One, PromiseInv
    <2>6. ControlInv(p)'
      BY <2>1, <2>3, <2>4 DEF One, ControlInv, InitLocations
    <2>7. FileInv(p)'
      BY <2>1, <2>2, <2>3 DEF FileInv, Fresh, Rewriting, InitLocations, Absent
    <2>8. PromiseInv(p)'
      BY <2>1, <2>3, <2>4, <2>5 DEF One, PromiseInv
    <2>9. QED
      BY <2>6, <2>7, <2>8 DEF One
  <1>3. CASE RenameFails(p)
    BY <1>3, FailKeepsInv, Literals DEF RenameFails
  <1>4. CASE OpenBackup(p)
    <2>1. /\ call[p].pc = "openbak" /\ call[p].op = "newkey"
          /\ disk' = disk /\ now' = now /\ promised' = promised
      BY <1>4 DEF OpenBackup, One, ControlInv
    <2>2. /\ call'[p].pc = "create" /\ call'[p].op = "newkey" /\ call'[p].old = "bak"
          /\ call'[p].left = call[p].left
      BY <1>0, <1>4, <2>1 DEF OpenBackup, TypeOK, Call
    <2>3. /\ obj'[p].raw = obj[p].raw /\ obj'[p].fd = obj[p].fd
          /\ obj'[p].stamp = obj[p].stamp
      BY <1>0, <1>4 DEF OpenBackup, TypeOK, FileObject
    <2>4. ControlInv(p)'
      BY <2>1, <2>2, <2>3 DEF One, ControlInv, InitLocations
    <2>5. FileInv(p)'
      BY <2>1, <2>2 DEF One, FileInv, Fresh, Rewriting, InitLocations
    <2>6. PromiseInv(p)'
      BY <2>1, <2>2, <2>3
         DEF One, PromiseInv, Safe, StoresPromised, Loadable
    <2>7. QED
      BY <2>4, <2>5, <2>6 DEF One
  <1>5. CASE OpenBackupFails(p)
    BY <1>5, FailKeepsInv, Literals DEF OpenBackupFails
  <1>6. ASSUME call[p].pc = "create", disk' = [disk EXCEPT !["pet"] = Empty(obj[p].key)],
               now' = now, promised' = promised
        PROVE  /\ call[p].op = "newkey" /\ call[p].old = "bak"
               /\ disk'["bak"] = disk["bak"]
               /\ disk'["pet"].exists /\ disk'["pet"].parts = 0 /\ ~disk'["pet"].junk
               /\ disk'["pet"].items = {} /\ disk'["pet"].mtime = now
               /\ Safe("bak")'
    <2>1. call[p].op = "newkey" /\ call[p].old = "bak"
      BY <1>6 DEF One, ControlInv, InitLocations
    <2>2. disk'["bak"] = disk["bak"] /\ disk'["pet"] = Empty(obj[p].key)
      BY <1>6, PetUpdated
    <2>3. Safe("bak")'
      BY <1>6, <2>1, <2>2, SafeMoved, Literals DEF One, PromiseInv
    <2>4. QED
      BY <2>1, <2>2, <2>3 DEF Empty
  <1>7. CASE NewFile(p)
    <2>1. /\ call[p].pc = "create" /\ now' = now /\ promised' = promised
          /\ disk' = [disk EXCEPT !["pet"] = Empty(obj[p].key)]
      BY <1>7 DEF NewFile
    <2>2. /\ call'[p].pc = "ident" /\ call'[p].op = call[p].op
          /\ call'[p].old = call[p].old /\ call'[p].left = call[p].left
      BY <1>7, WentTo DEF NewFile
    <2>3. obj'[p] = WithStream(obj[p], "open", "pet")
      BY <1>7, ObjUpdated DEF NewFile
    <2>4. obj'[p].raw = "open" /\ obj'[p].fd = "pet" /\ obj'[p].stamp = obj[p].stamp
      BY <1>0, <2>3 DEF WithStream, FileObject
    <2>5. ControlInv(p)'
      BY <1>6, <2>1, <2>2, <2>4 DEF ControlInv, InitLocations
    <2>6. FileInv(p)'
      BY <1>6, <2>1, <2>2 DEF FileInv, Fresh, Rewriting, InitLocations, PartsAt
    <2>7. PromiseInv(p)'
      BY <1>6, <2>1, <2>2, <2>4 DEF PromiseInv
    <2>8. QED
      BY <2>5, <2>6, <2>7 DEF One
  <1>8. CASE NewFileFails(p)
    BY <1>8, FailKeepsInv, Literals DEF NewFileFails
  <1>9. CASE NewFileInsecure(p)
    <2>1. /\ call[p].pc = "create" /\ now' = now /\ promised' = promised
          /\ disk' = [disk EXCEPT !["pet"] = Empty(obj[p].key)]
      BY <1>9 DEF NewFileInsecure
    <2>2. call'[p] = Idle
      BY <1>9, CallUpdated DEF NewFileInsecure, Return
    <2>3. obj'[p] = WithResult(WithStream(obj[p], "open", "pet"), "failed")
      BY <1>9, ObjUpdated DEF NewFileInsecure
    <2>4. obj'[p].fd = "pet" /\ obj'[p].res = "failed"
      BY <1>0, <2>3 DEF WithResult, WithStream, FileObject
    <2>5. AtRest(p)'
      BY <1>6, <2>1, <2>2, <2>4 DEF AtRest
    <2>6. QED
      BY <2>5, RestKeepsInv
  <1>10. CASE Convert(p)
    <2>1. /\ call[p].pc = "convert" /\ call[p].op = "newkey" /\ call[p].old = "bak"
          /\ obj' = obj /\ disk' = disk /\ now' = now /\ promised' = promised
      BY <1>10 DEF Convert, One, ControlInv
    <2>2. PICK items \in ReadsOf("bak") : Converted(p, items)
      BY <1>10, <2>1, ConvertIs
    <2> DEFINE new == {Reencrypted(i, call[p].other, obj[p].key) : i \in items}
    <2>3. /\ call'[p].batch = new /\ call'[p].left = new
          /\ call'[p].pc = "trunc" /\ call'[p].op = "newkey"
          /\ call'[p].lost <=> ~(ReadsAll("bak", items) /\ Under(items, call[p].other))
      BY <2>1, <2>2 DEF Converted
    <2>4. items \subseteq Items
      BY <2>2, ReadsType, Literals
    <2>5. ASSUME ~call'[p].lost
          PROVE  Under(new, obj[p].key) /\ promised \subseteq Recs(new)
      <3>1. items = disk["bak"].items /\ Under(items, call[p].other)
        BY <2>3, <2>5 DEF ReadsAll
      <3>2. Under(new, obj[p].key)
        BY <2>4, <3>1, ReencryptedOwn DEF Under
      <3>3. Recs(new) = Recs(items)
        BY <2>4, RecsReencrypted
      <3>4. Safe("bak")
        BY <2>1 DEF One, PromiseInv
      <3>5. promised \subseteq Recs(items)
        BY <3>1, <3>4 DEF Safe, StoresPromised
      <3>6. QED
        BY <3>2, <3>3, <3>5
    <2>6. /\ disk["pet"].exists /\ disk["pet"].parts = 3
          /\ disk["pet"].key = obj[p].key
      BY <2>1 DEF One, FileInv, Fresh, PartsAt
    <2> HIDE DEF new
    <2>7. ControlInv(p)'
      BY <2>1, <2>3 DEF One, ControlInv, InitLocations
    <2>8. FileInv(p)'
      BY <2>1, <2>3, <2>5, <2>6 DEF FileInv, Fresh, Rewriting, InitLocations
    <2>9. PromiseInv(p)'
      BY <2>1, <2>3 DEF One, PromiseInv, Safe, StoresPromised, Loadable
    <2>10. QED
      BY <2>7, <2>8, <2>9 DEF One
  <1>11. CASE ConvertFails(p)
    BY <1>11, FailKeepsInv, Literals DEF ConvertFails, One, ControlInv
  <1>12. QED
    BY <1>1, <1>2, <1>3, <1>4, <1>5, <1>7, <1>8, <1>9, <1>10, <1>11 DEF SetNewKey

LEMMA ReadRecordsKeepsInv ==
    ASSUME TypeOK, NEW p \in Procs, One(p), ReadRecords(p)
    PROVE  One(p)'
  <1>1. CASE Read(p)
    <2>1. /\ call[p].pc = "idle" /\ call[p].op = "none" /\ obj[p].fd = "pet"
          /\ call' = call /\ disk' = disk /\ promised' = promised
      BY <1>1 DEF Read, One, ControlInv
    <2>2. /\ obj'[p].raw # "none" /\ obj[p].raw = "open" /\ obj'[p].fd = obj[p].fd
          /\ obj'[p].stamp = obj[p].stamp /\ obj'[p].res = obj[p].res
      <3>1. PICK raw \in {"open", "bad"} : obj'[p] = WithStream(obj[p], raw, obj[p].fd)
        BY <1>1 DEF Read, TypeOK
      <3>2. QED
        BY <1>1, <3>1 DEF Read, WithStream, TypeOK, FileObject
    <2>3. ControlInv(p)' /\ FileInv(p)'
      BY <2>1, <2>2
         DEF One, ControlInv, FileInv, Fresh, Rewriting, InitLocations
    <2>4. PromiseInv(p)'
      BY <2>1, <2>2
         DEF One, PromiseInv, NotModified, Safe, StoresPromised, Loadable
    <2>5. QED
      BY <2>3, <2>4 DEF One
  <1>2. CASE ReadFails(p)
    <2>1. /\ call[p].pc = "idle" /\ call[p].op = "none" /\ obj[p].raw = "open"
          /\ call' = call /\ disk' = disk /\ now' = now /\ promised' = promised
      BY <1>2 DEF ReadFails, One, ControlInv
    <2>2. /\ obj'[p].raw = "bad" /\ obj'[p].fd = obj[p].fd
          /\ obj'[p].stamp = obj[p].stamp /\ obj'[p].res = obj[p].res
      <3>1. obj'[p] = WithStream(obj[p], "bad", obj[p].fd)
        BY <1>2, ObjUpdated DEF ReadFails
      <3>2. QED
        BY <3>1 DEF WithStream, TypeOK, FileObject
    <2>3. ControlInv(p)' /\ FileInv(p)'
      BY <2>1, <2>2
         DEF One, ControlInv, FileInv, Fresh, Rewriting, InitLocations
    <2>4. PromiseInv(p)'
      BY <2>1, <2>2
         DEF One, PromiseInv, NotModified, Safe, StoresPromised, Loadable
    <2>5. QED
      BY <2>3, <2>4 DEF One
  <1>3. QED
    BY <1>1, <1>2 DEF ReadRecords

LEMMA StopKeepsInv ==
    ASSUME TypeOK, NEW p \in Procs, One(p), Stop(p)
    PROVE  One(p)'
  <1>1. call'[p] = Closed /\ obj'[p] = NoObject
    BY CallUpdated, ObjUpdated DEF Stop
  <1>2. (Safe("pet") \/ Safe("bak"))'
    BY SomewhereSafe, SafeMoved, Literals DEF Stop
  <1>3. QED
    BY <1>1, <1>2, ClosedKeepsInv

LEMMA QuietKeepsInv ==
    ASSUME TypeOK, NEW p \in Procs, One(p), Tick \/ UNCHANGED vars
    PROVE  One(p)'
  <1>1. /\ disk' = disk /\ obj' = obj /\ call' = call /\ promised' = promised
        /\ now \in Nat /\ obj[p].stamp \in Nat /\ now' \in {now, now + 1}
    BY MaxTimeAssumption DEF Tick, vars, TypeOK, FileObject, Time
  <1>2. ControlInv(p)' /\ FileInv(p)'
    BY <1>1 DEF One, ControlInv, FileInv, Fresh, Rewriting, Under, Recs
  <1>3. PromiseInv(p)'
    BY <1>1 DEF One, PromiseInv, NotModified, Safe, StoresPromised, Loadable
  <1>4. QED
    BY <1>2, <1>3 DEF One

LEMMA NextKeepsInv ==
    ASSUME TypeOK, NEW p \in Procs, Procs = {p}, One(p), [Next]_vars
    PROVE  One(p)'
  <1>1. CASE Tick \/ UNCHANGED vars
    BY <1>1, QuietKeepsInv
  <1>2. CASE Process(p)
    BY <1>2, ConstructKeepsInv, InitializeFileKeepsInv, SaveKeepsInv,
       WriteRecordsKeepsInv, TakeStampKeepsInv, SetNewKeyKeepsInv,
       ReadRecordsKeepsInv, StopKeepsInv DEF Process
  <1>3. QED
    BY <1>1, <1>2 DEF Next

LEMMA InitOne ==
    ASSUME Init, NEW p \in Procs
    PROVE  One(p)
  <1>1. /\ call[p].op = "none" /\ call[p].pc = "closed" /\ call[p].left = {}
        /\ obj[p].raw = "none" /\ obj[p].fd = "none" /\ promised = {}
    BY DEF Init, Closed, At, NoObject
  <1>2. ControlInv(p)
    BY <1>1 DEF ControlInv, InitLocations
  <1>3. FileInv(p)
    BY <1>1 DEF FileInv, Fresh, Rewriting, InitLocations
  <1>4. PromiseInv(p)
    BY <1>1 DEF PromiseInv, Safe
  <1>5. QED
    BY <1>2, <1>3, <1>4 DEF One

\* A single process: the inductive invariant.
THEOREM SingleCorrect ==
    ASSUME NEW p \in Procs, Procs = {p}
    PROVE  Spec => []SingleInv
  <1>1. SingleInv <=> One(p)
    BY DEF SingleInv, One
  <1>2. Init => One(p)
    BY InitOne
  <1>3. TypeOK /\ One(p) /\ [Next]_vars => One(p)'
    BY NextKeepsInv
  <1>4. QED
    BY <1>1, <1>2, <1>3, TypeCorrect, PTL DEF Spec

\* A single process: after every step, and so after every crash, the records
\* the program last said are stored can be loaded from the file or its backup.
THEOREM PromiseKept ==
    ASSUME NEW p \in Procs, Procs = {p}
    PROVE  Spec => []PromiseRecoverable
  <1>1. TypeOK /\ SingleInv => PromiseRecoverable
    <2> SUFFICES ASSUME TypeOK, SingleInv PROVE PromiseRecoverable
      OBVIOUS
    <2>1. One(p)
      BY DEF SingleInv, One
    <2>2. QED
      BY <2>1, SomewhereSafe, Literals DEF PromiseRecoverable, Safe
  <1>2. QED
    BY <1>1, TypeCorrect, SingleCorrect, PTL

-----------------------------------------------------------------------------
(***************************************************************************)
(* What a member function leaves behind that returns normally.  Given the  *)
(* inductive invariant, SuccessIsComplete is inductive: Stamp is the only  *)
(* step that reports success, and afterwards the object only reads.        *)
(***************************************************************************)
Complete(p) ==
    LET pet == disk["pet"] IN
    (call[p].pc = "idle" /\ obj[p].res \in {"created", "saved", "rekeyed", "damaged"})
    => /\ pet.exists /\ pet.parts = 3 /\ ~pet.junk
       /\ pet.mtime = obj[p].stamp
       /\ obj[p].res # "damaged" /\ Under(pet.items, pet.key)
            => promised \subseteq Recs(pet.items)
       /\ obj[p].res = "saved" /\ Under(pet.items, pet.key)
            => promised = Recs(pet.items)
       /\ obj[p].res \in {"rekeyed", "damaged"} => pet.key = obj[p].key
       /\ obj[p].res = "rekeyed" => Loadable("pet")
       /\ obj[p].res = "damaged" => promised = {} \/ StoresPromised("bak")

LEMMA StampCompletes ==
    ASSUME TypeOK, NEW p \in Procs, One(p), Stamp(p)
    PROVE  Complete(p)'
  <1> DEFINE pet == disk["pet"]
  <1>1. /\ call[p].pc = "stamp" /\ pet.exists /\ disk' = disk
        /\ promised' = Promise(p) /\ call[p].left = {}
    BY DEF Stamp, One, FileInv
  <1>2. obj'[p].res = ResultOf(call[p]) /\ obj'[p].stamp = pet.mtime
        /\ obj'[p].key = obj[p].key
    BY DEF Stamp, WithResult, TypeOK, FileObject
  <1>3. CASE call[p].op = "create"
    <2>1. pet.parts = 3 /\ ~pet.junk /\ promised = {}
      BY <1>1, <1>3 DEF One, FileInv, PromiseInv, Fresh, PartsAt
    <2>2. promised' = {} /\ obj'[p].res = "created"
      BY <1>1, <1>2, <1>3, <2>1 DEF Promise, ResultOf
    <2> QED BY <1>1, <1>2, <2>1, <2>2 DEF Complete
  <1>4. CASE call[p].op = "open"
    <2>1. obj'[p].res = "opened"
      BY <1>2, <1>4 DEF ResultOf
    <2> QED BY <2>1 DEF Complete
  <1>5. CASE call[p].op \in {"save", "newkey"}
    <2>1. pet.parts = 3 /\ ~pet.junk /\ pet.items = call[p].batch
      BY <1>1, <1>5 DEF One, FileInv, Rewriting
    <2>2. CASE call[p].op = "save"
      <3>1. obj'[p].res = "saved"
            /\ (Under(pet.items, pet.key) => promised' = Recs(pet.items))
        BY <1>1, <1>2, <2>1, <2>2 DEF ResultOf, Promise
      <3> QED BY <1>1, <1>2, <2>1, <3>1 DEF Complete
    <2>3. CASE call[p].op = "newkey" /\ ~call[p].lost
      <3>1. /\ obj'[p].res = "rekeyed" /\ promised' = promised
            /\ pet.key = obj[p].key /\ Under(pet.items, pet.key)
            /\ promised \subseteq Recs(pet.items)
        BY <1>1, <1>2, <2>1, <2>3 DEF ResultOf, Promise, One, FileInv
      <3> QED BY <1>1, <1>2, <2>1, <3>1 DEF Complete, Loadable
    <2>4. CASE call[p].op = "newkey" /\ call[p].lost
      <3>1. /\ obj'[p].res = "damaged" /\ promised' = promised
            /\ pet.key = obj[p].key /\ Safe("bak")
        BY <1>1, <1>2, <2>4 DEF ResultOf, Promise, One, FileInv, PromiseInv
      <3>2. promised' = {} \/ StoresPromised("bak")'
        BY <1>1, <3>1, SafeMoved, Literals DEF Safe
      <3> QED BY <1>1, <1>2, <2>1, <3>1, <3>2 DEF Complete
    <2> QED BY <1>5, <2>2, <2>3, <2>4
  <1>6. call[p].op \in {"create", "open", "save", "newkey"}
    BY <1>1 DEF One, ControlInv, TypeOK, Call
  <1> QED BY <1>3, <1>4, <1>5, <1>6

\* A call that goes on, that fails or that is no longer there reports nothing.
LEMMA OthersReportNothing ==
    ASSUME TypeOK, NEW p \in Procs, Procs = {p}, One(p), Process(p),
           ~Stamp(p), ~ReadRecords(p)
    PROVE  call'[p].pc = "idle" => obj'[p].res \in {"refused", "failed"}
  <1>1. ASSUME NEW raw, NEW res, Throw(p, res, raw)
        PROVE  obj'[p].res = res
    BY <1>1 DEF Throw, Ended, WithResult, WithStream, TypeOK, FileObject
  <1>2. ASSUME Abandon(p)
        PROVE  call'[p].pc = "closed"
    BY <1>2 DEF Abandon, Closed, At, TypeOK, Call
  <1>3. ASSUME NEW raw, Fail(p, raw)
        PROVE  call'[p].pc = "idle" => obj'[p].res = "failed"
    BY <1>1, <1>2, <1>3 DEF Fail
  <1>4. ASSUME NEW pc \in Locations \ {"idle"}, Goto(p, pc)
        PROVE  call'[p].pc # "idle"
    BY <1>4 DEF Goto, TypeOK, Call
  <1>5. CASE Construct(p)
    <2>1. ASSUME NEW k \in Keys, OpenRaw(p, k) \/ CreateRaw(p, k) \/ CreateRawFails(p, k)
          PROVE  call'[p].pc # "idle"
      BY <2>1 DEF OpenRaw, CreateRaw, CreateRawFails, At, TypeOK, Call
    <2> QED BY <1>2, <1>4, <1>5, <2>1 DEF Construct, HeaderAccepted, HeaderRejected, Locations
  <1>6. CASE InitializeFile(p)
    <2>1. CASE WritePart(p)
      <3>1. AfterPart(call[p].op, call[p].pc) \in Locations \ {"idle"}
        BY <2>1 DEF WritePart, InitLocations, AfterPart, Locations
      <3> QED BY <1>4, <2>1, <3>1 DEF WritePart
    <2> QED BY <1>3, <1>6, <2>1 DEF InitializeFile, WritePartFails
  <1>7. CASE Save(p)
    <2>1. ASSUME NEW list \in Lists, SaveCheck(p, list)
          PROVE  call'[p].pc # "idle"
      BY <2>1 DEF SaveCheck, At, TypeOK, Call
    <2> QED BY <1>1, <1>7, <2>1 DEF Save, CheckRefuses
  <1>8. CASE WriteRecords(p)
    <2>1. ASSUME WriteRecord(p)
          PROVE  call'[p].pc # "idle"
      BY <2>1 DEF WriteRecord, TypeOK, Call
    <2> QED BY <1>3, <1>4, <1>8, <2>1
            DEF WriteRecords, Truncate, ReadHeaderFails, TruncateFails, Reopen, ReopenFails,
                WriteFails, Flushed, Locations
  <1>9. CASE TakeStamp(p)
    BY <1>3, <1>9 DEF TakeStamp, StampFails
  <1>10. CASE SetNewKey(p)
    <2>1. ASSUME NEW k \in Keys, KeyCheck(p, k)
          PROVE  call'[p].pc # "idle"
      BY <2>1 DEF KeyCheck, At, TypeOK, Call
    <2>2. ASSUME Rename(p) \/ OpenBackup(p) \/ Convert(p)
          PROVE  call'[p].pc # "idle"
      <3>1. call \in [Procs -> Call] /\ call[p] \in Call
        BY DEF TypeOK
      <3>2. CASE Rename(p)
        BY <3>1, <3>2 DEF Rename, Call
      <3>3. CASE OpenBackup(p)
        BY <3>1, <3>3 DEF OpenBackup, Call
      <3>4. CASE Convert(p)
        BY <3>4, ConvertIs DEF Converted
      <3> QED BY <2>2, <3>2, <3>3, <3>4
    <2>3. ASSUME NewFileInsecure(p)
          PROVE  obj'[p].res = "failed"
      BY <2>3 DEF NewFileInsecure, WithResult, WithStream, TypeOK, FileObject
    <2> QED BY <1>3, <1>4, <1>10, <2>1, <2>2, <2>3
            DEF SetNewKey, RenameFails, OpenBackupFails, NewFile, NewFileFails, ConvertFails,
                Locations
  <1>11. CASE Stop(p)
    BY <1>11 DEF Stop, Closed, At, TypeOK, Call
  <1> QED BY <1>5, <1>6, <1>7, <1>8, <1>9, <1>10, <1>11 DEF Process

LEMMA ReadingKeepsComplete ==
    ASSUME TypeOK, NEW p \in Procs, One(p), Complete(p), ReadRecords(p)
    PROVE  Complete(p)'
  <1>1. /\ UNCHANGED <<disk, call, promised>>
        /\ \E raw : obj'[p] = WithStream(obj[p], raw, obj[p].fd)
    BY DEF ReadRecords, Read, ReadFails, TypeOK
  <1>2. obj'[p].res = obj[p].res /\ obj'[p].stamp = obj[p].stamp /\ obj'[p].key = obj[p].key
    BY <1>1 DEF WithStream, TypeOK, FileObject
  <1>3. Loadable("pet")' = Loadable("pet") /\ StoresPromised("bak")' = StoresPromised("bak")
    BY <1>1 DEF Loadable, StoresPromised
  <1> QED BY <1>1, <1>2, <1>3 DEF Complete

LEMMA NextKeepsComplete ==
    ASSUME TypeOK, NEW p \in Procs, Procs = {p}, One(p), Complete(p), [Next]_vars
    PROVE  Complete(p)'
  <1>1. CASE Tick \/ UNCHANGED vars
    <2>1. UNCHANGED <<disk, obj, call, promised>>
      BY <1>1 DEF Tick, vars
    <2> QED BY <2>1 DEF Complete, Loadable, StoresPromised
  <1>2. CASE Process(p) /\ ~Stamp(p) /\ ~ReadRecords(p)
    BY <1>2, OthersReportNothing DEF Complete
  <1>3. QED
    BY <1>1, <1>2, StampCompletes, ReadingKeepsComplete DEF Next

\* A single process: a member function that returns normally leaves a complete
\* file with the time of the stamp, which holds what was reported stored.
THEOREM SuccessComplete ==
    ASSUME NEW p \in Procs, Procs = {p}
    PROVE  Spec => []SuccessIsComplete
  <1>1. SuccessIsComplete <=> Complete(p)
    BY DEF SuccessIsComplete, Complete
  <1>2. Init => Complete(p)
    BY DEF Init, Complete, Closed, At
  <1>3. TypeOK /\ SingleInv /\ Complete(p) /\ [Next]_vars => Complete(p)'
    BY NextKeepsComplete DEF SingleInv, One
  <1>4. QED
    BY <1>1, <1>2, <1>3, TypeCorrect, SingleCorrect, PTL DEF Spec

-----------------------------------------------------------------------------
(***************************************************************************)
(* The member functions as the caller sees them.                           *)
(***************************************************************************)
LEMMA OwnerIs == ASSUME NEW p \in Procs, Procs = {p} PROVE Owner = p
  BY DEF Owner

LEMMA SeenStays == ASSUME NEW m, NEW n, disk'[n] = disk[m] PROVE Seen(n)' = Seen(m)
  BY DEF Seen, Whole

LEMMA SeenFileStays ==
    ASSUME call'[Owner].pc = "closed" <=> call[Owner].pc = "closed",
           disk'["pet"] = disk["pet"], obj'[Owner].key = obj[Owner].key,
           obj'[Owner].stamp = obj[Owner].stamp,
           obj'[Owner].raw = obj[Owner].raw
    PROVE  SeenFile' = SeenFile
  BY DEF SeenFile, NotModified

\* The File object the way its caller sees it, as a record of its parts.
View(open, key, inner, fresh, bad) ==
    [open |-> open, key |-> key, inner |-> inner, fresh |-> fresh, bad |-> bad]
Views(K) == [open : BOOLEAN, key : K, inner : BOOLEAN, fresh : BOOLEAN, bad : BOOLEAN]

LEMMA ViewIs ==
    ASSUME NEW K, NEW f \in Views(K)
    PROVE  f = View(f.open, f.key, f.inner, f.fresh, f.bad)
  BY DEF View, Views

\* What the caller sees of the object, as one record.
LEMMA SeenIs ==
    SeenFile = View(call[Owner].pc # "closed",
                    IF call[Owner].pc # "closed" THEN obj[Owner].key ELSE NoKey,
                    obj[Owner].raw # "none",
                    call[Owner].pc # "closed" /\ NotModified(Owner),
                    obj[Owner].raw \in {"bad", "closed"})
  BY Zenon DEF SeenFile, View

LEMMA ClosedSeen ==
    call[Owner].pc = "closed" /\ obj[Owner].raw = "none" => SeenFile = Abstract!NoFile
  <1> SUFFICES ASSUME call[Owner].pc = "closed", obj[Owner].raw = "none"
               PROVE  SeenFile = Abstract!NoFile
    OBVIOUS
  <1> DEFINE open  == call[Owner].pc # "closed"
             key   == IF call[Owner].pc # "closed" THEN obj[Owner].key ELSE NoKey
             inner == obj[Owner].raw # "none"
             fresh == call[Owner].pc # "closed" /\ NotModified(Owner)
             bad   == obj[Owner].raw \in {"bad", "closed"}
  <1>1. open = FALSE /\ inner = FALSE /\ fresh = FALSE /\ bad = FALSE
    OBVIOUS
  <1>2. key = NoKey
    OBVIOUS
  <1>3. SeenFile = View(open, key, inner, fresh, bad)
    BY SeenIs
  <1> HIDE DEF open, key, inner, fresh, bad
  <1>4. SeenFile = View(FALSE, NoKey, FALSE, FALSE, FALSE)
    BY <1>1, <1>2, <1>3
  <1> QED BY <1>4, Zenon DEF View, Abstract!NoFile

\* A call that has ended leaves nothing to say.
LEMMA EndedKeeps ==
    ASSUME \A n \in Names : ~disk'[n].junk, call'[Owner] \in {Closed, Idle},
           call'[Owner] = Closed => obj'[Owner].raw = "none"
    PROVE  CallInv'
  <1>1. call'[Owner].op = "none" /\ (call'[Owner].pc = "closed" => obj'[Owner].raw = "none")
    <2>1. Closed.op = "none" /\ Idle.op = "none" /\ Idle.pc = "idle"
      BY DEF Closed, Idle, At
    <2> QED BY <2>1
  <1> QED BY <1>1 DEF CallInv, ConstructInv, SaveInv, NewKeyInv

\* No call begins where another one runs.
LEMMA ControlIs ==
    ASSUME NEW p \in Procs, Procs = {p}, TypeOK, One(p)
    PROVE  /\ Running <=> call[p].pc \notin {"closed", "idle"}
           /\ call[p] \in Call /\ obj[p] \in FileObject
           /\ \A n \in Names : disk[n] \in FileContent
           /\ Owner = p
  BY OwnerIs DEF Running, One, ControlInv, TypeOK

LEMMA EmptySeen == \A k \in Keys : /\ Empty(k).parts = 0 /\ Empty(k).exists /\ ~Empty(k).junk
                                   /\ Empty(k).items = {}
  BY DEF Empty

-----------------------------------------------------------------------------
(***************************************************************************)
(* A call begins.                                                          *)
(***************************************************************************)
LEMMA StartKeepsCalls ==
    ASSUME NEW p \in Procs, Procs = {p}, TypeOK, One(p), CallInv, before' = Snapshot,
           \/ \E k \in Keys : OpenRaw(p, k) \/ CreateRaw(p, k) \/ KeyCheck(p, k)
           \/ \E list \in Lists : SaveCheck(p, list)
    PROVE  CallInv'
  <1>1. /\ call \in [Procs -> Call] /\ call[p] \in Call /\ obj \in [Procs -> FileObject]
        /\ obj[p] \in FileObject /\ disk \in [Names -> FileContent] /\ Owner = p
    BY ControlIs DEF TypeOK
  <1>2. /\ before'.pet = Seen("pet") /\ before'.bak = Seen("bak") /\ before'.file = SeenFile
    BY DEF Snapshot
  <1>3. ASSUME call[p].pc = "closed" PROVE SeenFile = Abstract!NoFile
    BY <1>1, <1>3, ClosedSeen DEF CallInv
  <1>4. ASSUME call[p].pc = "idle", obj[p].raw # "none", NotModified(p)
        PROVE  /\ SeenFile \in Checked(obj[p].key)
               /\ SeenFile.bad <=> obj[p].raw # "open"
    <2> DEFINE open  == call[Owner].pc # "closed"
               key   == IF call[Owner].pc # "closed" THEN obj[Owner].key ELSE NoKey
               inner == obj[Owner].raw # "none"
               fresh == call[Owner].pc # "closed" /\ NotModified(Owner)
               bad   == obj[Owner].raw \in {"bad", "closed"}
    <2>1. open = TRUE /\ key = obj[p].key /\ inner = TRUE /\ fresh = TRUE /\ bad \in BOOLEAN
      BY <1>1, <1>4
    <2>2. bad <=> obj[p].raw # "open"
      BY <1>1, <1>4 DEF FileObject, RawStates
    <2>3. SeenFile = View(open, key, inner, fresh, bad)
      BY SeenIs
    <2> HIDE DEF open, key, inner, fresh, bad
    <2>4. SeenFile = View(TRUE, obj[p].key, TRUE, TRUE, bad)
      BY <2>1, <2>3
    <2> QED BY <2>1, <2>2, <2>4 DEF View, Checked
  <1>5. CASE \E k \in Keys : OpenRaw(p, k)
    <2>1. PICK k \in Keys : OpenRaw(p, k)
      BY <1>5
    <2>2. /\ call'[p] = At("open", "validate") /\ obj'[p].raw = "open" /\ disk' = disk
          /\ disk["pet"].exists /\ call[p].pc = "closed"
      BY <1>1, <2>1 DEF OpenRaw
    <2>3. \A n \in Names : Seen(n)' = Seen(n)
      BY <2>2, SeenStays
    <2> QED
      BY <1>1, <1>2, <1>3, <2>2, <2>3 DEF CallInv, ConstructInv, SaveInv, NewKeyInv, At, Names,
            Abstract!NoFile
  <1>6. CASE \E k \in Keys : CreateRaw(p, k)
    <2>1. PICK k \in Keys : CreateRaw(p, k)
      BY <1>6
    <2>2. /\ call'[p] = At("create", "ident") /\ obj'[p].raw = "open"
          /\ disk'["bak"] = disk["bak"] /\ disk'["pet"] = Empty(k) /\ call[p].pc = "closed"
      BY <1>1, <2>1 DEF CreateRaw, Names
    <2>3. Seen("bak")' = Seen("bak")
      BY <2>2, SeenStays
    <2>4. \A n \in Names : ~disk'[n].junk
      BY <2>2, EmptySeen DEF CallInv, Names
    <2> QED
      BY <1>1, <1>2, <1>3, <2>2, <2>3, <2>4 DEF CallInv, ConstructInv, SaveInv, NewKeyInv, At,
            Abstract!NoFile
  <1>7. CASE \E k \in Keys : KeyCheck(p, k)
    <2>1. PICK k \in Keys : KeyCheck(p, k)
      BY <1>7
    <2>2. /\ call'[p] = [At("newkey", "rename") EXCEPT !.other = k]
          /\ obj'[p].raw = "none" /\ obj'[p].key = obj[p].key /\ obj'[p].stamp = obj[p].stamp
          /\ disk' = disk
          /\ call[p].pc = "idle" /\ obj[p].raw # "none" /\ NotModified(p)
      BY <1>1, <2>1 DEF KeyCheck, WithResult, WithStream, FileObject
    <2>3. call'[p].op = "newkey" /\ call'[p].pc = "rename"
      BY <2>2 DEF At
    <2>4. \A n \in Names : Seen(n)' = Seen(n)
      BY <2>2, SeenStays
    <2>5. /\ NotModified(p)' /\ before'.file \in Checked(obj[p].key)
          /\ before'.file.bad <=> obj[p].raw # "open"
      BY <1>2, <1>4, <2>2 DEF NotModified
    <2> QED
      BY <1>1, <1>2, <2>2, <2>3, <2>4, <2>5 DEF CallInv, ConstructInv, SaveInv, NewKeyInv, Names
  <1>8. CASE \E list \in Lists : SaveCheck(p, list)
    <2>1. PICK list \in Lists : SaveCheck(p, list)
      BY <1>8
    <2>2. /\ call'[p] = [At("save", "trunc") EXCEPT !.batch = list, !.left = list]
          /\ obj'[p].raw = obj[p].raw /\ obj'[p].key = obj[p].key /\ obj'[p].stamp = obj[p].stamp
          /\ disk' = disk
          /\ call[p].pc = "idle" /\ obj[p].raw # "none" /\ NotModified(p)
      BY <1>1, <2>1 DEF SaveCheck, WithResult, FileObject
    <2>3. call'[p].op = "save" /\ call'[p].pc = "trunc" /\ call'[p].batch = list
      BY <2>2 DEF At
    <2>4. \A n \in Names : Seen(n)' = Seen(n)
      BY <2>2, SeenStays
    <2>5. /\ NotModified(p)' /\ before'.file \in Checked(obj[p].key)
          /\ before'.file.bad <=> obj[p].raw # "open"
      BY <1>2, <1>4, <2>2 DEF NotModified
    <2> QED
      BY <1>1, <1>2, <2>2, <2>3, <2>4, <2>5 DEF CallInv, ConstructInv, SaveInv, NewKeyInv, Names
  <1> QED BY <1>5, <1>6, <1>7, <1>8

-----------------------------------------------------------------------------
(***************************************************************************)
(* A call goes on.                                                         *)
(***************************************************************************)
\* What one step of the call changes, apart from files.
LEMMA ConstructGoesOn ==
    ASSUME NEW p \in Procs, Procs = {p}, TypeOK, One(p), CallInv, before' = before,
           HeaderAccepted(p)
    PROVE  CallInv'
  <1>1. /\ call \in [Procs -> Call] /\ call[p] \in Call /\ Owner = p /\ obj' = obj /\ disk' = disk
    BY ControlIs DEF TypeOK, HeaderAccepted
  <1>2. call'[p] = [call[p] EXCEPT !.pc = "stamp"] /\ call[p].pc = "validate"
    BY <1>1 DEF HeaderAccepted, Goto
  <1>3. call'[p].pc = "stamp" /\ call'[p].op = "open" /\ call[p].op = "open"
    BY <1>1, <1>2 DEF Call, One, ControlInv
  <1>4. disk["pet"].parts = 3
    BY <1>1, <1>3 DEF HeaderAccepted, HasHeader, One, ControlInv, Names
  <1>5. \A n \in Names : Seen(n)' = Seen(n)
    BY <1>1, SeenStays
  <1> QED
    BY <1>1, <1>3, <1>4, <1>5 DEF CallInv, ConstructInv, SaveInv, NewKeyInv, Names

\* A record that is written belongs to the records of the call.
Rewritten(old, j, k) == {Reencrypted(i, j, k) : i \in old.items}

LEMMA BatchIsBegun ==
    ASSUME NEW old, NEW j, NEW k, NEW items, items \subseteq Rewritten(old, j, k)
    PROVE  /\ [state |-> "good", key |-> k, items |-> items] \in Abstract!Rekeyings(old, j, k)
           /\ [state |-> "good", key |-> k, items |-> items] \in Abstract!Begun(old, j, k)
  <1>1. \A i : Abstract!Reencrypted(i, j, k) = Reencrypted(i, j, k)
    BY DEF Abstract!Reencrypted, Reencrypted
  <1>2. items \in SUBSET {Abstract!Reencrypted(i, j, k) : i \in old.items}
    BY <1>1 DEF Rewritten
  <1>3. [state |-> "good", key |-> k, items |-> items] \in Abstract!Rekeyings(old, j, k)
    BY <1>2 DEF Abstract!Rekeyings
  <1> QED BY <1>3 DEF Abstract!Begun

LEMMA WritePartGoesOn ==
    ASSUME NEW p \in Procs, Procs = {p}, TypeOK, One(p), CallInv, before' = before, WritePart(p)
    PROVE  CallInv'
  <1>1. /\ call \in [Procs -> Call] /\ call[p] \in Call /\ Owner = p /\ obj' = obj
        /\ obj[p] \in FileObject /\ disk \in [Names -> FileContent]
        /\ disk["pet"] \in FileContent
    BY ControlIs DEF TypeOK, WritePart, Names
  <1>2. /\ call[p].pc \in InitLocations /\ call[p].op \in {"create", "newkey"} /\ obj[p].fd = "pet"
        /\ ~disk["pet"].junk /\ disk["pet"].items = {} /\ disk["pet"].exists
        /\ disk["pet"].parts = PartsAt(call[p].pc)
        /\ call[p].pc \in {"ident", "meta", "header"}
    BY DEF WritePart, One, ControlInv, FileInv, Fresh, InitLocations
  <1> DEFINE new == PartWritten(call[p].pc, disk["pet"], obj[p].key)
  <1>3. /\ disk' = [disk EXCEPT !["pet"] = new]
        /\ call' = [call EXCEPT ![p].pc = AfterPart(call[p].op, call[p].pc)]
    BY <1>2 DEF WritePart, Names, Goto
  <1>4. /\ call'[p].op = call[p].op /\ call'[p].other = call[p].other
        /\ call'[p].pc = AfterPart(call[p].op, call[p].pc)
    BY <1>1, <1>3 DEF Call
  <1>5. /\ new.exists /\ ~new.junk /\ new.items = {}
        /\ call[p].pc = "header" => new.parts = 3 /\ new.key = obj[p].key
        /\ call[p].pc # "header" => new.parts < 3
    BY <1>1, <1>2 DEF PartWritten, PartsAt, FileContent
  <1>6. disk'["pet"] = new /\ disk'["bak"] = disk["bak"]
    BY <1>1, <1>3 DEF Names
  <1>7. Seen("bak")' = Seen("bak")
    BY <1>6, SeenStays
  <1>8. Seen("pet")' = IF call[p].pc = "header" THEN Abstract!Good(obj[p].key, {})
                       ELSE Abstract!Unusable("broken")
    <2>1. [rec : {}, key : {obj[p].key}] = {}
      OBVIOUS
    <2> HIDE DEF new
    <2>2. new.parts # 3 => Seen("pet")' = [state |-> "broken", key |-> NoKey, items |-> {}]
      BY <1>5, <1>6 DEF Seen, Whole
    <2>3. new.parts = 3 => Seen("pet")' = [state |-> "good", key |-> new.key, items |-> {}]
      BY <1>5, <1>6 DEF Seen, Whole
    <2>4. new.parts # 3 => call[p].pc # "header"
      BY <1>5
    <2>5. new.parts = 3 => call[p].pc = "header"
      BY <1>5, <1>2
    <2> QED BY <1>5, <2>1, <2>2, <2>3, <2>4, <2>5 DEF Abstract!Good, Abstract!Unusable
  <1>9. Seen("pet")' \in Abstract!Begun(before.pet, call[p].other, obj[p].key)
    <2>1. Abstract!Good(obj[p].key, {}) = [state |-> "good", key |-> obj[p].key, items |-> {}]
      <3>1. [rec : {}, key : {obj[p].key}] = {}
        OBVIOUS
      <3> QED BY <3>1 DEF Abstract!Good
    <2>2. Abstract!Unusable("broken") \in Abstract!Begun(before.pet, call[p].other, obj[p].key)
      BY DEF Abstract!Begun
    <2> QED BY <1>8, <2>1, <2>2, BatchIsBegun
  <1>10. call[p].op = "newkey" =>
            /\ call'[p].pc \in {"meta", "header", "convert"}
            /\ call[p].pc \notin {"rename", "openbak", "create", "trunc", "reopen", "write", "stamp"}
    BY <1>2, <1>4 DEF AfterPart
  <1>11. call[p].op = "create" /\ call'[p].pc = "stamp" => new.key = obj[p].key
    BY <1>2, <1>4, <1>5 DEF AfterPart
  <1>12. \A n \in Names : ~disk'[n].junk
    BY <1>5, <1>6 DEF Names, CallInv
  <1>13. ConstructInv'
    BY <1>1, <1>2, <1>4, <1>6, <1>7, <1>11 DEF CallInv, ConstructInv, Abstract!NoFile
  <1>14. NewKeyInv'
    BY <1>1, <1>2, <1>4, <1>7, <1>9, <1>10 DEF CallInv, NewKeyInv
  <1> QED
    BY <1>1, <1>2, <1>4, <1>10, <1>12, <1>13, <1>14 DEF CallInv, SaveInv, AfterPart

\* The file, when it has a header and holds no rest of another writer.
LEMMA SeenGood ==
    ASSUME NEW n, disk[n].exists, disk[n].parts = 3, ~disk[n].junk
    PROVE  Seen(n) = [state |-> "good", key |-> disk[n].key, items |-> disk[n].items]
  BY DEF Seen, Whole

LEMMA TruncateGoesOn ==
    ASSUME NEW p \in Procs, Procs = {p}, TypeOK, One(p), CallInv, before' = before, Truncate(p)
    PROVE  CallInv'
  <1>1. /\ call \in [Procs -> Call] /\ call[p] \in Call /\ Owner = p
        /\ obj \in [Procs -> FileObject] /\ obj[p] \in FileObject
        /\ disk \in [Names -> FileContent] /\ disk["pet"] \in FileContent
    BY ControlIs DEF TypeOK, Names
  <1>2. /\ call[p].pc = "trunc" /\ call[p].op \in {"save", "newkey"} /\ obj[p].fd = "pet"
        /\ disk["pet"].exists /\ disk["pet"].parts = 3 /\ obj[p].raw = "open"
    BY DEF Truncate, One, ControlInv, HasHeader, Names
  <1>3. /\ disk' = [disk EXCEPT !["pet"].items = {}, !["pet"].junk = FALSE, !["pet"].mtime = now]
        /\ obj' = [obj EXCEPT ![p] = WithStream(@, "closed", "none")]
        /\ call' = [call EXCEPT ![p].pc = "reopen"]
    BY DEF Truncate, Goto
  <1>4. /\ call'[p].op = call[p].op /\ call'[p].other = call[p].other /\ call'[p].pc = "reopen"
        /\ call'[p].batch = call[p].batch
        /\ obj'[p].key = obj[p].key /\ obj'[p].raw = "closed"
    BY <1>1, <1>3 DEF Call, FileObject, WithStream
  <1>5. /\ disk'["bak"] = disk["bak"] /\ disk'["pet"].exists /\ disk'["pet"].parts = 3
        /\ ~disk'["pet"].junk /\ disk'["pet"].items = {} /\ disk'["pet"].key = disk["pet"].key
    BY <1>1, <1>2, <1>3 DEF Names, FileContent
  <1>6. Seen("bak")' = Seen("bak")
    BY <1>5, SeenStays
  <1>7. Seen("pet")' = [state |-> "good", key |-> disk["pet"].key, items |-> {}]
    BY <1>5 DEF Seen, Whole
  <1>8. call[p].op = "save" => before.pet = [state |-> "good", key |-> disk["pet"].key,
                                              items |-> before.pet.items]
    <2>1. SUFFICES ASSUME call[p].op = "save"
                   PROVE  before.pet = [state |-> "good", key |-> disk["pet"].key,
                                        items |-> before.pet.items]
      OBVIOUS
    <2>2. before.pet = Seen("pet") /\ ~disk["pet"].junk
      BY <1>1, <1>2, <2>1 DEF CallInv, SaveInv, Names
    <2>3. Seen("pet") = [state |-> "good", key |-> disk["pet"].key, items |-> disk["pet"].items]
      BY <1>2, <2>2, SeenGood
    <2> QED BY <2>2, <2>3
  <1>9. call[p].op = "newkey" => disk["pet"].key = obj[p].key
    BY <1>2 DEF One, FileInv
  <1>10. call[p].op = "newkey" => Seen("pet")' \in Abstract!Begun(before.pet, call[p].other, obj[p].key)
    BY <1>7, <1>9, BatchIsBegun
  <1>11. SaveInv'
    BY <1>1, <1>2, <1>4, <1>5, <1>6, <1>8 DEF CallInv, SaveInv
  <1>12. NewKeyInv'
    BY <1>1, <1>2, <1>4, <1>6, <1>10 DEF CallInv, NewKeyInv
  <1>13. \A n \in Names : ~disk'[n].junk
    BY <1>5 DEF Names, CallInv
  <1> QED
    BY <1>1, <1>2, <1>4, <1>11, <1>12, <1>13 DEF CallInv, ConstructInv

LEMMA ReopenGoesOn ==
    ASSUME NEW p \in Procs, Procs = {p}, TypeOK, One(p), CallInv, before' = before,
           Reopen(p) \/ Flushed(p)
    PROVE  CallInv'
  <1>1. /\ call \in [Procs -> Call] /\ call[p] \in Call /\ Owner = p
        /\ obj \in [Procs -> FileObject] /\ obj[p] \in FileObject /\ disk' = disk
    BY ControlIs DEF TypeOK, Reopen, Flushed
  <1>2. call[p].pc \in {"reopen", "write"} /\ call[p].op \in {"save", "newkey"}
    BY DEF Reopen, Flushed, One, ControlInv
  <1>3. /\ call'[p].op = call[p].op /\ call'[p].other = call[p].other
        /\ call'[p].pc \in {"write", "stamp"}
        /\ call'[p].batch = call[p].batch
    BY <1>1 DEF Call, Reopen, Flushed, Goto
  <1>4. obj'[p].key = obj[p].key /\ obj'[p].raw # "none"
    <2>1. CASE Reopen(p)
      BY <1>1, <2>1 DEF Reopen, FileObject, WithStream
    <2>2. CASE Flushed(p)
      BY <1>1, <1>2, <2>2 DEF Flushed, CallInv, SaveInv, NewKeyInv
    <2> QED BY <2>1, <2>2
  <1>5. \A n \in Names : Seen(n)' = Seen(n)
    BY <1>1, SeenStays
  <1>6. SaveInv'
    BY <1>1, <1>2, <1>3, <1>4, <1>5 DEF CallInv, SaveInv, Names
  <1>7. NewKeyInv'
    BY <1>1, <1>2, <1>3, <1>4, <1>5 DEF CallInv, NewKeyInv, Names
  <1> QED
    BY <1>1, <1>2, <1>3, <1>6, <1>7 DEF CallInv, ConstructInv

LEMMA WriteRecordGoesOn ==
    ASSUME NEW p \in Procs, Procs = {p}, TypeOK, One(p), CallInv, before' = before, WriteRecord(p)
    PROVE  CallInv'
  <1>1. /\ call \in [Procs -> Call] /\ call[p] \in Call /\ Owner = p /\ obj' = obj
        /\ disk \in [Names -> FileContent] /\ disk["pet"] \in FileContent
    BY ControlIs DEF TypeOK, Names, WriteRecord
  <1>2. /\ call[p].pc = "write" /\ call[p].op \in {"save", "newkey"} /\ obj[p].fd = "pet"
        /\ disk["pet"].exists /\ disk["pet"].parts = 3 /\ ~disk["pet"].junk
        /\ call[p].left \subseteq call[p].batch
        /\ disk["pet"].items = call[p].batch \ call[p].left
    BY DEF WriteRecord, One, ControlInv, FileInv, Rewriting
  <1>3. Disturbed(p, "pet") = FALSE
    BY <1>2 DEF Disturbed
  <1>4. PICK i \in call[p].left :
           /\ call' = [call EXCEPT ![p].left = @ \ {i}]
           /\ disk' = [disk EXCEPT !["pet"].items = @ \cup {i}, !["pet"].mtime = now,
                                   !["pet"].junk = FALSE]
    <2>1. PICK i \in call[p].left :
             /\ call' = [call EXCEPT ![p].left = @ \ {i}]
             /\ \E j \in {FALSE} \cup {Disturbed(p, "pet")} :
                   disk' = [disk EXCEPT !["pet"].items = @ \cup {i}, !["pet"].mtime = now,
                                        !["pet"].junk = j]
      <3>1. PICK i \in call[p].left :
               /\ call' = [call EXCEPT ![p].left = @ \ {i}]
               /\ \/ /\ obj[p].fd \in Names
                     /\ \E j \in {FALSE} \cup {Disturbed(p, obj[p].fd)} :
                          disk' = [disk EXCEPT ![obj[p].fd].items = @ \cup {i},
                                               ![obj[p].fd].mtime = now, ![obj[p].fd].junk = j]
                  \/ obj[p].fd \notin Names /\ disk' = disk
        BY DEF WriteRecord
      <3>2. obj[p].fd = "pet" /\ "pet" \in Names
        BY <1>2 DEF Names
      <3>3. PICK j \in {FALSE} \cup {Disturbed(p, "pet")} :
               disk' = [disk EXCEPT !["pet"].items = @ \cup {i}, !["pet"].mtime = now,
                                    !["pet"].junk = j]
        BY <3>1, <3>2, Zenon
      <3> QED BY <3>1, <3>3, Zenon
    <2> QED BY <1>3, <2>1
  <1>5. /\ call'[p].op = call[p].op /\ call'[p].other = call[p].other /\ call'[p].pc = call[p].pc
        /\ call'[p].batch = call[p].batch
    BY <1>1, <1>4 DEF Call
  <1>6. /\ disk'["bak"] = disk["bak"] /\ disk'["pet"].exists /\ disk'["pet"].parts = 3
        /\ ~disk'["pet"].junk /\ disk'["pet"].items \subseteq call[p].batch
        /\ disk'["pet"].key = disk["pet"].key
    BY <1>1, <1>2, <1>4 DEF Names, FileContent
  <1>7. Seen("bak")' = Seen("bak")
    BY <1>6, SeenStays
  <1>8. Seen("pet")' = [state |-> "good", key |-> disk["pet"].key, items |-> disk'["pet"].items]
    BY <1>6 DEF Seen, Whole
  <1>9. call[p].op = "newkey" => disk["pet"].key = obj[p].key
    BY <1>2 DEF One, FileInv
  <1>10. call[p].op = "newkey" => call[p].batch \subseteq Rewritten(before.pet, call[p].other, obj[p].key)
    BY <1>1, <1>2 DEF CallInv, NewKeyInv, Rewritten
  <1>11. call[p].op = "newkey" => Seen("pet")' \in Abstract!Begun(before.pet, call[p].other, obj[p].key)
    <2> SUFFICES ASSUME call[p].op = "newkey"
                 PROVE  Seen("pet")' \in Abstract!Begun(before.pet, call[p].other, obj[p].key)
      OBVIOUS
    <2>1. disk'["pet"].items \subseteq Rewritten(before.pet, call[p].other, obj[p].key)
      BY <1>6, <1>10
    <2>2. [state |-> "good", key |-> obj[p].key, items |-> disk'["pet"].items]
             \in Abstract!Begun(before.pet, call[p].other, obj[p].key)
      BY <2>1, BatchIsBegun
    <2> QED BY <1>8, <1>9, <2>2
  <1>12. SaveInv'
    BY <1>1, <1>2, <1>5, <1>6, <1>7 DEF CallInv, SaveInv
  <1>13. NewKeyInv'
    BY <1>1, <1>2, <1>5, <1>7, <1>11 DEF CallInv, NewKeyInv
  <1>14. \A n \in Names : ~disk'[n].junk
    BY <1>6 DEF Names, CallInv
  <1> QED
    BY <1>1, <1>2, <1>5, <1>12, <1>13, <1>14 DEF CallInv, ConstructInv

LEMMA RenameGoesOn ==
    ASSUME NEW p \in Procs, Procs = {p}, TypeOK, One(p), CallInv, before' = before, Rename(p)
    PROVE  CallInv'
  <1>1. /\ call \in [Procs -> Call] /\ call[p] \in Call /\ Owner = p
        /\ obj \in [Procs -> FileObject] /\ obj[p] \in FileObject
        /\ disk \in [Names -> FileContent]
    BY ControlIs DEF TypeOK
  <1>2. call[p].pc = "rename" /\ call[p].op = "newkey" /\ obj[p].raw = "none"
    BY <1>1 DEF Rename, One, ControlInv, CallInv, NewKeyInv
  <1>3. /\ call'[p].op = "newkey" /\ call'[p].pc = "openbak" /\ call'[p].other = call[p].other
        /\ obj'[p].key = obj[p].key /\ obj'[p].raw = "none"
    BY <1>1, <1>2 DEF Rename, Call, FileObject
  <1>4. disk'["bak"] = disk["pet"] /\ disk'["pet"] = Absent /\ ~Absent.junk /\ disk["pet"].exists
    BY DEF Rename, Names, Absent
  <1>5. Seen("bak")' = Seen("pet") /\ Seen("pet").state # "absent"
    BY <1>4, SeenStays DEF Seen, Whole
  <1>6. \A n \in Names : ~disk'[n].junk
    BY <1>4 DEF Names, CallInv
  <1>7. NewKeyInv'
    BY <1>1, <1>2, <1>3, <1>5 DEF CallInv, NewKeyInv
  <1> QED
    BY <1>1, <1>3, <1>6, <1>7 DEF CallInv, ConstructInv, SaveInv

LEMMA OpenBackupGoesOn ==
    ASSUME NEW p \in Procs, Procs = {p}, TypeOK, One(p), CallInv, before' = before, OpenBackup(p)
    PROVE  CallInv'
  <1>1. /\ call \in [Procs -> Call] /\ call[p] \in Call /\ Owner = p
        /\ obj \in [Procs -> FileObject] /\ obj[p] \in FileObject /\ disk' = disk
    BY ControlIs DEF TypeOK, OpenBackup
  <1>2. call[p].pc = "openbak" /\ call[p].op = "newkey" /\ obj[p].raw = "none"
    BY <1>1 DEF OpenBackup, One, ControlInv, CallInv, NewKeyInv
  <1>3. /\ call'[p].op = "newkey" /\ call'[p].pc = "create" /\ call'[p].other = obj[p].key
        /\ obj'[p].raw = "none"
    BY <1>1, <1>2 DEF OpenBackup, Call, FileObject
  <1>4. ~disk["pet"].exists
    BY <1>2 DEF One, FileInv
  <1>5. \A n \in Names : Seen(n)' = Seen(n)
    BY <1>1, SeenStays
  <1>6. Seen("pet")' \in Abstract!Begun(before.pet, call'[p].other, obj'[p].key)
    BY <1>4, <1>5 DEF Seen, Whole, Names, Abstract!Begun, Abstract!Unusable
  <1>7. NewKeyInv'
    BY <1>1, <1>2, <1>3, <1>5, <1>6 DEF CallInv, NewKeyInv, Names
  <1> QED
    BY <1>1, <1>3, <1>7 DEF CallInv, ConstructInv, SaveInv

LEMMA NewFileGoesOn ==
    ASSUME NEW p \in Procs, Procs = {p}, TypeOK, One(p), CallInv, before' = before, NewFile(p)
    PROVE  CallInv'
  <1>1. /\ call \in [Procs -> Call] /\ call[p] \in Call /\ Owner = p
        /\ obj \in [Procs -> FileObject] /\ obj[p] \in FileObject
        /\ disk \in [Names -> FileContent]
    BY ControlIs DEF TypeOK
  <1>2. call[p].pc = "create" /\ call[p].op = "newkey"
    BY DEF NewFile, One, ControlInv
  <1>3. /\ call'[p].op = "newkey" /\ call'[p].pc = "ident" /\ call'[p].other = call[p].other
        /\ obj'[p].raw = "open" /\ obj'[p].key = obj[p].key
    BY <1>1, <1>2 DEF NewFile, Goto, Call, FileObject, WithStream
  <1>4. disk'["pet"] = Empty(obj[p].key) /\ disk'["bak"] = disk["bak"]
    BY <1>1 DEF NewFile, Names
  <1>5. disk'["pet"].parts = 0 /\ ~disk'["pet"].junk /\ disk'["pet"].exists
    BY <1>4 DEF Empty
  <1>6. Seen("bak")' = Seen("bak")
    BY <1>4, SeenStays
  <1>7. Seen("pet")' = [state |-> "broken", key |-> NoKey, items |-> {}]
    BY <1>5 DEF Seen, Whole
  <1>8. Seen("pet")' \in Abstract!Begun(before.pet, call'[p].other, obj'[p].key)
    BY <1>7 DEF Abstract!Begun, Abstract!Unusable
  <1>9. \A n \in Names : ~disk'[n].junk
    BY <1>4, <1>5 DEF Names, CallInv
  <1>10. NewKeyInv'
    BY <1>1, <1>2, <1>3, <1>6, <1>8 DEF CallInv, NewKeyInv
  <1> QED
    BY <1>1, <1>3, <1>9, <1>10 DEF CallInv, ConstructInv, SaveInv

LEMMA ConvertGoesOn ==
    ASSUME NEW p \in Procs, Procs = {p}, TypeOK, One(p), CallInv, before' = before, Convert(p)
    PROVE  CallInv'
  <1>1. /\ call \in [Procs -> Call] /\ call[p] \in Call /\ Owner = p /\ obj' = obj /\ disk' = disk
        /\ disk["bak"] \in FileContent
    BY ControlIs DEF TypeOK, Convert, Names
  <1>2. /\ call[p].pc = "convert" /\ call[p].op = "newkey" /\ call[p].old = "bak"
        /\ disk["bak"].parts = 3 /\ ~disk["bak"].junk
    BY DEF Convert, One, ControlInv, HasHeader, Names, CallInv
  <1>3. PICK items \in SUBSET disk["bak"].items : Converted(p, items)
    BY <1>2, ConvertIs DEF ReadsOf, Names
  <1>4. /\ call'[p].op = "newkey" /\ call'[p].pc = "trunc" /\ call'[p].other = call[p].other
        /\ call'[p].batch = {Reencrypted(i, call[p].other, obj[p].key) : i \in items}
    BY <1>2, <1>3 DEF Converted
  <1>5. \A n \in Names : Seen(n)' = Seen(n)
    BY <1>1, SeenStays
  <1>6. before.pet = Seen("bak") /\ before.pet.items = disk["bak"].items
    BY <1>1, <1>2 DEF CallInv, NewKeyInv, Seen, Whole
  <1>7. disk["bak"].exists
    BY <1>1, <1>2, <1>6 DEF CallInv, NewKeyInv, Seen, Whole
  <1>8. before.pet.state = "good"
    BY <1>2, <1>6, <1>7 DEF Seen, Whole
  <1>9. call'[p].batch \subseteq {Reencrypted(i, call'[p].other, obj'[p].key) : i \in before.pet.items}
    BY <1>1, <1>3, <1>4, <1>6
  <1>10. NewKeyInv'
    BY <1>1, <1>2, <1>4, <1>5, <1>8, <1>9 DEF CallInv, NewKeyInv, Names
  <1> QED
    BY <1>1, <1>4, <1>10 DEF CallInv, ConstructInv, SaveInv

-----------------------------------------------------------------------------
(***************************************************************************)
(* A call ends.                                                            *)
(***************************************************************************)
\* Nothing but the object is left behind.
Killed(p) == call'[p] = Closed /\ obj'[p] = NoObject /\ disk' = disk

Thrown(p) == /\ call'[p] = Idle /\ disk' = disk
             /\ obj'[p].key = obj[p].key /\ obj'[p].stamp = obj[p].stamp
             /\ obj'[p].raw = "none" <=> call[p].pc \in {"rename", "openbak"}
             /\ obj'[p].raw = "open" => obj[p].raw = "open"
             /\ obj'[p].raw \in RawStates

LEMMA CheckedIs ==
    \A K : \A k \in K : \A f \in Checked(k) :
        /\ f \in Views(K) /\ f.open = TRUE /\ f.key = k /\ f.inner = TRUE /\ f.fresh = TRUE
        /\ f.bad \in BOOLEAN
  BY DEF Checked, Views

LEMMA CheckedView == \A k : \A f \in Checked(k) : f = View(TRUE, k, TRUE, TRUE, f.bad)
  <1> TAKE k
  <1> TAKE f \in Checked(k)
  <1>1. f \in Views({k}) /\ f.open = TRUE /\ f.key = k /\ f.inner = TRUE /\ f.fresh = TRUE
    BY CheckedIs
  <1> QED BY <1>1, ViewIs, Zenon

\* What becomes of an object that passed the check, and of none.
LEMMA CheckedAged ==
    \A k : \A f \in Checked(k) : \A b, c \in BOOLEAN :
        Abstract!Stopped(f, b, c) = View(TRUE, k, TRUE, b, c)
  <1> TAKE k
  <1> TAKE f \in Checked(k)
  <1> TAKE b, c \in BOOLEAN
  <1> DEFINE g == [f EXCEPT !.fresh = b, !.bad = c]
  <1>1. f \in Views({k}) /\ f.open = TRUE /\ f.key = k /\ f.inner = TRUE
    BY CheckedIs
  <1>2. g \in Views({k}) /\ g.open = TRUE /\ g.key = k /\ g.inner = TRUE /\ g.fresh = b /\ g.bad = c
    BY <1>1, Zenon DEF Views
  <1> QED BY <1>2, ViewIs, Zenon DEF Abstract!Stopped

LEMMA CheckedSpoilt ==
    \A k : \A f \in Checked(k) : [f EXCEPT !.bad = TRUE] = View(TRUE, k, TRUE, TRUE, TRUE)
  <1> TAKE k
  <1> TAKE f \in Checked(k)
  <1> DEFINE g == [f EXCEPT !.bad = TRUE]
  <1>1. /\ f \in Views({k}) /\ f.open = TRUE /\ f.key = k /\ f.inner = TRUE /\ f.fresh = TRUE
        /\ TRUE \in BOOLEAN
    BY CheckedIs
  <1>2. /\ g \in Views({k}) /\ g.open = TRUE /\ g.key = k /\ g.inner = TRUE /\ g.fresh = TRUE
        /\ g.bad = TRUE
    BY <1>1, Zenon DEF Views
  <1> QED BY <1>2, ViewIs, Zenon

LEMMA CheckedReset ==
    \A k : \A f \in Checked(k) :
        [f EXCEPT !.inner = FALSE, !.bad = FALSE] = View(TRUE, k, FALSE, TRUE, FALSE)
  <1> TAKE k
  <1> TAKE f \in Checked(k)
  <1> DEFINE g == [f EXCEPT !.inner = FALSE, !.bad = FALSE]
  <1>1. f \in Views({k}) /\ f.open = TRUE /\ f.key = k /\ f.fresh = TRUE /\ FALSE \in BOOLEAN
    BY CheckedIs
  <1>2. /\ g \in Views({k}) /\ g.open = TRUE /\ g.key = k /\ g.inner = FALSE /\ g.fresh = TRUE
        /\ g.bad = FALSE
    BY <1>1, Zenon DEF Views
  <1> QED BY <1>2, ViewIs, Zenon

LEMMA CheckedHollow ==
    \A k : \A f \in Checked(k) : Abstract!Hollow(f) = View(TRUE, k, FALSE, FALSE, FALSE)
  <1> TAKE k
  <1> TAKE f \in Checked(k)
  <1> DEFINE g == [f EXCEPT !.inner = FALSE, !.fresh = FALSE, !.bad = FALSE]
  <1>1. f \in Views({k}) /\ f.open = TRUE /\ f.key = k /\ FALSE \in BOOLEAN
    BY CheckedIs
  <1>2. /\ g \in Views({k}) /\ g.open = TRUE /\ g.key = k /\ g.inner = FALSE /\ g.fresh = FALSE
        /\ g.bad = FALSE
    BY <1>1, Zenon DEF Views
  <1> QED BY <1>2, ViewIs, Zenon DEF Abstract!Hollow

LEMMA CheckedSwapped ==
    \A k, j : \A f \in Checked(k) : \A b, c \in BOOLEAN :
        Abstract!Swapped(f, j, b, c) = View(TRUE, j, TRUE, b, c)
  <1> TAKE k, j
  <1> TAKE f \in Checked(k)
  <1> TAKE b, c \in BOOLEAN
  <1> DEFINE g == [f EXCEPT !.key = j, !.fresh = b, !.bad = c]
  <1>1. f \in Views({k, j}) /\ f.open = TRUE /\ f.inner = TRUE /\ j \in {k, j}
    BY CheckedIs
  <1>2. /\ g \in Views({k, j}) /\ g.open = TRUE /\ g.key = j /\ g.inner = TRUE /\ g.fresh = b
        /\ g.bad = c
    BY <1>1, Zenon DEF Views
  <1> QED BY <1>2, ViewIs, Zenon DEF Abstract!Swapped

LEMMA Renewed ==
    \A K : \A f \in Views(K) : \A j \in K :
        Abstract!Renewed(f, j) = View(TRUE, j, TRUE, TRUE, FALSE)
  <1> TAKE K
  <1> TAKE f \in Views(K)
  <1> TAKE j \in K
  <1> DEFINE g == [f EXCEPT !.open = TRUE, !.key = j, !.inner = TRUE, !.fresh = TRUE, !.bad = FALSE]
  <1>1. TRUE \in BOOLEAN /\ FALSE \in BOOLEAN
    OBVIOUS
  <1>2. /\ g \in Views(K) /\ g.open = TRUE /\ g.key = j /\ g.inner = TRUE /\ g.fresh = TRUE
        /\ g.bad = FALSE
    BY <1>1, Zenon DEF Views
  <1> QED BY <1>2, ViewIs, Zenon DEF Abstract!Renewed

LEMMA ObjectRenewed ==
    \A k, j : /\ \A f \in Checked(k) : Abstract!Renewed(f, j) = View(TRUE, j, TRUE, TRUE, FALSE)
              /\ Abstract!Renewed(Abstract!NoFile, j) = View(TRUE, j, TRUE, TRUE, FALSE)
  <1> TAKE k, j
  <1>1. /\ \A f \in Checked(k) : f \in Views({k, j, NoKey})
        /\ Abstract!NoFile \in Views({k, j, NoKey})
        /\ j \in {k, j, NoKey}
    BY CheckedIs DEF Abstract!NoFile, Views
  <1> QED BY <1>1, Renewed

LEMMA CallerIs ==
    /\ Running  => CallerPet = before.pet /\ CallerBak = before.bak /\ CallerFile = before.file
    /\ ~Running => CallerPet = Seen("pet") /\ CallerBak = Seen("bak") /\ CallerFile = SeenFile
  BY DEF CallerPet, CallerBak, CallerFile

LEMMA NoObjectSeen ==
    ASSUME NEW p \in Procs, Owner = p, call'[p] = Closed, obj'[p] = NoObject
    PROVE  SeenFile' = Abstract!NoFile /\ ~Running'
  <1>1. call'[Owner].pc = "closed" /\ call'[Owner].op = "none" /\ obj'[Owner].raw = "none"
    BY DEF Closed, At, NoObject
  <1>2. (call[Owner].pc = "closed" /\ obj[Owner].raw = "none" => SeenFile = Abstract!NoFile)'
    BY ClosedSeen, PTL
  <1>3. SeenFile' = Abstract!NoFile
    BY <1>1, <1>2 DEF Abstract!NoFile
  <1> QED BY <1>1, <1>3 DEF Running

LEMMA ObjectSeen ==
    ASSUME NEW p \in Procs, Owner = p, Thrown(p), NEW inner \in BOOLEAN,
           inner <=> call[p].pc \notin {"rename", "openbak"}
    PROVE  /\ ~Running'
           /\ \E fresh, bad \in BOOLEAN :
                 /\ fresh <=> NotModified(p)
                 /\ bad => inner
                 /\ ~bad /\ inner => obj[p].raw = "open"
                 /\ SeenFile' = View(TRUE, obj[p].key, inner, fresh, bad)
  <1>1. call'[Owner].pc = "idle" /\ call'[Owner].op = "none"
    BY DEF Thrown, Idle, At
  <1>2. NotModified(Owner)' <=> NotModified(p)
    BY DEF Thrown, NotModified
  <1> DEFINE fresh == call'[Owner].pc # "closed" /\ NotModified(Owner)'
             raw   == obj'[Owner].raw # "none"
             bad   == obj'[Owner].raw \in {"bad", "closed"}
  <1>3. fresh \in BOOLEAN /\ (fresh <=> NotModified(p))
    BY <1>1, <1>2
  <1>4. raw = inner /\ bad \in BOOLEAN /\ (bad => inner) /\ (~bad /\ inner => obj[p].raw = "open")
    BY DEF Thrown, RawStates
  <1>5. SeenFile' = [open |-> call'[Owner].pc # "closed", key |-> obj'[Owner].key,
                     inner |-> raw, bad |-> bad, fresh |-> fresh]
    BY <1>1 DEF SeenFile
  <1>6. (call'[Owner].pc # "closed") = TRUE /\ obj'[Owner].key = obj[p].key
    BY <1>1 DEF Thrown
  <1> HIDE DEF fresh, raw, bad
  <1> QED BY <1>1, <1>3, <1>4, <1>5, <1>6 DEF Running, View

\* A constructor that fails, or whose process dies.
LEMMA CreateEnds ==
    ASSUME NEW p \in Procs, Procs = {p}, TypeOK, One(p), CallInv, call[p].op = "create", Killed(p)
    PROVE  Abstract!CreateFails(obj[p].key)
  <1>1. /\ Running /\ Owner = p /\ call[p] \in Call /\ obj[p] \in FileObject
        /\ disk["pet"] \in FileContent
    BY ControlIs DEF Running, Names
  <1>2. /\ before.file = Abstract!NoFile /\ before.bak = Seen("bak")
        /\ call[p].pc = "stamp" => disk["pet"].key = obj[p].key
    BY <1>1 DEF CallInv, ConstructInv
  <1>3. call[p].pc \in {"ident", "meta", "header", "stamp"}
    BY <1>1 DEF One, ControlInv, Call, Locations, InitLocations
  <1>4. /\ disk["pet"].exists /\ ~disk["pet"].junk /\ disk["pet"].items = {}
        /\ disk["pet"].parts = 3 <=> call[p].pc = "stamp"
    BY <1>3 DEF One, FileInv, Fresh, InitLocations, PartsAt
  <1>5. \A n \in Names : Seen(n)' = Seen(n)
    BY SeenStays DEF Killed
  <1>6. Seen("pet") \in Abstract!CreationFailures(obj[p].key)
    <2>1. [rec : {}, key : {obj[p].key}] = {}
      OBVIOUS
    <2> QED BY <1>2, <1>3, <1>4, <2>1
            DEF Abstract!CreationFailures, Abstract!Unusable, Abstract!Good, Seen, Whole
  <1>7. SeenFile' = Abstract!NoFile /\ ~Running'
    BY <1>1, NoObjectSeen DEF Killed
  <1>8. /\ CallerFile = Abstract!NoFile /\ CallerFile' = Abstract!NoFile
        /\ CallerBak' = CallerBak /\ CallerPet' \in Abstract!CreationFailures(obj[p].key)
    BY <1>1, <1>2, <1>5, <1>6, <1>7, CallerIs DEF CallerPet, CallerBak, CallerFile, Names
  <1> QED BY <1>8 DEF Abstract!CreateFails, Abstract!NoFile

LEMMA OpenEnds ==
    ASSUME NEW p \in Procs, Procs = {p}, TypeOK, One(p), CallInv, call[p].op = "open", Killed(p)
    PROVE  UNCHANGED Abstract!vars
  <1>1. Running /\ Owner = p
    BY ControlIs DEF Running
  <1>2. /\ before.file = Abstract!NoFile /\ before.bak = Seen("bak") /\ before.pet = Seen("pet")
    BY <1>1 DEF CallInv, ConstructInv
  <1>3. \A n \in Names : Seen(n)' = Seen(n)
    BY SeenStays DEF Killed
  <1>4. SeenFile' = Abstract!NoFile /\ ~Running'
    BY <1>1, NoObjectSeen DEF Killed
  <1> QED BY <1>1, <1>2, <1>3, <1>4 DEF CallerPet, CallerBak, CallerFile, Names, Abstract!vars

\* A save that fails, or is killed.
LEMMA SaveEnds ==
    ASSUME NEW p \in Procs, Procs = {p}, TypeOK, One(p), CallInv, call[p].op = "save",
           Killed(p) \/ Thrown(p)
    PROVE  Abstract!Next \/ UNCHANGED Abstract!vars
  <1>1. /\ Running /\ Owner = p /\ call[p] \in Call /\ obj[p] \in FileObject
        /\ disk["pet"] \in FileContent
    BY ControlIs DEF Running, Names
  <1>2. /\ before.file \in Checked(obj[p].key) /\ before.bak = Seen("bak") /\ call[p].batch \in Lists
        /\ before.file.bad <=> call[p].pc = "trunc" /\ obj[p].raw # "open"
        /\ IF call[p].pc = "trunc" THEN before.pet = Seen("pet") /\ NotModified(p)
           ELSE before.pet = [state |-> "good", key |-> disk["pet"].key, items |-> before.pet.items]
    BY <1>1 DEF CallInv, SaveInv
  <1>3. call[p].pc \in {"trunc", "reopen", "write", "stamp"}
    BY <1>1 DEF One, ControlInv, Call, Locations, InitLocations
  <1>4. Seen("pet")' = Seen("pet") /\ Seen("bak")' = Seen("bak")
    BY SeenStays DEF Killed, Thrown
  <1>5. /\ ~Running'
        /\ \/ SeenFile' = Abstract!NoFile
           \/ \E fresh, bad \in BOOLEAN :
                 /\ SeenFile' = Abstract!Stopped(before.file, fresh, bad)
                 /\ SeenFile' = View(TRUE, obj[p].key, TRUE, fresh, bad)
                 /\ fresh <=> NotModified(p)
                 /\ ~bad => obj[p].raw = "open"
    <2>1. CASE Killed(p)
      BY <1>1, <2>1, NoObjectSeen DEF Killed
    <2>2. CASE Thrown(p)
      <3>1. PICK fresh, bad \in BOOLEAN :
               /\ ~Running'
               /\ fresh <=> NotModified(p)
               /\ ~bad => obj[p].raw = "open"
               /\ SeenFile' = View(TRUE, obj[p].key, TRUE, fresh, bad)
        BY <1>1, <1>3, <2>2, ObjectSeen
      <3>2. before.file \in Checked(obj[p].key)
        BY <1>2
      <3>3. Abstract!Stopped(before.file, fresh, bad) = View(TRUE, obj[p].key, TRUE, fresh, bad)
        <4>1. fresh \in BOOLEAN /\ bad \in BOOLEAN
          OBVIOUS
        <4> QED BY <3>2, <4>1, CheckedAged
      <3>4. SeenFile' = Abstract!Stopped(before.file, fresh, bad)
        BY <3>1, <3>3, Zenon
      <3> QED BY <3>1, <3>4
    <2> QED BY <2>1, <2>2
  <1>6. /\ CallerPet = before.pet /\ CallerBak = before.bak /\ CallerFile = before.file
        /\ CallerPet' = Seen("pet") /\ CallerBak' = before.bak /\ CallerFile' = SeenFile'
    BY <1>1, <1>2, <1>4, <1>5 DEF CallerPet, CallerBak, CallerFile
  <1>7. CASE call[p].pc = "trunc"
    <2>1. CASE SeenFile' = Abstract!NoFile
      BY <1>2, <1>6, <1>7, <2>1 DEF Abstract!Next, Abstract!Close
    <2>2. ASSUME NEW fresh \in BOOLEAN, NEW bad \in BOOLEAN,
                 SeenFile' = View(TRUE, obj[p].key, TRUE, fresh, bad),
                 SeenFile' = Abstract!Stopped(before.file, fresh, bad),
                 fresh <=> NotModified(p), ~bad => obj[p].raw = "open"
          PROVE  Abstract!Next \/ UNCHANGED Abstract!vars
      <3>1. fresh = TRUE
        BY <1>2, <1>7, <2>2
      <3>2. before.file = View(TRUE, obj[p].key, TRUE, TRUE, before.file.bad)
        BY <1>2, CheckedView, Zenon
      <3>3. before.file.bad \in BOOLEAN /\ before.file.open /\ before.file.inner
        BY <1>2 DEF Checked
      <3>4. CASE bad = before.file.bad
        <4>1. SeenFile' = before.file
          BY <2>2, <3>1, <3>2, <3>4, Zenon
        <4> QED BY <1>2, <1>6, <1>7, <4>1 DEF Abstract!vars
      <3>5. CASE bad # before.file.bad
        <4>1. bad = TRUE
          BY <1>2, <1>7, <2>2, <3>3, <3>5
        <4>2. SeenFile' = View(TRUE, obj[p].key, TRUE, TRUE, TRUE)
          BY <2>2, <3>1, <4>1, Zenon
        <4>3. [before.file EXCEPT !.bad = TRUE] = View(TRUE, obj[p].key, TRUE, TRUE, TRUE)
          BY <1>2, CheckedSpoilt
        <4>4. SeenFile' = [before.file EXCEPT !.bad = TRUE]
          BY <4>2, <4>3, Zenon
        <4>5. Abstract!Spoil
          BY <1>2, <1>6, <1>7, <3>3, <4>4 DEF Abstract!Spoil, Abstract!Spoilt
        <4> QED BY <4>5 DEF Abstract!Next
      <3> QED BY <3>4, <3>5
    <2> QED BY <1>5, <1>7, <2>1, <2>2
  <1>8. CASE call[p].pc # "trunc"
    <2> DEFINE items == disk["pet"].items
    <2>1. disk["pet"].exists /\ disk["pet"].parts = 3 /\ ~disk["pet"].junk /\ items \subseteq call[p].batch
      BY <1>3, <1>8 DEF One, FileInv, Rewriting
    <2>2. Seen("pet") = Abstract!Saved(before.pet, items)
      BY <1>2, <1>8, <2>1, SeenGood DEF Abstract!Saved
    <2>3. Abstract!Writes(before.pet, before.file) /\ before.file.open
      <3>1. ~before.file.bad
        BY <1>2, <1>8
      <3>2. before.pet.state = "good"
        BY <1>2, <1>8
      <3>3. before.file.open /\ before.file.inner /\ before.file.fresh
        BY <1>2 DEF Checked
      <3> QED BY <3>1, <3>2, <3>3 DEF Abstract!Writes, Abstract!Accepts
    <2> HIDE DEF items
    <2>4. \A b, c \in BOOLEAN :
             Abstract!Outcome(Seen("pet"), Abstract!Stopped(before.file, b, c))
                \in Abstract!SaveAborts(before.pet, before.file, call[p].batch)
      <3> TAKE b, c \in BOOLEAN
      <3>1. items \in SUBSET call[p].batch
        BY <2>1
      <3> QED BY <2>2, <3>1 DEF Abstract!SaveAborts
    <2>5. \E b, c \in BOOLEAN :
             SeenFile' \in {Abstract!Stopped(before.file, b, c), Abstract!NoFile}
      BY <1>5
    <2>6. \E o \in Abstract!SaveAborts(before.pet, before.file, call[p].batch) :
             Seen("pet") = o.pet /\ SeenFile' \in {o.file, Abstract!NoFile}
      BY <2>4, <2>5 DEF Abstract!Outcome
    <2>7. Abstract!SaveFails(call[p].batch)
      BY <1>6, <2>3, <2>6 DEF Abstract!SaveFails, Abstract!Leaves
    <2> QED BY <1>2, <2>7 DEF Abstract!Next
  <1> QED BY <1>7, <1>8

\* A key change that fails, or is killed.
LEMMA NewKeyEnds ==
    ASSUME NEW p \in Procs, Procs = {p}, TypeOK, One(p), CallInv, call[p].op = "newkey",
           Killed(p) \/ Thrown(p)
    PROVE  Abstract!Next
  <1>1. /\ Running /\ Owner = p /\ call[p] \in Call /\ obj[p] \in FileObject
        /\ obj[p].key \in Keys /\ call[p].other \in Keys
    BY ControlIs DEF Running, Call, FileObject
  <1> DEFINE old == IF call[p].pc \in {"rename", "openbak"} THEN obj[p].key ELSE call[p].other
             new == IF call[p].pc \in {"rename", "openbak"} THEN call[p].other ELSE obj[p].key
  <1>2. /\ before.file \in Checked(old)
        /\ IF call[p].pc = "rename"
           THEN before.pet = Seen("pet") /\ before.bak = Seen("bak") /\ NotModified(p)
           ELSE before.pet = Seen("bak")
        /\ call[p].pc \notin {"rename", "openbak"} => Seen("pet") \in Abstract!Begun(before.pet, call[p].other, obj[p].key)
    BY <1>1 DEF CallInv, NewKeyInv
  <1>3. Seen("pet")' = Seen("pet") /\ Seen("bak")' = Seen("bak")
    BY SeenStays DEF Killed, Thrown
  <1>4. /\ ~Running'
        /\ \/ SeenFile' = Abstract!NoFile
           \/ \E inner, fresh, bad \in BOOLEAN :
                 /\ inner <=> call[p].pc \notin {"rename", "openbak"}
                 /\ fresh <=> NotModified(p)
                 /\ bad => inner
                 /\ SeenFile' = View(TRUE, obj[p].key, inner, fresh, bad)
    <2>1. CASE Killed(p)
      BY <1>1, <2>1, NoObjectSeen DEF Killed
    <2>2. CASE Thrown(p)
      <3>1. PICK inner \in BOOLEAN : inner <=> call[p].pc \notin {"rename", "openbak"}
        OBVIOUS
      <3> QED BY <1>1, <2>2, <3>1, ObjectSeen
    <2> QED BY <2>1, <2>2
  <1>5. /\ CallerPet = before.pet /\ CallerBak = before.bak /\ CallerFile \in Checked(old)
        /\ CallerPet' = Seen("pet") /\ CallerBak' = Seen("bak") /\ CallerFile' = SeenFile'
    BY <1>1, <1>2, <1>3, <1>4 DEF CallerPet, CallerBak, CallerFile
  <1>6. CallerFile.open /\ CallerFile.inner /\ CallerFile.fresh /\ CallerFile.key = old
    BY <1>5 DEF Checked
  <1> HIDE DEF old, new
  <1>7. CASE call[p].pc = "rename"
    <2>1. old = obj[p].key /\ CallerPet' = CallerPet /\ CallerBak' = CallerBak
      BY <1>2, <1>5, <1>7 DEF old
    <2>2. CASE SeenFile' = Abstract!NoFile
      BY <1>5, <2>1, <2>2 DEF Abstract!Next, Abstract!Close
    <2>3. CASE SeenFile' = View(TRUE, obj[p].key, FALSE, TRUE, FALSE)
      <3>1. CallerFile' = [CallerFile EXCEPT !.inner = FALSE, !.bad = FALSE]
        BY <1>5, <2>1, <2>3, CheckedReset, Zenon
      <3> QED BY <1>6, <2>1, <3>1 DEF Abstract!Next, Abstract!SetNewKeyFails
    <2>4. ASSUME NEW inner \in BOOLEAN, NEW fresh \in BOOLEAN, NEW bad \in BOOLEAN,
                 inner <=> call[p].pc \notin {"rename", "openbak"},
                 fresh <=> NotModified(p), bad => inner
          PROVE  inner = FALSE /\ fresh = TRUE /\ bad = FALSE
      BY <1>2, <1>7, <2>4
    <2> QED BY <1>4, <2>2, <2>3, <2>4
  <1>8. ASSUME NEW o \in Abstract!KeyAborts(CallerPet, CallerFile, new), CallerBak' = CallerPet,
               CallerPet' = o.pet, CallerFile' \in {o.file, Abstract!NoFile}
        PROVE  Abstract!Next
    <2>1. new \in Keys
      BY <1>1 DEF new
    <2>2. Abstract!SetNewKeyAborts(new)
      BY <1>6, <1>8 DEF Abstract!SetNewKeyAborts, Abstract!Leaves
    <2> QED BY <2>1, <2>2 DEF Abstract!Next
  <1>9. CASE call[p].pc = "openbak"
    <2>1. ~disk["pet"].exists
      BY <1>9 DEF One, FileInv
    <2>2. Seen("pet") = Abstract!Unusable("absent") /\ ~NotModified(p)
      BY <2>1 DEF Seen, Whole, NotModified, Abstract!Unusable
    <2>3. old = obj[p].key
      BY <1>9 DEF old
    <2>4. SeenFile' \in {Abstract!Hollow(CallerFile), Abstract!NoFile}
      <3>1. ASSUME NEW inner \in BOOLEAN, NEW fresh \in BOOLEAN, NEW bad \in BOOLEAN,
                   inner <=> call[p].pc \notin {"rename", "openbak"},
                   fresh <=> NotModified(p), bad => inner
            PROVE  inner = FALSE /\ fresh = FALSE /\ bad = FALSE
        BY <1>9, <2>2, <3>1
      <3>2. Abstract!Hollow(CallerFile) = View(TRUE, obj[p].key, FALSE, FALSE, FALSE)
        BY <1>5, <2>3, CheckedHollow
      <3>3. SeenFile' = Abstract!NoFile \/ SeenFile' = View(TRUE, obj[p].key, FALSE, FALSE, FALSE)
        BY <1>4, <3>1
      <3> QED BY <3>2, <3>3
    <2> DEFINE o == Abstract!Outcome(Abstract!Unusable("absent"), Abstract!Hollow(CallerFile))
    <2>5. o \in Abstract!KeyAborts(CallerPet, CallerFile, new)
      BY DEF Abstract!KeyAborts
    <2>6. o.pet = Abstract!Unusable("absent") /\ o.file = Abstract!Hollow(CallerFile)
      BY DEF Abstract!Outcome
    <2> HIDE DEF o
    <2> QED BY <1>2, <1>5, <1>8, <1>9, <2>2, <2>4, <2>5, <2>6
  <1>10. CASE call[p].pc \notin {"rename", "openbak"}
    <2>1. old = call[p].other /\ new = obj[p].key
      BY <1>10 DEF old, new
    <2>2. Seen("pet") \in Abstract!Begun(CallerPet, CallerFile.key, new) /\ Seen("bak") = CallerPet
      BY <1>2, <1>5, <1>6, <1>10, <2>1
    <2>3. PICK fresh, bad \in BOOLEAN :
             SeenFile' \in {Abstract!Swapped(CallerFile, new, fresh, bad), Abstract!NoFile}
      <3>1. \A b, c \in BOOLEAN : Abstract!Swapped(CallerFile, new, b, c) = View(TRUE, new, TRUE, b, c)
        BY <1>5, CheckedSwapped
      <3>2. \A inner \in BOOLEAN : (inner <=> call[p].pc \notin {"rename", "openbak"}) => inner = TRUE
        BY <1>10
      <3>3. \/ SeenFile' = Abstract!NoFile
            \/ \E b, c \in BOOLEAN : SeenFile' = View(TRUE, new, TRUE, b, c)
        BY <1>4, <2>1, <3>2
      <3> QED BY <3>1, <3>3
    <2> DEFINE o == Abstract!Outcome(Seen("pet"), Abstract!Swapped(CallerFile, new, fresh, bad))
    <2>4. o \in Abstract!KeyAborts(CallerPet, CallerFile, new)
      BY <2>2 DEF Abstract!KeyAborts
    <2>5. o.pet = Seen("pet") /\ o.file = Abstract!Swapped(CallerFile, new, fresh, bad)
      BY DEF Abstract!Outcome
    <2> HIDE DEF o
    <2> QED BY <1>5, <1>8, <2>2, <2>3, <2>4, <2>5
  <1> QED BY <1>7, <1>9, <1>10

\* The new file of a key change is created, and cannot be secured.
LEMMA NewFileInsecureEnds ==
    ASSUME NEW p \in Procs, Procs = {p}, TypeOK, One(p), CallInv, NewFileInsecure(p)
    PROVE  Abstract!Next /\ CallInv'
  <1>1. /\ Running /\ Owner = p /\ call \in [Procs -> Call] /\ obj \in [Procs -> FileObject]
        /\ obj[p] \in FileObject /\ obj[p].key \in Keys /\ disk \in [Names -> FileContent]
        /\ call[p].pc = "create" /\ call[p].op = "newkey"
    BY ControlIs DEF Running, Call, FileObject, TypeOK, NewFileInsecure, One, ControlInv
  <1>2. /\ before.file \in Checked(call[p].other) /\ before.pet = Seen("bak")
    BY <1>1 DEF CallInv, NewKeyInv
  <1>3. /\ disk'["pet"] = Empty(obj[p].key) /\ disk'["bak"] = disk["bak"]
        /\ call'[p] = Idle /\ obj'[p].raw = "open" /\ obj'[p].key = obj[p].key
    BY <1>1 DEF NewFileInsecure, Names, Return, WithResult, WithStream, FileObject
  <1>4. Seen("bak")' = Seen("bak")
    BY <1>3, SeenStays
  <1>5. /\ disk'["pet"].exists /\ disk'["pet"].parts = 0 /\ ~disk'["pet"].junk
    BY <1>3 DEF Empty
  <1>6. Seen("pet")' = Abstract!Unusable("broken")
    BY <1>5 DEF Seen, Whole, Abstract!Unusable
  <1>7. call'[p].pc = "idle" /\ call'[p].op = "none"
    BY <1>3 DEF Idle, At
  <1>8. PICK fresh \in BOOLEAN : SeenFile' = View(TRUE, obj[p].key, TRUE, fresh, FALSE)
    <2> DEFINE fresh == call'[Owner].pc # "closed" /\ NotModified(Owner)'
               raw   == obj'[Owner].raw # "none"
               open  == call'[Owner].pc # "closed"
               bad   == obj'[Owner].raw \in {"bad", "closed"}
    <2>1. raw = TRUE /\ open = TRUE /\ bad = FALSE /\ fresh \in BOOLEAN
      BY <1>1, <1>3, <1>7
    <2>2. SeenFile' = [open |-> open, key |-> obj'[Owner].key, inner |-> raw, fresh |-> fresh,
                       bad |-> bad]
      BY <2>1 DEF SeenFile
    <2> HIDE DEF fresh, raw, open, bad
    <2> QED BY <1>1, <1>3, <2>1, <2>2 DEF View
  <1>9. /\ ~Running' /\ CallerPet = before.pet /\ CallerFile \in Checked(call[p].other)
        /\ CallerPet' = Abstract!Unusable("broken") /\ CallerBak' = before.pet
        /\ CallerFile' = Abstract!Swapped(CallerFile, obj[p].key, fresh, FALSE)
    <2>1. ~Running'
      BY <1>1, <1>7 DEF Running
    <2>2. Abstract!Swapped(before.file, obj[p].key, fresh, FALSE)
             = View(TRUE, obj[p].key, TRUE, fresh, FALSE)
      <3>1. FALSE \in BOOLEAN
        OBVIOUS
      <3> QED BY <1>2, <3>1, CheckedSwapped, Zenon
    <2> QED BY <1>1, <1>2, <1>4, <1>6, <1>8, <2>1, <2>2 DEF CallerPet, CallerBak, CallerFile
  <1>10. CallerFile.open /\ CallerFile.inner /\ CallerFile.fresh
    BY <1>9 DEF Checked
  <1>11. Abstract!Next
    <2> DEFINE o == Abstract!Outcome(CallerPet', CallerFile')
    <2>1. o \in Abstract!KeyAborts(CallerPet, CallerFile, obj[p].key)
      <3>1. CallerPet' \in Abstract!Begun(CallerPet, CallerFile.key, obj[p].key)
        BY <1>9 DEF Abstract!Begun
      <3>2. ASSUME NEW b \in BOOLEAN
            PROVE  Abstract!Outcome(CallerPet', Abstract!Swapped(CallerFile, obj[p].key, fresh, b))
                      \in Abstract!KeyAborts(CallerPet, CallerFile, obj[p].key)
        BY <3>1 DEF Abstract!KeyAborts
      <3>3. FALSE \in BOOLEAN
        OBVIOUS
      <3>4. Abstract!Outcome(CallerPet', Abstract!Swapped(CallerFile, obj[p].key, fresh, FALSE))
               \in Abstract!KeyAborts(CallerPet, CallerFile, obj[p].key)
        BY <3>2, <3>3, Zenon
      <3> QED BY <1>9, <3>4, Zenon
    <2>2. o.pet = CallerPet' /\ o.file = CallerFile'
      BY DEF Abstract!Outcome
    <2> HIDE DEF o
    <2>3. Abstract!SetNewKeyAborts(obj[p].key)
      BY <1>9, <1>10, <2>1, <2>2 DEF Abstract!SetNewKeyAborts, Abstract!Leaves
    <2> QED BY <1>1, <2>3 DEF Abstract!Next
  <1>12. \A n \in Names : ~disk'[n].junk
    BY <1>3, <1>5 DEF Names, CallInv
  <1> QED BY <1>1, <1>7, <1>11, <1>12 DEF CallInv, ConstructInv, SaveInv, NewKeyInv

\* A call that succeeds, with its stamp.
LEMMA StampEnds ==
    ASSUME NEW p \in Procs, Procs = {p}, TypeOK, One(p), CallInv, Stamp(p)
    PROVE  Abstract!Next /\ CallInv'
  <1>1. /\ Running /\ Owner = p /\ call \in [Procs -> Call] /\ obj \in [Procs -> FileObject]
        /\ call[p] \in Call /\ obj[p] \in FileObject /\ obj[p].key \in Keys
        /\ disk' = disk /\ disk["pet"].exists /\ disk["pet"] \in FileContent
        /\ call[p].pc = "stamp" /\ call[p].op \in {"create", "open", "save", "newkey"}
    BY ControlIs DEF Running, Call, FileObject, TypeOK, Stamp, One, ControlInv, Names
  <1>2. /\ call'[p] = Idle /\ obj'[p].key = obj[p].key /\ obj'[p].raw = obj[p].raw
        /\ obj'[p].stamp = disk["pet"].mtime
    BY <1>1 DEF Stamp, Return, WithResult, FileObject
  <1>3. call'[p].pc = "idle" /\ call'[p].op = "none" /\ obj[p].raw = "open"
    BY <1>1, <1>2 DEF Idle, At, One, ControlInv
  <1>4. Seen("pet")' = Seen("pet") /\ Seen("bak")' = Seen("bak") /\ ~Running'
    BY <1>1, <1>3, SeenStays DEF Running
  <1>5. SeenFile' = View(TRUE, obj[p].key, TRUE, TRUE, FALSE)
    <2> DEFINE fresh == call'[Owner].pc # "closed" /\ NotModified(Owner)'
               raw   == obj'[Owner].raw # "none"
               open  == call'[Owner].pc # "closed"
               bad   == obj'[Owner].raw \in {"bad", "closed"}
    <2>1. raw = TRUE /\ open = TRUE /\ fresh = TRUE /\ bad = FALSE
      BY <1>1, <1>2, <1>3 DEF NotModified
    <2>2. SeenFile' = [open |-> open, key |-> obj'[Owner].key, inner |-> raw, fresh |-> fresh,
                       bad |-> bad]
      BY <2>1 DEF SeenFile
    <2> HIDE DEF fresh, raw, open, bad
    <2> QED BY <1>1, <1>2, <2>1, <2>2 DEF View
  <1>6. /\ CallerPet = before.pet /\ CallerBak = before.bak /\ CallerFile = before.file
        /\ CallerPet' = Seen("pet") /\ CallerBak' = Seen("bak")
        /\ CallerFile' = View(TRUE, obj[p].key, TRUE, TRUE, FALSE)
    BY <1>1, <1>4, <1>5 DEF CallerPet, CallerBak, CallerFile
  <1>7. ASSUME call[p].op = "create" PROVE Abstract!Next
    <2>1. before.file = Abstract!NoFile /\ before.bak = Seen("bak") /\ disk["pet"].key = obj[p].key
      BY <1>1, <1>7 DEF CallInv, ConstructInv
    <2>2. ~disk["pet"].junk /\ disk["pet"].items = {} /\ disk["pet"].parts = 3
      BY <1>1, <1>7 DEF One, FileInv, Fresh, PartsAt
    <2>3. Seen("pet") = [state |-> "good", key |-> obj[p].key, items |-> {}]
      BY <1>1, <2>1, <2>2, SeenGood
    <2>4. Seen("pet") = Abstract!Good(obj[p].key, {})
      <3>1. [rec : {}, key : {obj[p].key}] = {}
        OBVIOUS
      <3> QED BY <2>3, <3>1 DEF Abstract!Good
    <2>5. CallerFile' = Abstract!Renewed(CallerFile, obj[p].key) /\ ~CallerFile.open
      <3>1. Abstract!Renewed(Abstract!NoFile, obj[p].key) = View(TRUE, obj[p].key, TRUE, TRUE, FALSE)
        BY ObjectRenewed
      <3>2. ~Abstract!NoFile.open
        BY DEF Abstract!NoFile
      <3> QED BY <1>6, <2>1, <3>1, <3>2
    <2>6. Abstract!Create(obj[p].key)
      BY <1>6, <2>1, <2>4, <2>5 DEF Abstract!Create
    <2> QED BY <1>1, <2>6 DEF Abstract!Next
  <1>8. ASSUME call[p].op = "open" PROVE Abstract!Next
    <2>1. /\ before.file = Abstract!NoFile /\ before.bak = Seen("bak") /\ before.pet = Seen("pet")
          /\ disk["pet"].parts = 3 /\ ~disk["pet"].junk
      BY <1>1, <1>8 DEF CallInv, ConstructInv, Names
    <2>2. Seen("pet").state = "good"
      BY <1>1, <2>1, SeenGood
    <2>3. CallerFile' = Abstract!Renewed(CallerFile, obj[p].key) /\ ~CallerFile.open
      <3>1. Abstract!Renewed(Abstract!NoFile, obj[p].key) = View(TRUE, obj[p].key, TRUE, TRUE, FALSE)
        BY ObjectRenewed
      <3>2. ~Abstract!NoFile.open
        BY DEF Abstract!NoFile
      <3> QED BY <1>6, <2>1, <3>1, <3>2
    <2>4. Abstract!Open(obj[p].key)
      BY <1>6, <2>1, <2>2, <2>3 DEF Abstract!Open
    <2> QED BY <1>1, <2>4 DEF Abstract!Next
  <1>9. ASSUME call[p].op = "save" PROVE Abstract!Next
    <2>1. /\ before.file \in Checked(obj[p].key) /\ before.bak = Seen("bak") /\ call[p].batch \in Lists
          /\ before.file.bad = FALSE
          /\ before.pet = [state |-> "good", key |-> disk["pet"].key, items |-> before.pet.items]
      BY <1>1, <1>9 DEF CallInv, SaveInv, Checked
    <2>2. ~disk["pet"].junk /\ disk["pet"].parts = 3 /\ disk["pet"].items = call[p].batch
      BY <1>1, <1>9 DEF One, FileInv, Rewriting
    <2>3. Seen("pet") = [state |-> "good", key |-> disk["pet"].key, items |-> call[p].batch]
      BY <1>1, <2>2, SeenGood
    <2>4. Seen("pet") = Abstract!Saved(before.pet, call[p].batch)
      BY <2>1, <2>3 DEF Abstract!Saved
    <2>5. CallerFile' = CallerFile /\ CallerFile.open /\ Abstract!Writes(CallerPet, CallerFile)
      <3>1. before.file = View(TRUE, obj[p].key, TRUE, TRUE, FALSE)
        BY <2>1, CheckedView
      <3> QED BY <1>6, <2>1, <3>1 DEF View, Abstract!Writes, Abstract!Accepts
    <2>6. Abstract!Save(call[p].batch)
      BY <1>6, <2>1, <2>4, <2>5 DEF Abstract!Save
    <2> QED BY <2>1, <2>6 DEF Abstract!Next
  <1>10. ASSUME call[p].op = "newkey" PROVE Abstract!Next
    <2>1. /\ before.file \in Checked(call[p].other) /\ before.pet = Seen("bak")
          /\ before.pet.state = "good"
          /\ call[p].batch \subseteq Rewritten(before.pet, call[p].other, obj[p].key)
      BY <1>1, <1>10 DEF CallInv, NewKeyInv, Rewritten
    <2>2. /\ ~disk["pet"].junk /\ disk["pet"].parts = 3 /\ disk["pet"].items = call[p].batch
          /\ disk["pet"].key = obj[p].key
      BY <1>1, <1>10 DEF One, FileInv, Rewriting
    <2>3. Seen("pet") = [state |-> "good", key |-> obj[p].key, items |-> call[p].batch]
      BY <1>1, <2>2, SeenGood
    <2>4. Seen("pet") \in Abstract!Rekeyings(before.pet, call[p].other, obj[p].key)
      BY <2>1, <2>3, BatchIsBegun
    <2>5. CallerFile.open /\ Abstract!Accepts(CallerPet, CallerFile) /\ CallerFile.key = call[p].other
      BY <1>6, <2>1 DEF Checked, Abstract!Accepts
    <2>6. CallerFile' = Abstract!Renewed(CallerFile, obj[p].key)
      BY <1>6, <2>1, ObjectRenewed
    <2>7. Abstract!SetNewKey(obj[p].key)
      BY <1>6, <2>1, <2>4, <2>5, <2>6 DEF Abstract!SetNewKey
    <2> QED BY <1>1, <2>7 DEF Abstract!Next
  <1>11. CallInv'
    BY <1>1, <1>3 DEF CallInv, ConstructInv, SaveInv, NewKeyInv
  <1> QED BY <1>1, <1>7, <1>8, <1>9, <1>10, <1>11

\* Any other end.
LEMMA CallEnds ==
    ASSUME NEW p \in Procs, Procs = {p}, TypeOK, One(p), CallInv, Running,
           Killed(p) \/ (Thrown(p) /\ ~Constructing(p))
    PROVE  (Abstract!Next \/ UNCHANGED Abstract!vars) /\ CallInv'
  <1>1. /\ Owner = p /\ call[p].op \in {"create", "open", "save", "newkey"} /\ obj[p].key \in Keys
    BY ControlIs DEF Running, Call, FileObject
  <1>2. ASSUME call[p].op = "create" PROVE Abstract!Next
    <2>1. Abstract!CreateFails(obj[p].key)
      BY <1>2, CreateEnds DEF Constructing
    <2> QED BY <1>1, <2>1 DEF Abstract!Next
  <1>3. call[p].op = "open" => UNCHANGED Abstract!vars
    BY OpenEnds DEF Constructing
  <1>4. call[p].op = "save" => Abstract!Next \/ UNCHANGED Abstract!vars
    BY SaveEnds
  <1>5. call[p].op = "newkey" => Abstract!Next
    BY NewKeyEnds
  <1>6. /\ call'[p].op = "none" /\ disk' = disk
        /\ call'[p].pc = "closed" => obj'[p].raw = "none"
    BY DEF Killed, Thrown, Closed, Idle, At, NoObject
  <1>7. CallInv'
    BY <1>1, <1>6 DEF CallInv, ConstructInv, SaveInv, NewKeyInv
  <1>8. Abstract!Next \/ UNCHANGED Abstract!vars
    BY <1>1, <1>2, <1>3, <1>4, <1>5
  <1> QED BY <1>7, <1>8

-----------------------------------------------------------------------------
(***************************************************************************)
(* Every step is a step of RecordStore, or one the caller does not see.    *)
(***************************************************************************)
Implements == (Abstract!Next \/ UNCHANGED Abstract!vars) /\ CallInv'

LEMMA BeginsUnseen ==
    ASSUME ~Running, Running', before' = Snapshot
    PROVE  UNCHANGED Abstract!vars
  BY DEF CallerPet, CallerBak, CallerFile, Snapshot, Abstract!vars

LEMMA GoesOnUnseen ==
    ASSUME Running, Running', before' = before
    PROVE  UNCHANGED Abstract!vars
  BY DEF CallerPet, CallerBak, CallerFile, Abstract!vars

LEMMA IdleUnseen ==
    ASSUME NEW p \in Procs, Procs = {p}, TypeOK, One(p), CallInv, ~Running,
           disk' = disk, call'[p].op = "none", call'[p].pc = call[p].pc,
           obj'[p].key = obj[p].key, obj'[p].stamp = obj[p].stamp,
           obj'[p].raw = obj[p].raw
    PROVE  UNCHANGED Abstract!vars /\ CallInv'
  <1>1. Owner = p /\ ~Running'
    BY OwnerIs DEF Running
  <1>2. \A n \in Names : Seen(n)' = Seen(n)
    BY SeenStays
  <1>3. SeenFile' = SeenFile
    BY <1>1, SeenFileStays
  <1>4. UNCHANGED Abstract!vars
    BY <1>1, <1>2, <1>3 DEF CallerPet, CallerBak, CallerFile, Abstract!vars, Names
  <1>5. CallInv'
    BY <1>1 DEF CallInv, ConstructInv, SaveInv, NewKeyInv
  <1> QED BY <1>4, <1>5

\* An exception ends the call.
LEMMA FailEnds ==
    ASSUME NEW p \in Procs, Procs = {p}, TypeOK, One(p), CallInv, Running, disk' = disk,
           NEW raw \in RawStates, Fail(p, raw), raw = "open" => obj[p].raw = "open",
           Constructing(p) \/ (raw = "none" <=> call[p].pc \in {"rename", "openbak"})
    PROVE  Implements
  <1>1. call \in [Procs -> Call] /\ obj \in [Procs -> FileObject]
    BY DEF TypeOK
  <1>2. CASE Constructing(p)
    <2>1. Killed(p)
      BY <1>1, <1>2 DEF Fail, Abandon, Killed
    <2> QED BY <2>1, CallEnds DEF Implements
  <1>3. CASE ~Constructing(p)
    <2>1. obj'[p] = Ended(obj[p], "failed", raw) /\ call'[p] = Idle
      BY <1>1, <1>3 DEF Fail, Throw, Return
    <2>2. obj[p] \in FileObject
      BY <1>1
    <2>3. obj'[p].key = obj[p].key /\ obj'[p].stamp = obj[p].stamp /\ obj'[p].raw = raw
      BY <2>1, <2>2 DEF Ended, WithResult, WithStream, FileObject
    <2>4. Thrown(p)
      BY <1>3, <2>1, <2>3 DEF Thrown
    <2> QED BY <1>3, <2>4, CallEnds DEF Implements
  <1> QED BY <1>2, <1>3

\* The program or the object ends.
LEMMA StopImplements ==
    ASSUME NEW p \in Procs, Procs = {p}, TypeOK, One(p), CallInv, Stop(p)
    PROVE  Implements
  <1>1. call \in [Procs -> Call] /\ obj \in [Procs -> FileObject] /\ Owner = p
    BY OwnerIs DEF TypeOK
  <1>2. Killed(p)
    BY <1>1 DEF Stop, Killed
  <1>3. CASE Running
    BY <1>2, <1>3, CallEnds DEF Implements
  <1>4. CASE ~Running
    <2>1. SeenFile' = Abstract!NoFile /\ ~Running'
      BY <1>1, <1>2, NoObjectSeen DEF Killed
    <2>2. \A n \in Names : Seen(n)' = Seen(n)
      BY <1>2, SeenStays DEF Killed
    <2>3. Abstract!Close
      BY <1>4, <2>1, <2>2 DEF CallerPet, CallerBak, CallerFile, Names, Abstract!Close
    <2>4. CallInv'
      BY <1>1, <1>2 DEF Killed, Closed, At, NoObject, CallInv, ConstructInv, SaveInv, NewKeyInv
    <2> QED BY <2>3, <2>4 DEF Implements, Abstract!Next
  <1> QED BY <1>3, <1>4

\* The file is created and cannot be secured.
LEMMA CreateRawFailsImplements ==
    ASSUME NEW p \in Procs, Procs = {p}, TypeOK, One(p), CallInv, NEW k \in Keys, CreateRawFails(p, k)
    PROVE  Implements
  <1>1. /\ Owner = p /\ ~Running /\ call' = call /\ obj' = obj /\ call[p].pc = "closed"
        /\ call[p].op = "none" /\ obj[p].raw = "none"
        /\ disk'["pet"] = Empty(k) /\ disk'["bak"] = disk["bak"]
    BY OwnerIs DEF TypeOK, Running, CreateRawFails, One, ControlInv, CallInv, Names
  <1>2. disk'["pet"].exists /\ disk'["pet"].parts = 0 /\ ~disk'["pet"].junk
    BY <1>1 DEF Empty
  <1>3. Seen("pet")' = Abstract!Unusable("broken") /\ Seen("bak")' = Seen("bak")
    BY <1>1, <1>2, SeenStays DEF Seen, Whole, Abstract!Unusable
  <1>4. SeenFile = Abstract!NoFile /\ SeenFile' = Abstract!NoFile /\ ~Running'
    <2>1. (call[Owner].pc = "closed" /\ obj[Owner].raw = "none" => SeenFile = Abstract!NoFile)'
      BY ClosedSeen, PTL
    <2>2. SeenFile = Abstract!NoFile
      BY <1>1, ClosedSeen
    <2>3. SeenFile' = Abstract!NoFile
      BY <1>1, <2>1 DEF Abstract!NoFile
    <2> QED BY <1>1, <2>2, <2>3 DEF Running
  <1>5. Abstract!CreateFails(k)
    BY <1>1, <1>3, <1>4 DEF CallerPet, CallerBak, CallerFile, Abstract!CreateFails, Abstract!NoFile,
          Abstract!CreationFailures
  <1>6. CallInv'
    BY <1>1, <1>2 DEF CallInv, ConstructInv, SaveInv, NewKeyInv, Names
  <1> QED BY <1>5, <1>6 DEF Implements, Abstract!Next

\* The stream of an object is in error after a reading that was cut short.
LEMMA SpoiltSeen ==
    ASSUME call' = call, call[Owner].pc = "idle", obj[Owner].raw = "open",
           obj'[Owner].raw = "bad", obj'[Owner].key = obj[Owner].key,
           NotModified(Owner)' <=> NotModified(Owner)
    PROVE  SeenFile' = [SeenFile EXCEPT !.bad = TRUE] /\ SeenFile.open /\ SeenFile.inner
  <1> DEFINE fresh == call[Owner].pc # "closed" /\ NotModified(Owner)
             later == call'[Owner].pc # "closed" /\ NotModified(Owner)'
             key   == IF call[Owner].pc # "closed" THEN obj[Owner].key ELSE NoKey
             bad   == obj[Owner].raw \in {"bad", "closed"}
             worse == obj'[Owner].raw \in {"bad", "closed"}
             inner == obj[Owner].raw # "none"
             still == obj'[Owner].raw # "none"
             open  == call[Owner].pc # "closed"
             close == call'[Owner].pc # "closed"
  <1>1. /\ open = TRUE /\ close = TRUE /\ inner = TRUE /\ still = TRUE /\ bad = FALSE
        /\ worse = TRUE /\ later = fresh /\ fresh \in BOOLEAN /\ key = obj[Owner].key
    OBVIOUS
  <1>2. SeenFile = View(open, key, inner, fresh, bad)
    BY SeenIs
  <1>3. SeenFile' = [open |-> close, key |-> IF close THEN obj'[Owner].key ELSE NoKey,
                     inner |-> still, bad |-> worse, fresh |-> later]
    BY Zenon DEF SeenFile
  <1> HIDE DEF fresh, later, key, bad, worse, inner, still, open, close
  <1> DEFINE k == obj[Owner].key
             f == View(TRUE, k, TRUE, fresh, FALSE)
             g == [f EXCEPT !.bad = TRUE]
  <1>4. SeenFile = f
    BY <1>1, <1>2
  <1>5. SeenFile' = View(TRUE, k, TRUE, fresh, TRUE)
    BY <1>1, <1>3 DEF View
  <1>6. f.open = TRUE /\ f.key = k /\ f.inner = TRUE /\ f.fresh = fresh /\ f \in Views({k})
    BY <1>1 DEF View, Views
  <1> HIDE DEF f
  <1>7. /\ g \in Views({k}) /\ g.open = TRUE /\ g.key = k /\ g.inner = TRUE /\ g.fresh = fresh
        /\ g.bad = TRUE
    <2>1. TRUE \in BOOLEAN
      OBVIOUS
    <2> QED BY <1>6, <2>1, Zenon DEF Views
  <1>8. g = View(TRUE, k, TRUE, fresh, TRUE)
    BY <1>7, ViewIs, Zenon
  <1> QED BY <1>4, <1>5, <1>6, <1>8

\* Where no call runs, a check that refuses and a reading of the whole file are
\* nothing to the caller, and any other reading spoils the stream.
LEMMA RestingImplements ==
    ASSUME NEW p \in Procs, Procs = {p}, TypeOK, One(p), CallInv,
           CheckRefuses(p) \/ Read(p) \/ ReadFails(p)
    PROVE  Implements
  <1>1. /\ call \in [Procs -> Call] /\ obj \in [Procs -> FileObject] /\ obj[p] \in FileObject
        /\ call[p].pc = "idle" /\ call[p].op = "none" /\ disk' = disk /\ ~Running /\ Owner = p
    BY ControlIs DEF TypeOK, CheckRefuses, Read, ReadFails, One, ControlInv, Running
  <1>2. CASE CheckRefuses(p)
    <2>1. PICK res : Throw(p, res, obj[p].raw)
      BY <1>2 DEF CheckRefuses
    <2>2. obj'[p] = Ended(obj[p], res, obj[p].raw) /\ call'[p] = Idle
      BY <1>1, <2>1 DEF Throw, Return
    <2>3. /\ call'[p].op = "none" /\ call'[p].pc = "idle"
          /\ obj'[p].key = obj[p].key /\ obj'[p].stamp = obj[p].stamp /\ obj'[p].raw = obj[p].raw
      BY <1>1, <2>2 DEF Ended, WithResult, WithStream, FileObject, Idle, At
    <2> QED BY <1>1, <2>3, IdleUnseen DEF Implements
  <1>3. CASE Read(p) \/ ReadFails(p)
    <2>1. PICK raw \in {"open", "bad"} :
             obj' = [obj EXCEPT ![p] = WithStream(obj[p], raw, obj[p].fd)]
      BY <1>3 DEF Read, ReadFails
    <2>2. call' = call /\ obj[p].raw = "open"
      BY <1>3 DEF Read, ReadFails
    <2>3. obj'[p].key = obj[p].key /\ obj'[p].stamp = obj[p].stamp /\ obj'[p].raw = raw
      BY <1>1, <2>1 DEF WithStream, FileObject
    <2>4. CASE raw = "open"
      BY <1>1, <2>2, <2>3, <2>4, IdleUnseen DEF Implements
    <2>5. CASE raw = "bad"
      <3>1. ~Running' /\ \A n \in Names : Seen(n)' = Seen(n)
        BY <1>1, <2>2, SeenStays DEF Running
      <3>2. NotModified(Owner)' <=> NotModified(Owner)
        BY <1>1, <2>3 DEF NotModified
      <3>3. SeenFile' = [SeenFile EXCEPT !.bad = TRUE] /\ SeenFile.open /\ SeenFile.inner
        BY <1>1, <2>2, <2>3, <2>5, <3>2, SpoiltSeen
      <3>4. Abstract!Spoil
        BY <1>1, <3>1, <3>3 DEF CallerPet, CallerBak, CallerFile, Abstract!Spoil, Abstract!Spoilt, Names
      <3>5. CallInv'
        BY <1>1, <2>2 DEF CallInv, ConstructInv, SaveInv, NewKeyInv
      <3> QED BY <3>4, <3>5 DEF Implements, Abstract!Next
    <2> QED BY <2>1, <2>4, <2>5
  <1> QED BY <1>2, <1>3

\* A call fails.
LEMMA FailureImplements ==
    ASSUME NEW p \in Procs, Procs = {p}, TypeOK, One(p), CallInv,
           \/ HeaderRejected(p) \/ WritePartFails(p) \/ ReadHeaderFails(p) \/ TruncateFails(p)
           \/ ReopenFails(p) \/ WriteFails(p) \/ StampFails(p)
           \/ RenameFails(p) \/ OpenBackupFails(p) \/ NewFileFails(p) \/ ConvertFails(p)
    PROVE  Implements
  <1>1. /\ Owner = p /\ disk' = disk /\ Running
    BY ControlIs DEF HeaderRejected, WritePartFails, ReadHeaderFails, TruncateFails, ReopenFails,
          WriteFails, StampFails, RenameFails, OpenBackupFails, NewFileFails, ConvertFails,
          InitLocations
  <1>2. CASE HeaderRejected(p)
    <2>1. Constructing(p) /\ Fail(p, "none")
      BY <1>2 DEF HeaderRejected, Constructing, One, ControlInv, Fail
    <2>2. "none" \in RawStates /\ "none" # "open"
      BY DEF RawStates
    <2> QED BY <1>1, <2>1, <2>2, FailEnds
  <1>3. CASE ~HeaderRejected(p)
    <2>0. obj[p].raw \in RawStates
      BY DEF TypeOK, FileObject
    <2>1. PICK raw \in RawStates :
                     /\ Fail(p, raw)
                     /\ raw = "open" => obj[p].raw = "open"
                     /\ raw = "none" => \/ call[p].pc \in {"rename", "openbak"}
                                        \/ obj[p].raw = "none" /\ call[p].pc \in {"trunc", "stamp"}
                     /\ call[p].pc \in {"rename", "openbak"} => raw = "none"
      <3>1. CASE ReadHeaderFails(p)
        BY <3>1, <2>0, Literals DEF ReadHeaderFails
      <3>2. CASE WritePartFails(p) \/ WriteFails(p)
        BY <3>2, <2>0, Literals DEF WritePartFails, WriteFails, InitLocations
      <3>3. CASE TruncateFails(p) \/ ReopenFails(p) \/ NewFileFails(p)
        BY <3>3, <2>0, Literals DEF TruncateFails, ReopenFails, NewFileFails
      <3>4. CASE StampFails(p)
        BY <3>4, <2>0, Literals DEF StampFails
      <3>5. CASE RenameFails(p) \/ OpenBackupFails(p)
        BY <3>5, <2>0, Literals DEF RenameFails, OpenBackupFails
      <3>6. CASE ConvertFails(p)
        BY <3>6, <2>0, Literals DEF ConvertFails, One, ControlInv
      <3> QED BY <1>3, <3>1, <3>2, <3>3, <3>4, <3>5, <3>6
    <2>2. Constructing(p) \/ (obj[p].raw = "none" => call[p].pc \notin {"trunc", "stamp"})
      <3>1. call[p].op \in {"create", "open", "save", "newkey"}
        BY <1>1, ControlIs DEF Running, Call
      <3> QED BY <1>1, <3>1 DEF Constructing, CallInv, SaveInv, NewKeyInv
    <2>3. Constructing(p) \/ (raw = "none" <=> call[p].pc \in {"rename", "openbak"})
      BY <2>1, <2>2
    <2> QED BY <1>1, <2>1, <2>3, FailEnds
  <1> QED BY <1>2, <1>3

\* A call begins.
LEMMA BeginImplements ==
    ASSUME NEW p \in Procs, Procs = {p}, TypeOK, One(p), CallInv, CallsNext,
           \/ \E k \in Keys : OpenRaw(p, k) \/ CreateRaw(p, k) \/ KeyCheck(p, k)
           \/ \E list \in Lists : SaveCheck(p, list)
    PROVE  Implements
  <1>1. Owner = p /\ call \in [Procs -> Call] /\ call[p].pc \in {"closed", "idle"} /\ ~Running
    BY ControlIs DEF TypeOK, OpenRaw, CreateRaw, KeyCheck, SaveCheck
  <1>2. call'[p].op # "none"
    <2>1. CASE \E k \in Keys : OpenRaw(p, k) \/ CreateRaw(p, k)
      BY <1>1, <2>1 DEF OpenRaw, CreateRaw, At
    <2>2. CASE \E k \in Keys : KeyCheck(p, k)
      <3>1. PICK k \in Keys : call'[p] = [At("newkey", "rename") EXCEPT !.other = k]
        BY <1>1, <2>2 DEF KeyCheck
      <3> QED BY <3>1 DEF At
    <2>3. CASE \E list \in Lists : SaveCheck(p, list)
      <3>1. PICK list \in Lists :
               call'[p] = [At("save", "trunc") EXCEPT !.batch = list, !.left = list]
        BY <1>1, <2>3 DEF SaveCheck
      <3> QED BY <3>1 DEF At
    <2> QED BY <2>1, <2>2, <2>3
  <1>3. Running' /\ before' = Snapshot
    BY <1>1, <1>2 DEF Running, CallsNext
  <1> QED BY <1>1, <1>3, BeginsUnseen, StartKeepsCalls DEF Implements

\* A call goes on.
LEMMA ProgressImplements ==
    ASSUME NEW p \in Procs, Procs = {p}, TypeOK, One(p), CallInv, CallsNext,
           \/ HeaderAccepted(p) \/ WritePart(p) \/ Truncate(p) \/ Reopen(p) \/ WriteRecord(p)
           \/ Flushed(p) \/ Rename(p) \/ OpenBackup(p) \/ NewFile(p) \/ Convert(p)
    PROVE  Implements
  <1>1. Owner = p /\ call \in [Procs -> Call] /\ call[p] \in Call /\ Running
    BY ControlIs DEF TypeOK, HeaderAccepted, WritePart, Truncate, Reopen, WriteRecord, Flushed,
          Rename, OpenBackup, NewFile, Convert, InitLocations
  <1>2. call'[p].op = call[p].op
    <2>1. CASE HeaderAccepted(p) \/ WritePart(p) \/ Truncate(p) \/ Reopen(p) \/ Flushed(p) \/ NewFile(p)
      BY <1>1, <2>1 DEF Call, HeaderAccepted, WritePart, Truncate, Reopen, Flushed, NewFile, Goto
    <2>2. CASE WriteRecord(p)
      <3>1. PICK i : call' = [call EXCEPT ![p].left = @ \ {i}]
        BY <2>2 DEF WriteRecord
      <3> QED BY <1>1, <3>1 DEF Call
    <2>3. CASE Rename(p)
      BY <1>1, <2>3 DEF Rename, Call
    <2>4. CASE OpenBackup(p)
      BY <1>1, <2>4 DEF OpenBackup, Call
    <2>5. CASE Convert(p)
      BY <2>5, ConvertIs DEF Converted
    <2> QED BY <2>1, <2>2, <2>3, <2>4, <2>5
  <1>3. Running' /\ before' = before
    BY <1>1, <1>2 DEF Running, CallsNext
  <1> QED BY <1>1, <1>3, GoesOnUnseen, ConstructGoesOn, WritePartGoesOn, TruncateGoesOn, ReopenGoesOn,
             WriteRecordGoesOn, RenameGoesOn, OpenBackupGoesOn, NewFileGoesOn, ConvertGoesOn
          DEF Implements

\* Time passes, or nothing happens.
LEMMA QuietImplements ==
    ASSUME NEW p \in Procs, Procs = {p}, TypeOK, One(p), CallInv,
           (Tick /\ CallsNext) \/ UNCHANGED callVars
    PROVE  Implements
  <1>1. disk' = disk /\ obj' = obj /\ call' = call /\ Owner = p
    BY OwnerIs DEF Tick, callVars, vars
  <1>2. Running' <=> Running
    BY <1>1 DEF Running
  <1>3. CASE Running
    <2>1. before' = before
      BY <1>2, <1>3 DEF CallsNext, callVars
    <2>2. \A n \in Names : Seen(n)' = Seen(n)
      BY <1>1, SeenStays
    <2>3. CallInv'
      BY <1>1, <2>1, <2>2 DEF CallInv, ConstructInv, SaveInv, NewKeyInv, Names, NotModified
    <2> QED BY <1>2, <1>3, <2>1, <2>3, GoesOnUnseen DEF Implements
  <1>4. CASE ~Running
    BY <1>1, <1>4, IdleUnseen DEF Implements, Running
  <1> QED BY <1>3, <1>4

LEMMA StepImplements ==
    ASSUME NEW p \in Procs, Procs = {p}, TypeOK, One(p), CallInv, [CallsNext]_callVars
    PROVE  Implements
  <1>1. CASE UNCHANGED callVars
    BY <1>1, QuietImplements
  <1>2. CASE CallsNext
    <2>1. CASE Tick
      BY <1>2, <2>1, QuietImplements
    <2>2. CASE Process(p)
      <3>1. CASE Construct(p)
        BY <1>2, <3>1, BeginImplements, CreateRawFailsImplements, ProgressImplements, FailureImplements
           DEF Construct
      <3>2. CASE InitializeFile(p)
        BY <1>2, <3>2, ProgressImplements, FailureImplements DEF InitializeFile
      <3>3. CASE Save(p)
        BY <1>2, <3>3, BeginImplements, RestingImplements DEF Save
      <3>4. CASE WriteRecords(p)
        BY <1>2, <3>4, ProgressImplements, FailureImplements DEF WriteRecords
      <3>5. CASE TakeStamp(p)
        BY <1>2, <3>5, StampEnds, FailureImplements DEF TakeStamp, Implements
      <3>6. CASE SetNewKey(p)
        BY <1>2, <3>6, BeginImplements, ProgressImplements, FailureImplements, NewFileInsecureEnds
           DEF SetNewKey, Implements
      <3>7. CASE ReadRecords(p)
        BY <3>7, RestingImplements DEF ReadRecords
      <3>8. CASE Stop(p)
        BY <3>8, StopImplements
      <3> QED BY <2>2, <3>1, <3>2, <3>3, <3>4, <3>5, <3>6, <3>7, <3>8 DEF Process
    <2> QED BY <1>2, <2>1, <2>2 DEF CallsNext, Next
  <1> QED BY <1>1, <1>2

\* A process that has the file to itself: to its caller each member function
\* of File is one step of RecordStore, wherever it fails or is killed.
THEOREM FileImplementsRecordStore ==
    ASSUME NEW p \in Procs, Procs = {p}
    PROVE  CallsSpec => ImplementsRecordStore
  <1>1. CallsInit => Init /\ CallInv /\ Abstract!Init
    <2> SUFFICES ASSUME CallsInit PROVE CallInv /\ Abstract!Init
      BY DEF CallsInit
    <2>1. /\ Owner = p /\ call[p] = Closed /\ obj[p] = NoObject
          /\ \A n \in Names : disk[n] = Absent
      BY OwnerIs DEF CallsInit, Init
    <2>2. /\ call[p].op = "none" /\ call[p].pc = "closed" /\ obj[p].raw = "none"
          /\ \A n \in Names : ~disk[n].exists /\ ~disk[n].junk
      BY <2>1 DEF Closed, At, NoObject, Absent
    <2>3. \A n \in Names : Seen(n) = Abstract!Unusable("absent")
      BY <2>2 DEF Seen, Whole, Abstract!Unusable
    <2>4. SeenFile = Abstract!NoFile /\ ~Running
      BY <2>1, <2>2, ClosedSeen DEF Running
    <2>5. Abstract!Init
      BY <2>3, <2>4 DEF CallerPet, CallerBak, CallerFile, Names, Abstract!Init
    <2> QED BY <2>1, <2>2, <2>5 DEF CallInv, ConstructInv, SaveInv, NewKeyInv
  <1>2. [CallsNext]_callVars => [Next]_vars
    BY DEF CallsNext, callVars
  <1>3. SingleInv => One(p)
    BY DEF SingleInv, One
  <1>4. /\ TypeOK /\ SingleInv /\ CallInv /\ [CallsNext]_callVars
        => CallInv' /\ [Abstract!Next]_(Abstract!vars)
    BY <1>3, StepImplements DEF Implements
  <1>5. CallsSpec => Spec
    BY <1>1, <1>2, PTL DEF CallsSpec, Spec
  <1>6. CallsSpec => []TypeOK /\ []SingleInv
    BY <1>5, TypeCorrect, SingleCorrect, PTL
  <1>7. CallsSpec => []CallInv /\ Abstract!Init /\ [][Abstract!Next]_(Abstract!vars)
    BY <1>1, <1>4, <1>6, PTL DEF CallsSpec
  <1> QED BY <1>7 DEF ImplementsRecordStore, Abstract!Spec
=============================================================================
