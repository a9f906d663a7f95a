----------------------------- MODULE PwgenProofs -----------------------------
(***************************************************************************)
(* Who owns the descriptors of the random source, for every number of       *)
(* objects and descriptors, every pool and every size of a password.        *)
(***************************************************************************)
EXTENDS Pwgen, FiniteSetTheorems, TLAPS

\* An object that does not live holds nothing.
DeadIsRaw == \A o \in Objs : ~obj[o].live => obj[o] = Raw

OwnInv == TypeOK /\ DescriptorsOwned /\ MovedIsEmpty /\ DeadIsRaw

-----------------------------------------------------------------------------
(***************************************************************************)
(* The operations on an object.                                             *)
(***************************************************************************)
\* A descriptor is got and given to an object that had none.
LEMMA TakeKeepsOwned ==
    ASSUME OwnInv, NEW o \in Objs, obj[o].fd = BadFd,
           NEW n \in Fds \cup {BadFd}, n # BadFd => table[n] = "free",
           NEW e \in Engine, e.live, e.fd = n,
           table' = Taken(table, n, "random"), obj' = [obj EXCEPT ![o] = e]
    PROVE  DescriptorsOwned'
  <1>1. /\ table \in [Fds -> {"free", "random", "other"}] /\ obj \in [Objs -> Engine]
    BY DEF OwnInv, TypeOK
  <1>2. BadFd \notin Fds
    BY DEF Fds, BadFd
  <1>3. \A q \in Objs : obj'[q] = IF q = o THEN e ELSE obj[q]
    BY <1>1
  <1>4. \A k \in Fds : table'[k] = IF k = n THEN "random" ELSE table[k]
    BY <1>1, <1>2 DEF Taken
  <1>5. \A q \in Objs : obj[q].fd \in Fds \cup {BadFd}
    BY <1>1 DEF Engine
  <1>6. \A q \in Objs : obj[q].fd # BadFd => table[obj[q].fd] = "random" /\ obj[q].fd # n
    BY <1>5 DEF OwnInv, DescriptorsOwned
  <1>7. \A q \in Objs : obj'[q].fd # BadFd => table'[obj'[q].fd] = "random"
    BY <1>2, <1>3, <1>4, <1>5, <1>6
  <1>8. \A p, q \in Objs : obj'[p].fd # BadFd /\ obj'[p].fd = obj'[q].fd => p = q
    BY <1>3, <1>6 DEF OwnInv, DescriptorsOwned
  <1>9. ASSUME NEW k \in Fds, table'[k] = "random"
        PROVE  \E q \in Objs : obj'[q].live /\ obj'[q].fd = k
    <2>1. CASE k = n
      BY <2>1, <1>3
    <2>2. CASE k # n
      <3>1. PICK q \in Objs : obj[q].live /\ obj[q].fd = k
        BY <2>2, <1>4, <1>9 DEF OwnInv, DescriptorsOwned
      <3>2. q # o
        BY <3>1, <1>2
      <3> QED BY <3>1, <3>2, <1>3
    <2> QED BY <2>1, <2>2
  <1> QED BY <1>7, <1>8, <1>9 DEF DescriptorsOwned

\* A descriptor is closed, and the object that held it has none.
LEMMA CloseKeepsOwned ==
    ASSUME OwnInv, NEW o \in Objs, obj[o].live,
           NEW e \in Engine, e.fd = BadFd,
           table' = Closed(table, obj[o].fd), obj' = [obj EXCEPT ![o] = e]
    PROVE  DescriptorsOwned'
  <1>1. /\ table \in [Fds -> {"free", "random", "other"}] /\ obj \in [Objs -> Engine]
    BY DEF OwnInv, TypeOK
  <1>2. BadFd \notin Fds
    BY DEF Fds, BadFd
  <1>3. \A q \in Objs : obj'[q] = IF q = o THEN e ELSE obj[q]
    BY <1>1
  <1>4. \A k \in Fds : table'[k] = IF k = obj[o].fd THEN "free" ELSE table[k]
    BY <1>1, <1>2 DEF Closed
  <1>5. \A q \in Objs : obj[q].fd \in Fds \cup {BadFd}
    BY <1>1 DEF Engine
  <1>6. \A q \in Objs : obj'[q].fd # BadFd => table'[obj'[q].fd] = "random"
    BY <1>3, <1>4, <1>5 DEF OwnInv, DescriptorsOwned
  <1>7. \A p, q \in Objs : obj'[p].fd # BadFd /\ obj'[p].fd = obj'[q].fd => p = q
    BY <1>3 DEF OwnInv, DescriptorsOwned
  <1>8. ASSUME NEW k \in Fds, table'[k] = "random"
        PROVE  \E q \in Objs : obj'[q].live /\ obj'[q].fd = k
    <2>1. k # obj[o].fd /\ table[k] = "random"
      BY <1>4, <1>8
    <2>2. PICK q \in Objs : obj[q].live /\ obj[q].fd = k
      BY <2>1 DEF OwnInv, DescriptorsOwned
    <2> QED BY <2>1, <2>2, <1>3
  <1> QED BY <1>6, <1>7, <1>8 DEF DescriptorsOwned

LEMMA ConstructKeeps ==
    ASSUME OwnInv, NEW o \in Objs, NEW high \in Bytes \cup {NoHigh}, Construct(o, high)
    PROVE  OwnInv'
  <1>1. /\ table \in [Fds -> {"free", "random", "other"}] /\ obj \in [Objs -> Engine]
        /\ calling' \in Objs \cup {Nobody}
    BY DEF OwnInv, TypeOK, Construct
  <1>2. BadFd \notin Fds
    BY DEF Fds, BadFd
  <1>3. PICK n \in Fds \cup {BadFd} :
          /\ Opens(table, n)
          /\ table' = Taken(table, n, "random")
          /\ obj' = IF n = BadFd THEN obj
                    ELSE [obj EXCEPT ![o] = [live |-> TRUE, fd |-> n, position |-> EmptyCache,
                                             high |-> high, origin |-> "opened"]]
    BY DEF Construct
  <1>4. CASE n = BadFd
    <2>1. table' = table /\ obj' = obj
      BY <1>3, <1>4 DEF Taken
    <2> QED BY <2>1, <1>1
            DEF OwnInv, TypeOK, DescriptorsOwned, MovedIsEmpty, DeadIsRaw
  <1>5. CASE n # BadFd
    <2> DEFINE e == [live |-> TRUE, fd |-> n, position |-> EmptyCache,
                     high |-> high, origin |-> "opened"]
    <2>1. e \in Engine /\ e.live /\ e.fd = n /\ e.origin = "opened"
      BY DEF Engine
    <2>2. obj' = [obj EXCEPT ![o] = e] /\ n \in Fds /\ table[n] = "free"
      BY <1>3, <1>5 DEF Opens, Lowest
    <2>3. obj[o].fd = BadFd
      BY DEF Construct, OwnInv, DeadIsRaw, Raw
    <2> HIDE DEF e
    <2>4. DescriptorsOwned'
      BY <2>1, <2>2, <2>3, <1>3, TakeKeepsOwned
    <2>5. TypeOK'
      BY <1>1, <1>3, <2>1, <2>2 DEF TypeOK, Taken
    <2>6. MovedIsEmpty' /\ DeadIsRaw'
      BY <1>1, <1>5, <2>1, <2>2 DEF OwnInv, MovedIsEmpty, DeadIsRaw
    <2> QED BY <2>4, <2>5, <2>6 DEF OwnInv
  <1> QED BY <1>4, <1>5

LEMMA DestroyKeeps ==
    ASSUME OwnInv, NEW o \in Objs, Destroy(o)
    PROVE  OwnInv'
  <1>1. /\ table \in [Fds -> {"free", "random", "other"}] /\ obj \in [Objs -> Engine]
        /\ calling' \in Objs \cup {Nobody}
    BY DEF OwnInv, TypeOK, Destroy
  <1>2. Raw \in Engine /\ Raw.fd = BadFd /\ ~Raw.live
    BY DEF Raw, Engine
  <1>3. DescriptorsOwned'
    BY <1>2, CloseKeepsOwned DEF Destroy
  <1>4. TypeOK'
    BY <1>1, <1>2 DEF TypeOK, Destroy, Closed
  <1>5. MovedIsEmpty' /\ DeadIsRaw'
    BY <1>1, <1>2 DEF Destroy, OwnInv, MovedIsEmpty, DeadIsRaw
  <1> QED BY <1>3, <1>4, <1>5 DEF OwnInv

LEMMA CopyEngineKeeps ==
    ASSUME OwnInv, NEW o \in Objs, NEW other \in Objs, CopyEngine(o, other)
    PROVE  OwnInv'
  <1>1. /\ table \in [Fds -> {"free", "random", "other"}] /\ obj \in [Objs -> Engine]
        /\ calling' \in Objs \cup {Nobody}
    BY DEF OwnInv, TypeOK, CopyEngine
  <1>2. PICK n \in Fds \cup {BadFd} :
          /\ Dups(table, obj[other].fd, n)
          /\ table' = Taken(table, n, "random")
          /\ obj' = [obj EXCEPT ![o] = Duplicate(obj[other], n)]
    BY DEF CopyEngine
  <1> DEFINE e == Duplicate(obj[other], n)
  <1>3. e \in Engine /\ e.live /\ e.fd = n /\ e.position = obj[other].position
        /\ e.origin = DupOrigin(obj[other], n)
    <2>1. obj[other] \in Engine /\ obj[other].live
      BY <1>1 DEF CopyEngine
    <2>2. DupOrigin(obj[other], n) \in {"opened", "moved", "assigned", "refused"}
      BY <2>1 DEF DupOrigin, Engine
    <2> QED BY <2>1, <2>2 DEF Engine, Duplicate
  <1>4. obj' = [obj EXCEPT ![o] = e]
    BY <1>2
  <1>5. n # BadFd => n \in Fds /\ table[n] = "free"
    BY <1>2 DEF Dups, Lowest
  <1>6. obj[o].fd = BadFd /\ obj[other].live
    BY DEF CopyEngine, OwnInv, DeadIsRaw, Raw
  <1> HIDE DEF e
  <1>7. DescriptorsOwned'
    BY <1>2, <1>3, <1>4, <1>5, <1>6, TakeKeepsOwned
  <1>8. TypeOK'
    BY <1>1, <1>2, <1>3, <1>4, <1>5 DEF TypeOK, Taken
  <1>9. MovedIsEmpty' /\ DeadIsRaw'
    BY <1>1, <1>3, <1>4, <1>6 DEF OwnInv, MovedIsEmpty, DeadIsRaw, DupOrigin
  <1> QED BY <1>7, <1>8, <1>9 DEF OwnInv

\* The descriptor that is duplicated has just been closed.
LEMMA CopyAssignKeeps ==
    ASSUME OwnInv, NEW o \in Objs, NEW other \in Objs, CopyAssign(o, other)
    PROVE  OwnInv'
  <1>1. /\ table \in [Fds -> {"free", "random", "other"}] /\ obj \in [Objs -> Engine]
        /\ calling' \in Objs \cup {Nobody}
    BY DEF OwnInv, TypeOK, CopyAssign
  <1>2. obj[o].live /\ obj[other].live
    BY DEF CopyAssign, Assignable
  <1> DEFINE closed == Closed(table, obj[o].fd)
  <1>3. PICK n \in Fds \cup {BadFd} :
          /\ Dups(closed, obj[o].fd, n)
          /\ table' = Taken(closed, n, "random")
          /\ obj' = [obj EXCEPT ![o] = [obj[other] EXCEPT !.fd = n, !.origin = "assigned"]]
    BY DEF CopyAssign
  <1>4. obj[o].fd # BadFd => closed[obj[o].fd] = "free"
    BY <1>1 DEF Closed, Engine
  <1>5. n = BadFd
    BY <1>3, <1>4 DEF Dups
  <1> DEFINE e == [obj[other] EXCEPT !.fd = BadFd, !.origin = "assigned"]
  <1>6. e \in Engine /\ e.live /\ e.fd = BadFd /\ e.origin = "assigned"
    BY <1>1, <1>2 DEF Engine
  <1>7. table' = Closed(table, obj[o].fd) /\ obj' = [obj EXCEPT ![o] = e]
    BY <1>3, <1>5 DEF Taken
  <1> HIDE DEF e, closed
  <1>8. DescriptorsOwned'
    BY <1>2, <1>6, <1>7, CloseKeepsOwned
  <1>9. TypeOK'
    BY <1>1, <1>6, <1>7 DEF TypeOK, Closed
  <1>10. MovedIsEmpty' /\ DeadIsRaw'
    BY <1>1, <1>6, <1>7 DEF OwnInv, MovedIsEmpty, DeadIsRaw
  <1> QED BY <1>8, <1>9, <1>10 DEF OwnInv

\* What is moved from is empty, and of the right type.
LEMMA MovedFromFacts ==
    ASSUME NEW e \in Engine
    PROVE  /\ MovedFrom(e) \in Engine /\ MovedFrom(e).live = e.live
           /\ MovedFrom(e).fd = BadFd /\ MovedFrom(e).position = EmptyCache
           /\ MovedFrom(e).origin = "moved"
  BY DEF MovedFrom, Engine

\* The object that takes over another's descriptor, after closing its own.
LEMMA HandOver ==
    ASSUME OwnInv, NEW o \in Objs, NEW other \in Objs, o # other, obj[other].live,
           obj[o].fd = BadFd \/ obj[o].live,
           table' = Closed(table, obj[o].fd),
           obj' = [obj EXCEPT ![o] = obj[other], ![other] = MovedFrom(@)],
           calling' \in Objs \cup {Nobody}
    PROVE  OwnInv'
  <1>1. /\ table \in [Fds -> {"free", "random", "other"}] /\ obj \in [Objs -> Engine]
    BY DEF OwnInv, TypeOK
  <1>2. BadFd \notin Fds
    BY DEF Fds, BadFd
  <1> DEFINE m == MovedFrom(obj[other])
  <1>3. m \in Engine /\ m.live /\ m.fd = BadFd /\ m.position = EmptyCache /\ m.origin = "moved"
    BY <1>1, MovedFromFacts
  <1>4. \A q \in Objs : obj'[q] = IF q = other THEN m ELSE IF q = o THEN obj[other] ELSE obj[q]
    BY <1>1
  <1> HIDE DEF m
  <1>5. \A k \in Fds : table'[k] = IF k = obj[o].fd THEN "free" ELSE table[k]
    BY <1>1, <1>2 DEF Closed
  <1>6. \A q \in Objs : obj[q].fd \in Fds \cup {BadFd}
    BY <1>1 DEF Engine
  <1>7. TypeOK'
    BY <1>1, <1>3, <1>4 DEF TypeOK, Closed
  <1>8. MovedIsEmpty' /\ DeadIsRaw'
    <2> DEFINE Sound(e) == /\ e.live /\ e.origin = "moved"
                                  => e.fd = BadFd /\ e.position = EmptyCache
                           /\ e.live /\ e.fd = BadFd => e.origin # "opened"
                           /\ ~e.live => e = Raw
    <2>1. \A q \in Objs : Sound(obj[q])
      BY DEF OwnInv, MovedIsEmpty, DeadIsRaw
    <2>2. Sound(m)
      BY <1>3
    <2> HIDE DEF Sound
    <2>3. \A q \in Objs : Sound(obj'[q])
      BY <2>1, <2>2, <1>4
    <2> USE DEF Sound
    <2> QED BY <2>3 DEF MovedIsEmpty, DeadIsRaw
  <1>9. \A q \in Objs : obj'[q].fd # BadFd => table'[obj'[q].fd] = "random"
    <2> TAKE q \in Objs
    <2>1. ASSUME NEW p \in Objs, p # o, obj[p].fd # BadFd
          PROVE  table'[obj[p].fd] = "random"
      <3>1. obj[p].fd \in Fds /\ table[obj[p].fd] = "random" /\ obj[p].fd # obj[o].fd
        BY <2>1, <1>6 DEF OwnInv, DescriptorsOwned
      <3> QED BY <3>1, <1>5
    <2>2. CASE q = other
      BY <2>2, <1>3, <1>4
    <2>3. CASE q = o
      <3>1. obj'[q] = obj[other] /\ other # o
        BY <2>3, <1>4
      <3>2. obj[other].fd # BadFd => table'[obj[other].fd] = "random"
        BY <3>1, <2>1
      <3> QED BY <3>1, <3>2
    <2>4. CASE q # o /\ q # other
      BY <2>1, <2>4, <1>4
    <2> QED BY <2>2, <2>3, <2>4
  <1>10. \A p, q \in Objs : obj'[p].fd # BadFd /\ obj'[p].fd = obj'[q].fd => p = q
    BY <1>3, <1>4 DEF OwnInv, DescriptorsOwned
  <1>11. ASSUME NEW k \in Fds, table'[k] = "random"
         PROVE  \E q \in Objs : obj'[q].live /\ obj'[q].fd = k
    <2>1. k # obj[o].fd /\ table[k] = "random"
      BY <1>5, <1>11
    <2>2. PICK q \in Objs : obj[q].live /\ obj[q].fd = k
      BY <2>1 DEF OwnInv, DescriptorsOwned
    <2>3. CASE q = other
      BY <2>2, <2>3, <1>4
    <2>4. CASE q # other
      BY <2>1, <2>2, <2>4, <1>4
    <2> QED BY <2>3, <2>4
  <1>12. DescriptorsOwned'
    BY <1>9, <1>10, <1>11 DEF DescriptorsOwned
  <1> QED BY <1>7, <1>8, <1>12 DEF OwnInv

\* A draw moves the position in the cache of one object.
LEMMA DeliveredFacts ==
    ASSUME NEW e \in Engine, Delivers(e)
    PROVE  /\ Delivered(e) \in Engine /\ Delivered(e).live = e.live
           /\ Delivered(e).fd = e.fd /\ Delivered(e).origin = e.origin
           /\ e.fd = BadFd => e.position # EmptyCache
  <1>1. EmptyCache \notin 0..CacheSize /\ CacheSize \in Nat \ {0}
    BY RngAssumption DEF EmptyCache
  <1>2. IF MustRead(e) THEN 1 \in 0..CacheSize ELSE e.position + 1 \in 0..CacheSize
    BY <1>1 DEF MustRead, Engine
  <1>3. Delivered(e) = [live |-> e.live, fd |-> e.fd,
                        position |-> IF MustRead(e) THEN 1 ELSE e.position + 1,
                        high |-> e.high, origin |-> e.origin]
    BY DEF Delivered, Engine
  <1>4. e.fd = BadFd => e.position # EmptyCache
    BY DEF Delivers, MustRead
  <1> QED BY <1>2, <1>3, <1>4 DEF Engine

LEMMA DeliveredKeeps ==
    ASSUME OwnInv, NEW o \in Objs, obj[o].live, Delivers(obj[o]),
           obj' = [obj EXCEPT ![o] = Delivered(@)], table' = table,
           calling' \in Objs \cup {Nobody}
    PROVE  OwnInv'
  <1>1. /\ table \in [Fds -> {"free", "random", "other"}] /\ obj \in [Objs -> Engine]
    BY DEF OwnInv, TypeOK
  <1> DEFINE e == Delivered(obj[o])
  <1>2. /\ e \in Engine /\ e.live = obj[o].live /\ e.fd = obj[o].fd
        /\ e.origin = obj[o].origin
        /\ obj[o].fd = BadFd => obj[o].position # EmptyCache
    BY <1>1, DeliveredFacts
  <1>3. \A q \in Objs : obj'[q] = IF q = o THEN e ELSE obj[q]
    BY <1>1
  <1> HIDE DEF e
  <1>4. TypeOK'
    BY <1>1, <1>2, <1>3 DEF TypeOK
  <1>5. \A q \in Objs : obj'[q].live = obj[q].live /\ obj'[q].fd = obj[q].fd
    BY <1>2, <1>3
  <1>6. DescriptorsOwned'
    BY <1>5 DEF OwnInv, DescriptorsOwned
  <1>7. MovedIsEmpty' /\ DeadIsRaw'
    <2>1. obj[o].origin # "moved"
      BY <1>2 DEF OwnInv, MovedIsEmpty
    <2>2. DeadIsRaw'
      BY <1>2, <1>3 DEF OwnInv, DeadIsRaw
    <2>3. MovedIsEmpty'
      BY <2>1, <1>2, <1>3 DEF OwnInv, MovedIsEmpty
    <2> QED BY <2>2, <2>3
  <1> QED BY <1>4, <1>6, <1>7 DEF OwnInv

\* The files of the rest of the program use descriptors nobody else holds.
LEMMA OthersKeep ==
    ASSUME OwnInv, OthersOpen \/ OthersClose
    PROVE  OwnInv'
  <1>1. /\ table \in [Fds -> {"free", "random", "other"}] /\ obj \in [Objs -> Engine]
    BY DEF OwnInv, TypeOK
  <1>2. PICK n \in Fds : /\ table[n] # "random" /\ obj' = obj /\ calling' = calling
                         /\ \E s \in {"free", "other"} : table' = [table EXCEPT ![n] = s]
    BY DEF OthersOpen, OthersClose, Lowest
  <1>3. \A k \in Fds : (table[k] = "random") = (table'[k] = "random")
    BY <1>1, <1>2
  <1>4. TypeOK'
    BY <1>1, <1>2 DEF OwnInv, TypeOK
  <1>5. \A q \in Objs : obj[q].fd \in Fds \cup {BadFd}
    BY <1>1 DEF Engine
  <1>6. DescriptorsOwned' /\ MovedIsEmpty' /\ DeadIsRaw'
    BY <1>2, <1>3, <1>5 DEF OwnInv, DescriptorsOwned, MovedIsEmpty, DeadIsRaw
  <1> QED BY <1>4, <1>6 DEF OwnInv

LEMMA RngNextKeeps ==
    ASSUME OwnInv, RngNext
    PROVE  OwnInv'
  <1>1. /\ table \in [Fds -> {"free", "random", "other"}] /\ obj \in [Objs -> Engine]
        /\ calling \in Objs \cup {Nobody}
    BY DEF OwnInv, TypeOK
  <1>2. Highs \subseteq Bytes
    BY RngAssumption
  <1>3. ASSUME NEW o \in Objs, NEW high \in Highs \cup {NoHigh}, Construct(o, high)
        PROVE  OwnInv'
    BY <1>2, <1>3, ConstructKeeps
  <1>4. ASSUME NEW o \in Objs, Destroy(o)
        PROVE  OwnInv'
    BY <1>4, DestroyKeeps
  <1>5. ASSUME NEW o \in Objs, Draw(o)
        PROVE  OwnInv'
    <2>1. calling' \in Objs \cup {Nobody} /\ table' = table /\ obj[o].live
      BY <1>5 DEF Draw
    <2>2. CASE Delivers(obj[o]) /\ obj' = [obj EXCEPT ![o] = Delivered(@)]
      BY <2>1, <2>2, DeliveredKeeps
    <2>3. CASE obj' = obj
      BY <1>1, <2>1, <2>3 DEF OwnInv, TypeOK, DescriptorsOwned, MovedIsEmpty, DeadIsRaw
    <2> QED BY <1>5, <2>2, <2>3 DEF Draw
  <1>6. ASSUME NEW o \in Objs, NEW other \in Objs, CopyEngine(o, other)
        PROVE  OwnInv'
    BY <1>6, CopyEngineKeeps
  <1>7. ASSUME NEW o \in Objs, NEW other \in Objs, CopyRng(o, other)
        PROVE  OwnInv'
    <2>1. obj[other].high \in Bytes \cup {NoHigh}
      BY <1>1 DEF Engine
    <2> QED BY <1>7, <2>1, ConstructKeeps DEF CopyRng
  <1>8. ASSUME NEW o \in Objs, NEW other \in Objs, Move(o, other)
        PROVE  OwnInv'
    <2>1. /\ o # other /\ obj[other].live /\ obj[o].fd = BadFd
          /\ obj' = [obj EXCEPT ![o] = obj[other], ![other] = MovedFrom(@)]
          /\ calling' \in Objs \cup {Nobody} /\ table' = table
      BY <1>1, <1>8 DEF Move, OwnInv, DeadIsRaw, Raw
    <2>2. table' = Closed(table, obj[o].fd)
      BY <2>1 DEF Closed
    <2> QED BY <2>1, <2>2, HandOver
  <1>9. ASSUME NEW o \in Objs, NEW other \in Objs, CopyAssign(o, other)
        PROVE  OwnInv'
    BY <1>9, CopyAssignKeeps
  <1>10. ASSUME NEW o \in Objs, NEW other \in Objs, MoveAssign(o, other)
         PROVE  OwnInv'
    <2>1. /\ o # other /\ obj[other].live /\ obj[o].live
          /\ obj' = [obj EXCEPT ![o] = obj[other], ![other] = MovedFrom(@)]
          /\ table' = Closed(table, obj[o].fd) /\ calling' \in Objs \cup {Nobody}
      BY <1>1, <1>10 DEF MoveAssign, Assignable
    <2> QED BY <2>1, HandOver
  <1> QED BY <1>3, <1>4, <1>5, <1>6, <1>7, <1>8, <1>9, <1>10, OthersKeep DEF RngNext

-----------------------------------------------------------------------------
(***************************************************************************)
(* The generator.                                                           *)
(***************************************************************************)
\* The accepted bytes are the multiples of the range, evenly scaled.
LEMMA ScaledInRange ==
    ASSUME NEW high \in Bytes, NEW b \in Bytes, Accepts(high, b)
    PROVE  Scaled(high, b) \in 0..high
  <1>1. MaxByte \in Nat /\ high \in Nat /\ b \in Nat /\ b <= MaxByte /\ high <= MaxByte
    BY RngAssumption DEF Bytes
  <1>2. CASE high >= MaxByte
    BY <1>1, <1>2 DEF Scaled
  <1>3. CASE high < MaxByte
    <2> DEFINE s == MaxByte \div (high + 1)
    <2>1. s \in Nat /\ s >= 1
      BY <1>1, <1>3
    <2>2. b < s * (high + 1)
      BY <1>1, <1>3 DEF Accepts, Scaling
    <2> HIDE DEF s
    <2> DEFINE q == b \div s
    <2>3. q \in Nat /\ s * q <= b
      BY <1>1, <2>1
    <2>4. q <= high
      <3> HIDE DEF q
      <3>1. SUFFICES ASSUME q >= high + 1 PROVE FALSE
        BY <1>1, <2>3
      <3>2. s * q >= s * (high + 1)
        BY <1>1, <2>1, <2>3, <3>1
      <3>3. s * q \in Int /\ s * (high + 1) \in Int
        BY <1>1, <2>1, <2>3
      <3> QED BY <1>1, <2>2, <2>3, <3>2, <3>3
    <2>5. Scaled(high, b) = q
      BY <1>1, <1>3 DEF Scaled, Scaling, s
    <2> HIDE DEF q
    <2> QED BY <1>1, <2>3, <2>4, <2>5
  <1> QED BY <1>1, <1>2, <1>3

LEMMA HighType ==
    ASSUME NEW pools \in SUBSET Pools
    PROVE  /\ Cardinality(PoolString(pools)) \in Nat
           /\ High(pools) \in Bytes \cup {NoHigh}
           /\ pools # {} => High(pools) \in Bytes
  <1>1. IsFiniteSet(Chars) /\ Cardinality(Chars) \in Nat
    BY PwgenAssumption, FS_CardinalityType
  <1>2. PoolString(pools) \subseteq Chars
    BY DEF PoolString
  <1>3. /\ IsFiniteSet(PoolString(pools))
        /\ Cardinality(PoolString(pools)) <= Cardinality(Chars)
        /\ Cardinality(PoolString(pools)) \in Nat
    BY <1>1, <1>2, FS_Subset, FS_CardinalityType
  <1>4. pools # {} => Cardinality(PoolString(pools)) # 0
    <2>1. ASSUME pools # {} PROVE PoolString(pools) # {}
      BY <2>1 DEF PoolString, Pools
    <2> QED BY <2>1, <1>3, FS_EmptySet
  <1> QED BY <1>1, <1>3, <1>4, PwgenAssumption, RngAssumption DEF High, Bytes, NoHigh

LEMMA EmptyPassword == /\ \A S : <<>> \in Seq(S)
                       /\ Len(<<>>) = 0
  OBVIOUS

GenType == gen \in [pools : SUBSET Pools, state : {"none", "idle", "filling", "returned", "threw"},
                    size : 0..MaxSize, password : Seq(Pools \cup {Terminator})]

\* While a password is filled the one Rng that lives draws indexes of the
\* string of the pools, of which some is selected; otherwise none lives.
FillInv ==
    /\ gen.state \notin {"none", "filling"} => \A o \in Objs : ~obj[o].live
    /\ gen.state = "filling" =>
          /\ gen.pools # {}
          /\ \A o \in Objs : obj[o].live => obj[o].high = High(gen.pools)
          /\ \A o, q \in Objs : obj[o].live /\ obj[q].live => o = q
          /\ gen.password \in Seq(gen.pools) /\ Len(gen.password) <= gen.size

GenInv == OwnInv /\ GenType /\ FillInv /\ GeneratedFits

\* A step that only leaves an object with another position in the cache.
LEMMA FillKeeps ==
    ASSUME GenInv, NEW o \in Objs, NEW c \in Pools \cup {Terminator}, Fill(o, c)
    PROVE  GenInv'
  <1>1. /\ gen.state = "filling" /\ obj[o].live /\ Len(gen.password) < gen.size
        /\ gen' = [gen EXCEPT !.password = Append(@, c)]
        /\ obj' = [obj EXCEPT ![o] = Delivered(@)] /\ table' = table /\ calling' = calling
        /\ Delivers(obj[o])
    BY DEF Fill, Local
  <1>2. obj \in [Objs -> Engine] /\ calling \in Objs \cup {Nobody}
    BY DEF GenInv, OwnInv, TypeOK
  <1>3. OwnInv'
    BY <1>1, <1>2, DeliveredKeeps DEF GenInv
  <1>4. gen.pools \in SUBSET Pools /\ gen.pools # {} /\ gen.password \in Seq(gen.pools)
        /\ obj[o].high = High(gen.pools) /\ gen.size \in 0..MaxSize
    BY <1>1 DEF GenInv, GenType, FillInv
  <1>5. c \in gen.pools
    <2>1. PICK b \in Bytes : /\ Accepts(obj[o].high, b)
                              /\ c \in CharactersAt(gen.pools, Scaled(obj[o].high, b))
      BY DEF Fill
    <2>2. High(gen.pools) \in Bytes
      BY <1>4, HighType
    <2>3. Scaled(obj[o].high, b) \in 0..High(gen.pools)
      BY <1>4, <2>1, <2>2, ScaledInRange
    <2> QED BY <2>1, <2>3 DEF CharactersAt, High
  <1>6. gen'.password \in Seq(gen.pools) /\ Len(gen'.password) <= gen.size
    BY <1>1, <1>4, <1>5 DEF GenInv, GenType
  <1>7. GenType'
    <2>1. Append(gen.password, c) \in Seq(Pools \cup {Terminator})
      BY DEF GenInv, GenType
    <2> QED BY <1>1, <2>1 DEF GenInv, GenType
  <1>8. \A q \in Objs : obj'[q].live = obj[q].live /\ obj'[q].high = obj[q].high
    <2>1. \A e \in Engine : Delivered(e).live = e.live /\ Delivered(e).high = e.high
      BY DEF Delivered, Engine
    <2> QED BY <1>1, <1>2, <2>1
  <1>9. FillInv' /\ GeneratedFits'
    BY <1>1, <1>4, <1>6, <1>8 DEF GenInv, GenType, FillInv, GeneratedFits, High
  <1> QED BY <1>3, <1>7, <1>9 DEF GenInv

LEMMA AgainKeeps ==
    ASSUME GenInv, NEW o \in Objs, Again(o)
    PROVE  GenInv'
  <1>1. /\ gen.state = "filling" /\ obj[o].live /\ gen' = gen
        /\ obj' = [obj EXCEPT ![o] = Delivered(@)] /\ table' = table /\ calling' = calling
        /\ Delivers(obj[o])
    BY DEF Again, Local
  <1>2. obj \in [Objs -> Engine] /\ calling \in Objs \cup {Nobody}
    BY DEF GenInv, OwnInv, TypeOK
  <1>3. OwnInv'
    BY <1>1, <1>2, DeliveredKeeps DEF GenInv
  <1>4. \A q \in Objs : obj'[q].live = obj[q].live /\ obj'[q].high = obj[q].high
    <2>1. \A e \in Engine : Delivered(e).live = e.live /\ Delivered(e).high = e.high
      BY DEF Delivered, Engine
    <2> QED BY <1>1, <1>2, <2>1
  <1>5. GenType' /\ FillInv' /\ GeneratedFits'
    BY <1>1, <1>4 DEF GenInv, GenType, FillInv, GeneratedFits
  <1> QED BY <1>3, <1>5 DEF GenInv

\* The Rng is destroyed at the end of the call, normal or not.
LEMMA NobodyLives ==
    ASSUME GenInv, NEW o \in Objs, gen.state = "filling", obj[o].live, Destroy(o)
    PROVE  \A q \in Objs : ~obj'[q].live
  <1>1. obj \in [Objs -> Engine]
    BY DEF GenInv, OwnInv, TypeOK
  <1>2. \A q \in Objs : obj[q].live => q = o
    BY DEF GenInv, FillInv
  <1>3. \A q \in Objs : obj'[q] = IF q = o THEN Raw ELSE obj[q]
    BY <1>1 DEF Destroy
  <1>4. ~Raw.live
    BY DEF Raw
  <1> QED BY <1>2, <1>3, <1>4

LEMMA ReadFailsKeeps ==
    ASSUME GenInv, NEW o \in Objs, ReadFails(o)
    PROVE  GenInv'
  <1>1. /\ gen.state = "filling" /\ obj[o].live /\ Destroy(o)
        /\ gen' = [gen EXCEPT !.state = "threw", !.password = <<>>]
    BY DEF ReadFails, Local
  <1>2. OwnInv' /\ \A q \in Objs : ~obj'[q].live
    BY <1>1, DestroyKeeps, NobodyLives DEF GenInv
  <1>3. GenType'
    BY <1>1, EmptyPassword DEF GenInv, GenType
  <1>4. FillInv' /\ GeneratedFits'
    BY <1>1, <1>2 DEF GenInv, GenType, FillInv, GeneratedFits
  <1> QED BY <1>2, <1>3, <1>4 DEF GenInv

LEMMA FinishKeeps ==
    ASSUME GenInv, NEW o \in Objs, Finish(o)
    PROVE  GenInv'
  <1>1. /\ gen.state = "filling" /\ obj[o].live /\ Len(gen.password) = gen.size
    BY DEF Finish, Local
  <1>2. CASE ContainsSelectedPools(gen.pools, gen.password)
    <2>1. Destroy(o) /\ gen' = [gen EXCEPT !.state = "returned"]
      BY <1>2 DEF Finish
    <2>2. OwnInv' /\ \A q \in Objs : ~obj'[q].live
      BY <1>1, <2>1, DestroyKeeps, NobodyLives DEF GenInv
    <2>3. GenType' /\ gen'.state = "returned" /\ gen'.password = gen.password
          /\ gen'.pools = gen.pools /\ gen'.size = gen.size
      BY <2>1 DEF GenInv, GenType
    <2>4. GeneratedFits'
      <3> DEFINE used == {gen.password[i] : i \in DOMAIN gen.password}
      <3>1. gen.password \in Seq(gen.pools)
        BY <1>1 DEF GenInv, FillInv
      <3>2. used \subseteq gen.pools
        BY <3>1
      <3>3. Cardinality(gen.pools) <= gen.size => used = gen.pools
        BY <1>1, <1>2, <3>2 DEF ContainsSelectedPools, CanContainCharactersFromSelectedPools
      <3> QED BY <1>1, <2>3, <3>2, <3>3 DEF GeneratedFits
    <2>5. FillInv'
      BY <2>2, <2>3 DEF FillInv
    <2> QED BY <2>2, <2>3, <2>4, <2>5 DEF GenInv
  <1>3. CASE ~ContainsSelectedPools(gen.pools, gen.password)
    <2>1. gen' = [gen EXCEPT !.password = <<>>] /\ UNCHANGED rngVars
      BY <1>3 DEF Finish
    <2>2. OwnInv'
      BY <2>1 DEF GenInv, OwnInv, TypeOK, DescriptorsOwned, MovedIsEmpty, DeadIsRaw, rngVars
    <2>3. GenType' /\ gen'.state = "filling" /\ gen'.password = <<>>
          /\ gen'.pools = gen.pools /\ gen'.size = gen.size /\ gen.size \in Nat
      <3>1. gen \in [pools : SUBSET Pools, state : {"none", "idle", "filling", "returned", "threw"},
                     size : 0..MaxSize, password : Seq(Pools \cup {Terminator})]
        BY DEF GenInv, GenType
      <3>2. gen.size \in Nat
        BY <3>1, PwgenAssumption
      <3>3. <<>> \in Seq(Pools \cup {Terminator})
        BY EmptyPassword
      <3>4. GenType'
        BY <2>1, <3>1, <3>3 DEF GenType
      <3> QED BY <1>1, <2>1, <3>1, <3>2, <3>4
    <2>4. FillInv' /\ GeneratedFits'
      BY <1>1, <2>1, <2>3 DEF GenInv, FillInv, GeneratedFits, rngVars, High
    <2> QED BY <2>2, <2>3, <2>4 DEF GenInv
  <1> QED BY <1>2, <1>3

LEMMA GenerateKeeps ==
    ASSUME GenInv, NEW size \in 0..MaxSize, NEW o \in Objs, GeneratePassword(size, o)
    PROVE  GenInv'
  <1>1. /\ gen.state \notin {"none", "filling"} /\ \A q \in Objs : ~obj[q].live
        /\ gen.pools \in SUBSET Pools /\ obj \in [Objs -> Engine]
    BY DEF GeneratePassword, GenInv, FillInv, GenType, OwnInv, TypeOK
  <1>2. CASE size < 1 \/ gen.pools = {}
    <2>1. /\ gen' = [gen EXCEPT !.state = "threw", !.size = size, !.password = <<>>]
          /\ UNCHANGED rngVars
      BY <1>2 DEF GeneratePassword
    <2>2. OwnInv'
      BY <2>1 DEF GenInv, OwnInv, TypeOK, DescriptorsOwned, MovedIsEmpty, DeadIsRaw, rngVars
    <2>3. GenType' /\ gen'.state = "threw"
      BY <2>1, EmptyPassword DEF GenInv, GenType
    <2>4. FillInv' /\ GeneratedFits'
      BY <1>1, <2>1, <2>3 DEF FillInv, GeneratedFits, rngVars
    <2> QED BY <2>2, <2>3, <2>4 DEF GenInv
  <1>3. CASE ~(size < 1 \/ gen.pools = {})
    <2>1. /\ Construct(o, High(gen.pools))
          /\ gen' = [gen EXCEPT !.state = IF obj'[o].live THEN "filling" ELSE "threw",
                                !.size = size, !.password = <<>>]
      BY <1>3 DEF GeneratePassword
    <2>2. OwnInv'
      BY <1>1, <2>1, HighType, ConstructKeeps DEF GenInv
    <2>3. \A q \in Objs : obj'[q].live => q = o /\ obj'[q].high = High(gen.pools)
      BY <1>1, <2>1 DEF Construct
    <2> DEFINE state == IF obj'[o].live THEN "filling" ELSE "threw"
    <2>4. state \in {"filling", "threw"}
      OBVIOUS
    <2>5. gen' = [gen EXCEPT !.state = state, !.size = size, !.password = <<>>]
      BY <2>1
    <2>6. ~obj'[o].live => state = "threw"
      OBVIOUS
    <2> HIDE DEF state
    <2>7. GenType' /\ gen'.state = state /\ gen'.password = <<>> /\ gen'.size = size
          /\ gen'.pools = gen.pools
      BY <2>4, <2>5, EmptyPassword DEF GenInv, GenType
    <2>8. state = "threw" => \A q \in Objs : ~obj'[q].live
      <3>1. state = "threw" => ~obj'[o].live
        BY DEF state
      <3> QED BY <3>1, <2>3
    <2>9. FillInv'
      <3>1. gen.pools # {} /\ size \in Nat
        BY <1>3, PwgenAssumption
      <3> QED BY <2>3, <2>4, <2>7, <2>8, <3>1, EmptyPassword DEF FillInv, High
    <2>10. GeneratedFits'
      BY <2>4, <2>7 DEF GeneratedFits
    <2> QED BY <2>2, <2>7, <2>9, <2>10 DEF GenInv
  <1> QED BY <1>2, <1>3

LEMMA CharacterPoolsKeeps ==
    ASSUME GenInv, CharacterPools
    PROVE  GenInv'
  <1>1. PICK pools \in SUBSET Pools :
          gen' = [pools |-> pools, state |-> "idle", size |-> 0, password |-> <<>>]
    BY DEF CharacterPools
  <1>2. UNCHANGED rngVars /\ \A o \in Objs : ~obj[o].live
    BY DEF CharacterPools
  <1>3. OwnInv'
    BY <1>2 DEF GenInv, OwnInv, TypeOK, DescriptorsOwned, MovedIsEmpty, DeadIsRaw, rngVars
  <1>4. GenType' /\ gen'.state = "idle"
    BY <1>1, EmptyPassword, PwgenAssumption DEF GenType
  <1>5. FillInv' /\ GeneratedFits'
    BY <1>2, <1>4 DEF FillInv, GeneratedFits, rngVars
  <1> QED BY <1>3, <1>4, <1>5 DEF GenInv

LEMMA InitGenInv == Init => GenInv
  <1> SUFFICES ASSUME Init PROVE GenInv
    OBVIOUS
  <1>1. /\ table \in [Fds -> {"free", "other"}] /\ obj = [o \in Objs |-> Raw] /\ calling = Nobody
        /\ gen = [pools |-> {}, state |-> "none", size |-> 0, password |-> <<>>]
    BY DEF Init, RngInit
  <1>2. Raw \in Engine /\ ~Raw.live /\ Raw.fd = BadFd
    BY DEF Raw, Engine
  <1>3. TypeOK
    BY <1>1, <1>2 DEF TypeOK
  <1>4. DescriptorsOwned /\ MovedIsEmpty /\ DeadIsRaw
    BY <1>1, <1>2 DEF DescriptorsOwned, MovedIsEmpty, DeadIsRaw
  <1>5. GenType
    BY <1>1, EmptyPassword, PwgenAssumption DEF GenType
  <1>6. gen.state = "none"
    BY <1>1
  <1>7. FillInv /\ GeneratedFits
    BY <1>6 DEF FillInv, GeneratedFits
  <1> QED BY <1>3, <1>4, <1>5, <1>7 DEF GenInv, OwnInv

LEMMA NextKeepsGenInv == GenInv /\ [Next]_vars => GenInv'
  <1> SUFFICES ASSUME GenInv, [Next]_vars PROVE GenInv'
    OBVIOUS
  <1>1. CASE CharacterPools
    BY <1>1, CharacterPoolsKeeps
  <1>2. ASSUME NEW o \in Objs, NEW size \in 0..MaxSize, GeneratePassword(size, o)
        PROVE  GenInv'
    BY <1>2, GenerateKeeps
  <1>3. ASSUME NEW o \in Objs, Generation(o)
        PROVE  GenInv'
    BY <1>3, FillKeeps, AgainKeeps, ReadFailsKeeps, FinishKeeps DEF Generation
  <1>4. CASE gen.state = "none" /\ RngNext /\ UNCHANGED gen
    <2>1. OwnInv'
      BY <1>4, RngNextKeeps DEF GenInv
    <2>2. GenType' /\ FillInv' /\ GeneratedFits'
      BY <1>4 DEF GenInv, GenType, FillInv, GeneratedFits
    <2> QED BY <2>1, <2>2 DEF GenInv
  <1>5. CASE UNCHANGED vars
    BY <1>5 DEF vars, GenInv, OwnInv, TypeOK, DescriptorsOwned, MovedIsEmpty, DeadIsRaw,
                GenType, FillInv, GeneratedFits, High
  <1> QED BY <1>1, <1>2, <1>3, <1>4, <1>5 DEF Next

-----------------------------------------------------------------------------
\* The types of the objects, the descriptors and the generator.
THEOREM PwgenTyping == Spec => []GenTypeOK
  <1>1. GenInv => GenTypeOK
    BY DEF GenInv, OwnInv, GenType, GenTypeOK
  <1> QED BY <1>1, InitGenInv, NextKeepsGenInv, PTL DEF Spec

\* Every descriptor of /dev/urandom has exactly one owner, through every
\* construction, copy, move, assignment, exception and destruction.
THEOREM PwgenOwned == Spec => []DescriptorsOwned
  <1>1. GenInv => DescriptorsOwned
    BY DEF GenInv, OwnInv
  <1> QED BY <1>1, InitGenInv, NextKeepsGenInv, PTL DEF Spec

\* An object moved from has neither a descriptor nor bytes.
THEOREM PwgenMoved == Spec => []MovedIsEmpty
  <1>1. GenInv => MovedIsEmpty
    BY DEF GenInv, OwnInv
  <1> QED BY <1>1, InitGenInv, NextKeepsGenInv, PTL DEF Spec

\* A password has the size asked for, and is made of the pools selected, all
\* of them if it is long enough.
THEOREM PwgenFits == Spec => []GeneratedFits
  <1>1. GenInv => GeneratedFits
    BY DEF GenInv
  <1> QED BY <1>1, InitGenInv, NextKeepsGenInv, PTL DEF Spec
=============================================================================
