--------------------------------- MODULE Rng ---------------------------------
(***************************************************************************)
(* The source of random numbers (pwgen/rngengine.cc, pwgen/rng.cc): objects *)
(* that own a descriptor of /dev/urandom and a cache of bytes read from it, *)
(* and the table of descriptors of the process, which they share with the   *)
(* files the rest of the program opens.  A bare RngEngine and an Rng, which *)
(* is an engine and a distribution, are told apart by the field high.       *)
(*                                                                          *)
(* The value of a byte is chosen when it is delivered, not when it is read: *)
(* that two copies of an engine deliver the same bytes is left out.         *)
(***************************************************************************)
EXTENDS Integers, FiniteSets

CONSTANTS
    Objs,       \* storage for objects
    MaxFd,      \* the number of descriptors a process may have
    CacheSize,  \* BYTE_CACHE_SIZE
    MaxByte,    \* RngEngine::max()
    Highs,      \* upper limits of the distributions constructed
    Nobody      \* no object

BadFd      == -1    \* BAD_FD
EmptyCache == -1    \* EMPTY_CACHE
NoHigh     == -1    \* the upper limit of a bare engine

Fds   == 0..(MaxFd - 1)
Bytes == 0..MaxByte

ASSUME RngAssumption == /\ MaxFd \in Nat /\ MaxByte \in Nat
                        /\ CacheSize \in Nat \ {0}
                        /\ Highs \subseteq Bytes
                        /\ Nobody \notin Objs

VARIABLES
    table,      \* what a descriptor stands for
    obj,        \* the objects
    calling     \* the Rng whose getNextInt is running

rngVars == <<table, obj, calling>>

(***************************************************************************)
(* origin remembers how the descriptor got its value: it was opened or      *)
(* duplicated, moved away, lost in a copy assignment, or refused by dup.    *)
(***************************************************************************)
Engine == [live : BOOLEAN, fd : Fds \cup {BadFd},
           position : {EmptyCache} \cup 0..CacheSize,
           high : Bytes \cup {NoHigh},
           origin : {"opened", "moved", "assigned", "refused"}]

Raw == [live |-> FALSE, fd |-> BadFd, position |-> EmptyCache,
        high |-> NoHigh, origin |-> "moved"]

TypeOK ==
    /\ table \in [Fds -> {"free", "random", "other"}]
    /\ obj \in [Objs -> Engine]
    /\ calling \in Objs \cup {Nobody}

RngInit ==
    /\ table \in [Fds -> {"free", "other"}]
    /\ obj = [o \in Objs |-> Raw]
    /\ calling = Nobody

(***************************************************************************)
(* The kernel.  open and dup give the lowest free descriptor, or refuse.    *)
(***************************************************************************)
Lowest(t, n) == /\ n \in Fds /\ t[n] = "free"
                /\ \A k \in Fds : t[k] = "free" => n <= k

Opens(t, n) == n = BadFd \/ Lowest(t, n)

Dups(t, fd, n) == \/ n = BadFd
                  \/ fd # BadFd /\ t[fd] # "free" /\ Lowest(t, n)

Taken(t, n, file) == IF n = BadFd THEN t ELSE [t EXCEPT ![n] = file]

\* closeFd
Closed(t, fd) == IF fd = BadFd THEN t ELSE [t EXCEPT ![fd] = "free"]

-----------------------------------------------------------------------------
(***************************************************************************)
(* The life of an object.                                                   *)
(***************************************************************************)
Idle == calling = Nobody

\* RngEngine(), Rng(hi): without a descriptor the constructor throws.
Construct(o, high) ==
    /\ Idle /\ ~obj[o].live
    /\ \E n \in Fds \cup {BadFd} :
          /\ Opens(table, n)
          /\ table' = Taken(table, n, "random")
          /\ obj' = IF n = BadFd THEN obj
                    ELSE [obj EXCEPT ![o] = [live |-> TRUE, fd |-> n, position |-> EmptyCache,
                                             high |-> high, origin |-> "opened"]]
    /\ UNCHANGED calling

\* RngEngine(const RngEngine&): nobody looks at what dup returns.
DupOrigin(e, n) == IF n # BadFd THEN "opened"
                   ELSE IF e.fd = BadFd THEN e.origin ELSE "refused"
Duplicate(e, n) == [e EXCEPT !.fd = n, !.origin = DupOrigin(e, n)]

CopyEngine(o, other) ==
    /\ Idle /\ ~obj[o].live /\ obj[other].live /\ obj[other].high = NoHigh
    /\ \E n \in Fds \cup {BadFd} :
          /\ Dups(table, obj[other].fd, n)
          /\ table' = Taken(table, n, "random")
          /\ obj' = [obj EXCEPT ![o] = Duplicate(obj[other], n)]
    /\ UNCHANGED calling

\* Rng(const Rng&): the copy has an engine of its own.
CopyRng(o, other) ==
    /\ obj[other].live /\ obj[other].high # NoHigh
    /\ Construct(o, obj[other].high)

\* Mutant: the object moved from keeps its cache.
MovedKeepsCache(e) == [e EXCEPT !.fd = BadFd, !.origin = "moved"]

MovedFrom(e) == [e EXCEPT !.fd = BadFd, !.position = EmptyCache, !.origin = "moved"]

\* RngEngine(RngEngine&&), Rng(Rng&&)
Move(o, other) ==
    /\ Idle /\ ~obj[o].live /\ obj[other].live
    /\ obj' = [obj EXCEPT ![o] = obj[other], ![other] = MovedFrom(@)]
    /\ UNCHANGED <<table, calling>>

\* The assignments, which an object to itself leaves alone.
Assignable(o, other) ==
    /\ Idle /\ o # other /\ obj[o].live /\ obj[other].live
    /\ (obj[o].high = NoHigh) = (obj[other].high = NoHigh)

\* operator=(const RngEngine&) closes its descriptor, and duplicates the
\* closed one.
CopyAssign(o, other) ==
    /\ Assignable(o, other)
    /\ LET closed == Closed(table, obj[o].fd)
       IN \E n \in Fds \cup {BadFd} :
             /\ Dups(closed, obj[o].fd, n)
             /\ table' = Taken(closed, n, "random")
             /\ obj' = [obj EXCEPT ![o] = [obj[other] EXCEPT !.fd = n, !.origin = "assigned"]]
    /\ UNCHANGED calling

\* Mutant: the descriptor is overwritten before it is closed.
MoveAssignLeaks(o, other) ==
    /\ Assignable(o, other)
    /\ obj' = [obj EXCEPT ![o] = obj[other], ![other] = MovedFrom(@)]
    /\ UNCHANGED <<table, calling>>

\* operator=(RngEngine&&)
MoveAssign(o, other) ==
    /\ Assignable(o, other)
    /\ table' = Closed(table, obj[o].fd)
    /\ obj' = [obj EXCEPT ![o] = obj[other], ![other] = MovedFrom(@)]
    /\ UNCHANGED calling

\* ~RngEngine
Destroy(o) ==
    /\ Idle /\ obj[o].live
    /\ table' = Closed(table, obj[o].fd)
    /\ obj' = [obj EXCEPT ![o] = Raw]
    /\ UNCHANGED calling

-----------------------------------------------------------------------------
(***************************************************************************)
(* Drawing.                                                                 *)
(***************************************************************************)
\* Mutant: one byte more than the cache has.
MustReadLate(e) == e.position = EmptyCache \/ e.position > CacheSize

\* operator() has to read when the cache is empty or used up (fillCache), and
\* throws when the read does not fill it.
MustRead(e)     == e.position = EmptyCache \/ e.position >= CacheSize
Delivers(e)     == MustRead(e) => e.fd # BadFd
Delivered(e)    == [e EXCEPT !.position = IF MustRead(e) THEN 1 ELSE @ + 1]

\* std::uniform_int_distribution over an engine of a wider range: the bytes
\* beyond the last full multiple of the range are drawn again.
Scaling(high)   == MaxByte \div (high + 1)
Accepts(high, b) == high >= MaxByte \/ b < Scaling(high) * (high + 1)
Scaled(high, b) == IF high >= MaxByte THEN b ELSE b \div Scaling(high)

\* One call of the engine: operator() itself, or one round of getNextInt.
Draw(o) ==
    /\ calling \in {Nobody, o} /\ obj[o].live
    /\ \/ /\ Delivers(obj[o])
          /\ obj' = [obj EXCEPT ![o] = Delivered(@)]
          /\ \E b \in Bytes :
                calling' = IF obj[o].high = NoHigh \/ Accepts(obj[o].high, b) THEN Nobody ELSE o
       \/ /\ MustRead(obj[o])       \* the read fails or falls short: an exception
          /\ calling' = Nobody
          /\ UNCHANGED obj
    /\ UNCHANGED table

\* The rest of the program opens a file and closes it.
OthersOpen == \E n \in Fds : /\ Idle /\ Lowest(table, n)
                             /\ table' = [table EXCEPT ![n] = "other"]
                             /\ UNCHANGED <<obj, calling>>
OthersClose == \E n \in Fds : /\ Idle /\ table[n] = "other"
                              /\ table' = [table EXCEPT ![n] = "free"]
                              /\ UNCHANGED <<obj, calling>>

RngNext ==
    \/ \E o \in Objs :
          \/ \E high \in Highs \cup {NoHigh} : Construct(o, high)
          \/ Destroy(o)
          \/ Draw(o)
          \/ \E other \in Objs : \/ CopyEngine(o, other) \/ CopyRng(o, other)
                                 \/ Move(o, other)
                                 \/ CopyAssign(o, other) \/ MoveAssign(o, other)
    \/ OthersOpen
    \/ OthersClose

RngSpec == RngInit /\ [][RngNext]_rngVars

-----------------------------------------------------------------------------
\* An object owns the descriptor it holds: no two objects hold the same one,
\* none holds one that is closed or has become a file of somebody else
\* (closing it would close that file), and none is left open without an owner
\* (rngengine.cc:82 to 122).
DescriptorsOwned ==
    /\ \A o \in Objs : obj[o].fd # BadFd => table[obj[o].fd] = "random"
    /\ \A o, q \in Objs : obj[o].fd # BadFd /\ obj[o].fd = obj[q].fd => o = q
    /\ \A n \in Fds : table[n] = "random" => \E o \in Objs : obj[o].live /\ obj[o].fd = n

\* Moving takes the descriptor and every byte with it, so that the object
\* moved from throws (tests/pwgen/rng_engine.cc:57) and no byte is delivered
\* twice; otherwise an object is without a descriptor only when dup was refused
\* or when it was copied to by assignment (rngengine.cc:102).
MovedIsEmpty ==
    \A o \in Objs : /\ obj[o].live /\ obj[o].origin = "moved"
                           => obj[o].fd = BadFd /\ obj[o].position = EmptyCache
                    /\ obj[o].live /\ obj[o].fd = BadFd => obj[o].origin # "opened"
=============================================================================
