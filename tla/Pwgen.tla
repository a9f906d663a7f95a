-------------------------------- MODULE Pwgen --------------------------------
(***************************************************************************)
(* PasswordGenerator (pwgen/pwgen.cc) over its random numbers (Rng).  A     *)
(* character of a password is told by the pool it is from; the pools are    *)
(* disjoint.  The Rng of generatePassword is a local object of the call,    *)
(* which is the only one the program makes; the other objects stand for the *)
(* use the interface allows, and live while there is no generator.          *)
(***************************************************************************)
EXTENDS Rng, Sequences

CONSTANTS
    Chars,      \* the characters
    PoolOf,     \* the pool of each
    MaxSize     \* the longest password generated

Pools == {PoolOf[c] : c \in Chars}

\* getPools: the string an index is drawn for.
PoolString(pools) == {c \in Chars : PoolOf[c] \in pools}

\* The assertion before the Rng is made (pwgen.cc:150).
ASSUME PwgenAssumption == /\ MaxSize \in Nat
                          /\ IsFiniteSet(Chars)
                          /\ Cardinality(Chars) < MaxByte

VARIABLE gen    \* the generator: its pools, and the call of generatePassword

vars == <<table, obj, calling, gen>>

Terminator == "nul"     \* what is behind the last character of a string

GenTypeOK ==
    /\ TypeOK
    /\ gen \in [pools : SUBSET Pools, state : {"none", "idle", "filling", "returned", "threw"},
                size : 0..MaxSize, password : Seq(Pools \cup {Terminator})]

Init ==
    /\ RngInit
    /\ gen = [pools |-> {}, state |-> "none", size |-> 0, password |-> <<>>]

-----------------------------------------------------------------------------
\* Mutant: the terminator counts as a character.
CanContainWithTerminator(pools, password) == Cardinality(pools) <= Len(password) + 1

\* containsSelectedPools, and countPools over the size without the terminator.
CanContainCharactersFromSelectedPools(pools, password) ==
    Cardinality(pools) <= Len(password)

ContainsSelectedPools(pools, password) ==
    CanContainCharactersFromSelectedPools(pools, password)
        => \A p \in pools : \E i \in DOMAIN password : password[i] = p

\* The constructors, the assignments and characterPools.
CharacterPools ==
    /\ gen.state # "filling" /\ \A o \in Objs : ~obj[o].live
    /\ \E pools \in SUBSET Pools :
          gen' = [pools |-> pools, state |-> "idle", size |-> 0, password |-> <<>>]
    /\ UNCHANGED rngVars

\* Mutant: the size of the string.
HighBeyond(pools) == Cardinality(PoolString(pools))

\* The upper limit of the distribution: the last index of the string.
High(pools) == Cardinality(PoolString(pools)) - 1

\* generatePassword up to the loop.  The Rng is the object that is made.
GeneratePassword(size, o) ==
    /\ gen.state \notin {"none", "filling"}
    /\ IF size < 1 \/ gen.pools = {}
       THEN /\ gen' = [gen EXCEPT !.state = "threw", !.size = size, !.password = <<>>]
            /\ UNCHANGED rngVars
       ELSE /\ Construct(o, High(gen.pools))
            /\ gen' = [gen EXCEPT !.state = IF obj'[o].live THEN "filling" ELSE "threw",
                                  !.size = size, !.password = <<>>]

Local(o) == gen.state = "filling" /\ obj[o].live

\* The character an index denotes; every pool selected has one.
CharactersAt(pools, i) == IF i \in 0..(Cardinality(PoolString(pools)) - 1)
                          THEN pools ELSE {Terminator}

\* The body of the loop: a random number, a character.
Fill(o, c) ==
    /\ Local(o) /\ Len(gen.password) < gen.size /\ Delivers(obj[o])
    /\ obj' = [obj EXCEPT ![o] = Delivered(@)]
    /\ \E b \in Bytes : /\ Accepts(obj[o].high, b)
                        /\ c \in CharactersAt(gen.pools, Scaled(obj[o].high, b))
    /\ gen' = [gen EXCEPT !.password = Append(@, c)]
    /\ UNCHANGED <<table, calling>>

\* A byte the distribution rejects.
Again(o) ==
    /\ Local(o) /\ Len(gen.password) < gen.size /\ Delivers(obj[o])
    /\ \E b \in Bytes : ~Accepts(obj[o].high, b)
    /\ obj' = [obj EXCEPT ![o] = Delivered(@)]
    /\ UNCHANGED <<table, calling, gen>>

\* A read fails: the exception destroys the Rng on its way.
ReadFails(o) ==
    /\ Local(o) /\ Len(gen.password) < gen.size /\ MustRead(obj[o])
    /\ Destroy(o)
    /\ gen' = [gen EXCEPT !.state = "threw", !.password = <<>>]

\* The condition of the loop.
Finish(o) ==
    /\ Local(o) /\ Len(gen.password) = gen.size
    /\ IF ContainsSelectedPools(gen.pools, gen.password)
       THEN /\ Destroy(o)
            /\ gen' = [gen EXCEPT !.state = "returned"]
       ELSE /\ gen' = [gen EXCEPT !.password = <<>>]
            /\ UNCHANGED rngVars

Generation(o) == \/ \E c \in Pools \cup {Terminator} : Fill(o, c)
                 \/ Again(o) \/ ReadFails(o) \/ Finish(o)

Next ==
    \/ CharacterPools
    \/ \E o \in Objs : \/ \E size \in 0..MaxSize : GeneratePassword(size, o)
                       \/ Generation(o)
    \/ gen.state = "none" /\ RngNext /\ UNCHANGED gen

(***************************************************************************)
(* Fairness.  A call that runs goes on.  The bytes are independent and      *)
(* uniform: with probability one, of the rounds in which the characters     *)
(* left are just enough for the missing pools, and infinitely many leave    *)
(* missing of them, infinitely many are helped by the next character.       *)
(***************************************************************************)
Missing == gen.pools \ {gen.password[i] : i \in DOMAIN gen.password}

Helps(missing) ==
    /\ Cardinality(Missing) = missing
    /\ gen.size - Len(gen.password) = missing
    /\ \E o \in Objs, c \in Missing : Fill(o, c)

Fairness == /\ WF_vars(\E o \in Objs : Generation(o))
            /\ SF_vars(\E o \in Objs, c \in Pools \cup {Terminator} : Fill(o, c))
            /\ \A missing \in 1..Cardinality(Pools) : SF_vars(Helps(missing))

Spec == Init /\ [][Next]_vars /\ Fairness

-----------------------------------------------------------------------------
\* A password has the size asked for, nothing but characters of the pools
\* selected, the last of the string included, and if it is long enough one of
\* each (pwgen.cc:153 to 161).
GeneratedFits ==
    gen.state = "returned" =>
        LET used == {gen.password[i] : i \in DOMAIN gen.password}
        IN /\ Len(gen.password) = gen.size
           /\ used \subseteq gen.pools
           /\ Cardinality(gen.pools) <= gen.size => used = gen.pools

\* generatePassword returns or throws, although it starts again whenever a
\* pool is missing: it does not insist on more pools than there are
\* characters (pwgen.cc:86).
GenerationEnds == gen.state = "filling" ~> gen.state # "filling"
=============================================================================
