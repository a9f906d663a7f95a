---------------------------- MODULE ConfigProofs ----------------------------
(***************************************************************************)
(* The properties of Config, for every set of paths, numbers and           *)
(* configuration files.                                                    *)
(***************************************************************************)
EXTENDS Config, TLAPS

LEMMA SetChanges ==
    ASSUME NEW o \in Options, NEW v, DOMAIN val = Options
    PROVE  /\ DOMAIN Set(val, o, v) = Options
           /\ \A q \in Options \ {o} : Set(val, o, v)[q] = val[q]
           /\ Set(val, o, v)[o] = IF o \in locked THEN val[o] ELSE Converted(o, v)
  BY DEF Set

-----------------------------------------------------------------------------
\* The values --------------------------------------------------------------

LEMMA OptionKinds ==
    /\ BoolOptions \cap IntOptions = {}
    /\ "load" \notin BoolOptions \cup IntOptions
    /\ "colors" \notin BoolOptions \cup IntOptions
    /\ BoolOptions \cup IntOptions \cup {"load", "colors"} = Options
    /\ PoolOptions \subseteq BoolOptions
    /\ {"checkfsecurity", "ignorerc"} \subseteq BoolOptions
    /\ {"locktimeout", "pwgen_pwlen"} \subseteq IntOptions
  BY DEF Options, BoolOptions, IntOptions, PoolOptions

LEMMA NumbersAreInt == Numbers \subseteq Int
  <1>1. MaxInt \in Int
    BY SMT DEF MaxInt
  <1>2. QED
    BY <1>1, NumbersAssumption

LEMMA HeldKinds ==
    /\ \A o \in BoolOptions : Held(o) = BOOLEAN /\ Input(o) = BOOLEAN
    /\ \A o \in IntOptions : Held(o) = Bounds[o].min .. Bounds[o].max /\ Input(o) = Numbers
    /\ Held("load") = Paths \cup {None} /\ Input("load") = RawPaths
    /\ Held("colors") = Colors /\ Input("colors") = Colors
  BY OptionKinds DEF Held, Input

\* The value a number outside the bounds is replaced with lies inside them, and
\* so does the default.
LEMMA BoundsSound ==
    ASSUME NEW o \in IntOptions
    PROVE  /\ Bounds[o].min \in Int /\ Bounds[o].max \in Int
           /\ Bounds[o].outside \in Bounds[o].min .. Bounds[o].max
           /\ Bounds[o].default \in Bounds[o].min .. Bounds[o].max
  BY SMT DEF IntOptions, Bounds, Bound, MaxInt

LEMMA ConvertedHeld ==
    ASSUME NEW o \in Options, NEW v \in Input(o)
    PROVE  Converted(o, v) \in Held(o)
  <1>1. CASE o \in IntOptions
    <2>1. v \in Int
      <3>1. Input(o) = Numbers
        BY <1>1, HeldKinds
      <3>2. QED
        BY <3>1, NumbersAreInt
    <2>2. Clamp(o, v) \in Bounds[o].min .. Bounds[o].max
      BY <1>1, <2>1, BoundsSound DEF Clamp
    <2>3. Converted(o, v) = Clamp(o, v)
      BY <1>1, OptionKinds DEF Converted
    <2>4. Held(o) = Bounds[o].min .. Bounds[o].max
      BY <1>1, HeldKinds
    <2>5. QED
      BY <2>2, <2>3, <2>4
  <1>2. CASE o = "load"
    <2>1. SetPath(v) \in Paths
      <3>1. v \in RawPaths
        BY <1>2, HeldKinds
      <3>2. QED
        BY <3>1 DEF SetPath, RawPaths, Paths
    <2>2. QED
      BY <1>2, <2>1, HeldKinds, OptionKinds DEF Converted
  <1>3. CASE o \in BoolOptions \/ o = "colors"
    <2>1. Converted(o, v) = v
      BY <1>3, OptionKinds DEF Converted
    <2>2. QED
      BY <1>3, <2>1, HeldKinds
  <1>4. QED
    BY <1>1, <1>2, <1>3, OptionKinds

\* Every value, set from whatever input, stays what the option may hold.
ValuesHeld == DOMAIN val = Options /\ \A o \in Options : val[o] \in Held(o)

LEMMA SetHeld ==
    ASSUME ValuesHeld, NEW o \in Options, NEW v \in Input(o), val' = Set(val, o, v)
    PROVE  ValuesHeld'
  BY SetChanges, ConvertedHeld DEF ValuesHeld

LEMMA SelectHeld ==
    ASSUME ValuesHeld, NEW pools, SelectPools(pools)
    PROVE  ValuesHeld'
  <1> DEFINE set == [o \in Options |-> IF o \in PoolOptions \ locked THEN o \in pools ELSE val[o]]
  <1>1. \A o \in Options : set[o] \in Held(o)
    <2>1. ASSUME NEW o \in Options, o \in PoolOptions \ locked PROVE set[o] \in BOOLEAN
      BY <2>1
    <2>2. ASSUME NEW o \in Options, o \notin PoolOptions \ locked PROVE set[o] \in Held(o)
      BY <2>2 DEF ValuesHeld
    <2>3. \A o \in PoolOptions : Held(o) = BOOLEAN
      BY HeldKinds, OptionKinds
    <2>4. QED
      BY <2>1, <2>2, <2>3
  <1>2. val' = IF Selected(set) = {} THEN Set(set, "pwgen_letters", TRUE) ELSE set
    BY DEF SelectPools
  <1>3. Converted("pwgen_letters", TRUE) = TRUE
    BY OptionKinds DEF Converted, IntOptions
  <1>4. TRUE \in Held("pwgen_letters") /\ "pwgen_letters" \in Options
    BY HeldKinds, OptionKinds DEF PoolOptions
  <1>5. Set(set, "pwgen_letters", TRUE) = set
        \/ Set(set, "pwgen_letters", TRUE) = [set EXCEPT !["pwgen_letters"] = TRUE]
    BY <1>3 DEF Set
  <1> HIDE DEF set
  <1>6. DOMAIN set = Options
    BY DEF set
  <1>7. QED
    BY <1>1, <1>2, <1>4, <1>5, <1>6 DEF ValuesHeld

-----------------------------------------------------------------------------
\* Type correctness --------------------------------------------------------

LEMMA ArgumentType ==
    ASSUME TypeOK, NEW o \in Options, NEW v \in Input(o), Argument(o, v)
    PROVE  /\ ValuesHeld'
           /\ locked' \subseteq Options
           /\ DOMAIN given' = Options
           /\ \A q \in Options : given'[q] = None \/ given'[q] \in Held(q)
  <1>1. ValuesHeld'
    BY SetHeld DEF TypeOK, ValuesHeld, Argument
  <1>2. Converted(o, v) \in Held(o)
    BY ConvertedHeld
  <1>3. QED
    BY <1>1, <1>2 DEF TypeOK, Argument

LEMMA InitType == Init => TypeOK
  <1> SUFFICES ASSUME Init PROVE TypeOK
    OBVIOUS
  <1>1. ASSUME NEW o \in Options PROVE Default(o) \in Held(o)
    <2>1. CASE o \in IntOptions
      <3>1. Default(o) = Bounds[o].default
        BY <2>1, OptionKinds DEF Default, BoolOptions, PoolOptions
      <3>2. Held(o) = Bounds[o].min .. Bounds[o].max
        BY <2>1, HeldKinds
      <3>3. QED
        BY <2>1, <3>1, <3>2, BoundsSound
    <2>2. CASE o \in BoolOptions
      BY <2>2, HeldKinds, OptionKinds DEF Default
    <2>3. CASE o = "load"
      BY <2>3, HeldKinds, OptionKinds DEF Default
    <2>4. CASE o = "colors"
      BY <2>4, HeldKinds, OptionKinds DEF Default, Colors
    <2>5. QED
      BY <2>1, <2>2, <2>3, <2>4, OptionKinds
  <1>2. QED
    BY <1>1 DEF Init, TypeOK, Phases

LEMMA StartupType ==
    ASSUME TypeOK, Startup
    PROVE  TypeOK'
  <1>0. ValuesHeld
    BY DEF TypeOK, ValuesHeld
  <1>1. CASE Option
    <2>1. PICK o \in Options : \E v \in Input(o) : Argument(o, v)
      <3>1. {"ignorerc", "checkfsecurity", "locktimeout"} \subseteq Options
        BY OptionKinds
      <3>2. /\ Input("ignorerc") = BOOLEAN /\ Input("checkfsecurity") = BOOLEAN
            /\ Input("locktimeout") = Numbers
        BY HeldKinds, OptionKinds
      <3>3. CASE Argument("ignorerc", TRUE)
        BY <3>1, <3>2, <3>3
      <3>4. CASE \E b \in BOOLEAN : Argument("checkfsecurity", b)
        BY <3>1, <3>2, <3>4
      <3>5. CASE \E n \in Numbers : Argument("locktimeout", n)
        BY <3>1, <3>2, <3>5
      <3>6. QED
        BY <1>1, <3>3, <3>4, <3>5 DEF Option
    <2>2. QED
      BY <1>1, <2>1, ArgumentType DEF Option, Later, TypeOK, ValuesHeld
  <1>2. CASE End
    BY <1>2 DEF End, Later, TypeOK, Phases
  <1>3. CASE Filename
    <2>1. CASE \E v \in RawPaths : Argument("load", v)
      BY <1>3, <2>1, ArgumentType, HeldKinds, OptionKinds
      DEF Filename, Later, TypeOK, ValuesHeld, Phases
    <2>2. CASE UNCHANGED <<val, locked, given>>
      BY <1>3, <2>2 DEF Filename, Later, TypeOK, Phases
    <2>3. QED
      BY <1>3, <2>1, <2>2 DEF Filename
  <1>4. CASE OpenRc
    BY <1>4 DEF OpenRc, Later, TypeOK, Phases
  <1>5. CASE \E l \in RcLines : ReadLine(l)
    <2>1. PICK l \in RcLines : ReadLine(l)
      BY <1>5
    <2>2. l.option \in Options /\ l.value \in Input(l.option)
      BY RcLinesAssumption
    <2>3. ValuesHeld'
      BY <1>0, <2>1, <2>2, SetHeld DEF ReadLine
    <2>4. QED
      BY <2>1, <2>3 DEF ReadLine, Later, TypeOK, ValuesHeld
  <1>6. CASE StopReading
    BY <1>6 DEF StopReading, Later, TypeOK, Phases
  <1>7. CASE Unlock
    BY <1>7 DEF Unlock, Later, TypeOK, Phases
  <1>8. CASE Run
    <2>1. ValuesHeld'
      <3>1. "colors" \in Options /\ "" \in Input("colors")
        BY HeldKinds, OptionKinds DEF Colors
      <3>2. QED
        BY <1>0, <1>8, <3>1, SetHeld DEF Run, ValuesHeld
    <2>2. val'["load"] \in Paths \cup {None}
      BY <2>1, HeldKinds, OptionKinds DEF ValuesHeld
    <2>3. QED
      BY <1>8, <2>1, <2>2 DEF Run, TypeOK, ValuesHeld, Phases
  <1>9. QED
    BY <1>1, <1>2, <1>3, <1>4, <1>5, <1>6, <1>7, <1>8 DEF Startup

\* What is created carries the path asked for, because nothing is locked.
LEMMA CreateType ==
    ASSUME TypeOK, NEW p \in RawPaths, Create(p), CreatesAsked'
    PROVE  TypeOK'
  <1>1. ValuesHeld'
    BY SetHeld, HeldKinds, OptionKinds DEF TypeOK, ValuesHeld, Create
  <1>2. SetPath(p) \in Paths
    BY DEF SetPath, RawPaths, Paths
  <1>3. created' = None \/ (created'.asked \in RawPaths /\ created'.name \in Paths)
    BY <1>2 DEF Create, CreatesAsked
  <1>4. QED
    BY <1>1, <1>3 DEF Create, TypeOK, ValuesHeld

LEMMA GeneratorType ==
    ASSUME TypeOK, Generator
    PROVE  TypeOK'
  <1>0. ValuesHeld /\ Selected(val) \subseteq PoolOptions
    BY DEF TypeOK, ValuesHeld, Selected
  <1>1. CASE OpenGenerator
    BY <1>0, <1>1 DEF OpenGenerator, TypeOK, Phases
  <1>2. CASE CloseGenerator
    BY <1>2 DEF CloseGenerator, TypeOK
  <1>3. CASE \E pools \in SUBSET PoolOptions : SelectPools(pools)
    <2>1. ValuesHeld' /\ Selected(val)' \subseteq PoolOptions
      BY <1>0, <1>3, SelectHeld DEF Selected
    <2>2. QED
      BY <1>3, <2>1 DEF SelectPools, TypeOK, ValuesHeld
  <1>4. CASE \E n \in Numbers : Regenerate(n)
    <2>1. ValuesHeld'
      BY <1>0, <1>4, SetHeld, HeldKinds, OptionKinds DEF Regenerate
    <2>2. QED
      BY <1>4, <2>1 DEF Regenerate, TypeOK, ValuesHeld
  <1>5. QED
    BY <1>1, <1>2, <1>3, <1>4 DEF Generator

-----------------------------------------------------------------------------
\* The command line and the file -------------------------------------------

\* An option given on the command line is locked until main() unlocks them
\* all; from then on nothing is locked.
LocksKept == /\ phase \in {"args", "open", "rc", "unlock"} =>
                    \A o \in Options : given[o] # None => o \in locked
             /\ phase \in {"curses", "running", "failed"} => locked = {}

\* No file has been created and no generator is open before the program runs.
NotBefore == phase \notin {"running", "ended", "failed"} => created = None /\ gen = None

GeneratorRuns == gen # None => phase = "running"

IInv == /\ TypeOK
        /\ LocksKept /\ NotBefore /\ GeneratorRuns
        /\ CommandLineWins
        /\ CreatesAsked
        /\ GeneratorFollows

LEMMA InitInv == Init => IInv
  BY InitType DEF Init, IInv, LocksKept, NotBefore, GeneratorRuns, CommandLineWins,
                  CreatesAsked, GeneratorFollows

LEMMA ArgumentWins ==
    ASSUME TypeOK, NEW o \in Options, NEW v, Argument(o, v),
           \A q \in Options : given[q] # None => q \in locked /\ val[q] = given[q]
    PROVE  \A q \in Options : given'[q] # None => q \in locked' /\ val'[q] = given'[q]
  <1>1. \A q \in Options \ {o} : val'[q] = val[q] /\ given'[q] = given[q]
    BY SetChanges DEF TypeOK, Argument
  <1>2. val'[o] = IF o \in locked THEN val[o] ELSE Converted(o, v)
    BY SetChanges DEF TypeOK, Argument
  <1>3. given'[o] = IF o \in locked THEN given[o] ELSE Converted(o, v)
    BY DEF TypeOK, Argument
  <1>4. locked' = locked \cup {o}
    BY DEF Argument
  <1>5. QED
    BY <1>1, <1>2, <1>3, <1>4

LEMMA StartupInv ==
    ASSUME IInv, Startup
    PROVE  /\ LocksKept' /\ NotBefore' /\ GeneratorRuns'
           /\ CommandLineWins' /\ CreatesAsked' /\ GeneratorFollows'
  <1> USE DEF IInv
  <1>1. CASE Option
    <2>1. PICK o \in Options : \E v : Argument(o, v)
      BY <1>1 DEF Option, Options, BoolOptions, IntOptions
    <2>2. \A q \in Options : given'[q] # None => q \in locked' /\ val'[q] = given'[q]
      BY <1>1, <2>1, ArgumentWins DEF Option, LocksKept, CommandLineWins
    <2>3. QED
      BY <1>1, <2>2 DEF Option, Later, LocksKept, NotBefore, GeneratorRuns,
                        CommandLineWins, CreatesAsked, GeneratorFollows
  <1>2. CASE End
    BY <1>2 DEF End, Later, LocksKept, NotBefore, GeneratorRuns,
                CommandLineWins, CreatesAsked, GeneratorFollows
  <1>3. CASE Filename
    <2>1. \A q \in Options : given'[q] # None => q \in locked' /\ val'[q] = given'[q]
      <3>1. CASE \E p \in RawPaths : Argument("load", p)
        BY <1>3, <3>1, ArgumentWins DEF Filename, LocksKept, CommandLineWins, Options
      <3>2. CASE UNCHANGED <<val, locked, given>>
        BY <1>3, <3>2 DEF Filename, LocksKept, CommandLineWins
      <3>3. QED
        BY <1>3, <3>1, <3>2 DEF Filename
    <2>2. QED
      BY <1>3, <2>1 DEF Filename, Later, LocksKept, NotBefore, GeneratorRuns,
                        CommandLineWins, CreatesAsked, GeneratorFollows
  <1>4. CASE OpenRc
    BY <1>4 DEF OpenRc, Later, LocksKept, NotBefore, GeneratorRuns,
                CommandLineWins, CreatesAsked, GeneratorFollows
  <1>5. CASE \E l \in RcLines : ReadLine(l)
    <2>1. PICK l \in RcLines : ReadLine(l)
      BY <1>5
    <2>2. l.option \in Options
      BY RcLinesAssumption
    <2>3. \A q \in locked \cap Options : val'[q] = val[q]
      BY <2>1, <2>2, SetChanges DEF ReadLine, TypeOK
    <2>4. QED
      BY <2>1, <2>3 DEF ReadLine, Later, LocksKept, NotBefore, GeneratorRuns,
                        CommandLineWins, CreatesAsked, GeneratorFollows
  <1>6. CASE StopReading
    BY <1>6 DEF StopReading, Later, LocksKept, NotBefore, GeneratorRuns,
                CommandLineWins, CreatesAsked, GeneratorFollows
  <1>7. CASE Unlock
    BY <1>7 DEF Unlock, Later, LocksKept, NotBefore, GeneratorRuns,
                CommandLineWins, CreatesAsked, GeneratorFollows
  <1>8. CASE Run
    BY <1>8 DEF Run, LocksKept, NotBefore, GeneratorRuns,
                CommandLineWins, CreatesAsked, GeneratorFollows
  <1>9. QED
    BY <1>1, <1>2, <1>3, <1>4, <1>5, <1>6, <1>7, <1>8 DEF Startup

LEMMA CreateInv ==
    ASSUME IInv, NEW p \in RawPaths, Create(p)
    PROVE  /\ LocksKept' /\ NotBefore' /\ GeneratorRuns'
           /\ CommandLineWins' /\ CreatesAsked' /\ GeneratorFollows'
  <1> USE DEF IInv
  <1>1. val'["load"] = Converted("load", p)
    BY SetChanges DEF Create, LocksKept, TypeOK, Options
  <1>2. Converted("load", p) = SetPath(p)
    BY OptionKinds DEF Converted
  <1>3. CreatesAsked'
    BY <1>1, <1>2 DEF Create, CreatesAsked
  <1>4. QED
    BY <1>3 DEF Create, LocksKept, NotBefore, GeneratorRuns, CommandLineWins, GeneratorFollows

LEMMA GeneratorInv ==
    ASSUME IInv, Generator
    PROVE  /\ LocksKept' /\ NotBefore' /\ GeneratorRuns'
           /\ CommandLineWins' /\ CreatesAsked' /\ GeneratorFollows'
  <1> USE DEF IInv
  <1>1. CASE OpenGenerator
    BY <1>1 DEF OpenGenerator, LocksKept, NotBefore, GeneratorRuns, CommandLineWins,
                CreatesAsked, GeneratorFollows
  <1>2. CASE CloseGenerator
    BY <1>2 DEF CloseGenerator, LocksKept, NotBefore, GeneratorRuns, CommandLineWins,
                CreatesAsked, GeneratorFollows
  <1>3. CASE \E pools \in SUBSET PoolOptions : SelectPools(pools)
    <2>1. PICK pools \in SUBSET PoolOptions : SelectPools(pools)
      BY <1>3
    <2> DEFINE set == [o \in Options |->
                          IF o \in PoolOptions \ locked THEN o \in pools ELSE val[o]]
    <2>2. CASE Selected(set) = {}
      <3>1. val' = Set(set, "pwgen_letters", TRUE)
        BY <2>1, <2>2 DEF SelectPools
      <3>2. val'["pwgen_letters"] = TRUE
        BY <2>1, <3>1, OptionKinds
        DEF SelectPools, Set, LocksKept, Converted, PoolOptions, IntOptions
      <3>3. Selected(val') # {}
        BY <3>2 DEF Selected, PoolOptions
      <3>4. QED
        BY <2>1, <3>3 DEF SelectPools, LocksKept, NotBefore, GeneratorRuns,
                          CommandLineWins, CreatesAsked, GeneratorFollows, Selected
    <2>3. CASE Selected(set) # {}
      <3>1. Selected(val') # {}
        BY <2>1, <2>3 DEF SelectPools
      <3>2. QED
        BY <2>1, <3>1 DEF SelectPools, LocksKept, NotBefore, GeneratorRuns,
                          CommandLineWins, CreatesAsked, GeneratorFollows, Selected
    <2>4. QED
      BY <2>2, <2>3
  <1>4. CASE \E n \in Numbers : Regenerate(n)
    <2>1. \A q \in PoolOptions : val'[q] = val[q]
      BY <1>4, SetChanges, OptionKinds DEF Regenerate, TypeOK
    <2>2. Selected(val') = Selected(val)
      BY <2>1 DEF Selected
    <2>3. QED
      BY <1>4, <2>2 DEF Regenerate, LocksKept, NotBefore, GeneratorRuns,
                        CommandLineWins, CreatesAsked, GeneratorFollows, Selected
  <1>5. QED
    BY <1>1, <1>2, <1>3, <1>4 DEF Generator

LEMMA NextInv == IInv /\ [Next]_vars => IInv'
  <1> SUFFICES ASSUME IInv, [Next]_vars PROVE IInv'
    OBVIOUS
  <1>1. CASE Startup
    BY <1>1, StartupType, StartupInv DEF IInv
  <1>2. ASSUME NEW p \in RawPaths, Create(p) PROVE IInv'
    BY <1>2, CreateType, CreateInv DEF IInv
  <1>3. CASE CreateCmdLineFile
    <2>1. start \in RawPaths
      BY <1>3 DEF CreateCmdLineFile, IInv, TypeOK, Paths, RawPaths
    <2>2. QED
      BY <1>2, <1>3, <2>1 DEF CreateCmdLineFile
  <1>4. CASE Generator
    BY <1>4, GeneratorType, GeneratorInv DEF IInv
  <1>5. CASE Quit
    BY <1>5 DEF Quit, Later, IInv, TypeOK, Phases, LocksKept, NotBefore, GeneratorRuns,
                CommandLineWins, CreatesAsked, GeneratorFollows
  <1>6. CASE UNCHANGED vars
    BY <1>6 DEF vars, IInv, TypeOK, LocksKept, NotBefore, GeneratorRuns,
                CommandLineWins, CreatesAsked, GeneratorFollows, Selected
  <1>7. QED
    BY <1>1, <1>2, <1>3, <1>4, <1>5, <1>6 DEF Next, CreateFile, Over

LEMMA Invariance == Spec => []IInv
  BY InitInv, NextInv, PTL DEF Spec

\* Every option holds a value of its kind and inside its bounds, whatever is
\* entered on the command line, in the file or in the dialogs.
THEOREM TypeCorrect == Spec => []TypeOK
  BY Invariance, PTL DEF IInv

\* An option given on the command line overrides the configuration file.
THEOREM CommandLineCorrect == Spec => []CommandLineWins
  BY Invariance, PTL DEF IInv

\* The file that is created is the one the user asked for.
THEOREM CreationCorrect == Spec => []CreatesAsked
  BY Invariance, PTL DEF IInv

\* An open generator draws from the selected pools, and there is one.
THEOREM GeneratorCorrect == Spec => []GeneratorFollows
  BY Invariance, PTL DEF IInv

=============================================================================
