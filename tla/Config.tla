------------------------------- MODULE Config -------------------------------
(***************************************************************************)
(* The configuration of yapet (libs/cfg), how main() fills it from the     *)
(* command line and from the configuration file, and the two places that   *)
(* change it later: the creation of files, which takes the path from the   *)
(* configuration, and the password generator dialog (libs/ui/pwgendialog). *)
(*                                                                         *)
(* An option is named as in Config::setup_map.  Text is abstracted to what *)
(* its conversion yields, a line of the file to the option it sets: the    *)
(* lines that are skipped (comments, no "=", no value, unknown options,    *)
(* values that are no Boolean) change nothing.                             *)
(***************************************************************************)
EXTENDS Integers

CONSTANTS
    Bases,      \* paths without tilde, double slashes and suffix
    Numbers,    \* what atoi makes of the texts somebody enters
    RcLines,    \* lines a configuration file may have
    None        \* no path, no value, no file

MaxInt == 2147483647

PoolOptions == {"pwgen_letters", "pwgen_digits", "pwgen_punct", "pwgen_special", "pwgen_other"}
BoolOptions == PoolOptions \cup {"checkfsecurity", "allowlockquit", "ignorerc"}
IntOptions  == {"locktimeout", "pwinputtimeout", "pwgen_pwlen",
                "argon2_memory", "argon2_parallelism", "argon2_iterations"}
Options     == BoolOptions \cup IntOptions \cup {"load", "colors"}

\* A path as somebody writes it; plain is false if it starts with a tilde or
\* has double slashes.
RawPaths == [base : Bases, plain : BOOLEAN, suffixed : BOOLEAN]
Paths    == [base : Bases, plain : {TRUE}, suffixed : {TRUE}]
Colors   == {"", "valid", "invalid"}

\* What the text for an option may convert to, and what the option may hold.
Input(o) == CASE o \in BoolOptions -> BOOLEAN
              [] o \in IntOptions  -> Numbers
              [] o = "load"        -> RawPaths
              [] OTHER             -> Colors

Bound(default, outside, min, max) ==
    [default |-> default, outside |-> outside, min |-> min, max |-> max]

Bounds == [locktimeout        |-> Bound(600, 10, 10, MaxInt),
           pwinputtimeout     |-> Bound(60, 10, 10, MaxInt),
           pwgen_pwlen        |-> Bound(15, 15, 2, 256),
           argon2_memory      |-> Bound(262144, 262144, 65536, MaxInt),
           argon2_parallelism |-> Bound(16, 16, 1, MaxInt),
           argon2_iterations  |-> Bound(5, 5, 2, MaxInt)]

Held(o) == CASE o \in BoolOptions -> BOOLEAN
             [] o \in IntOptions  -> Bounds[o].min .. Bounds[o].max
             [] o = "load"        -> Paths \cup {None}
             [] OTHER            -> Colors

ASSUME NumbersAssumption == Numbers \subseteq (-MaxInt - 1) .. MaxInt
ASSUME NoneAssumption    == None \notin Paths \cup RawPaths \cup BOOLEAN \cup Colors \cup Int
ASSUME RcLinesAssumption == \A l \in RcLines : /\ l.option \in Options \ {"ignorerc"}
                                               /\ l.value \in Input(l.option)

VARIABLES
    val,        \* the value of every option
    locked,     \* the options that are locked
    phase,      \* how far main() is
    given,      \* history: what the command line says, as converted
    start,      \* the file main() hands to MainWindow
    created,    \* the last file created: the path asked for, the path used
    gen         \* the pools of the open generator dialog, or None

vars == <<val, locked, phase, given, start, created, gen>>

\* CfgValInt::set without the upper bound (a mutant of Clamp).
ClampBelow(o, n) == IF n < Bounds[o].min THEN Bounds[o].outside ELSE n

Clamp(o, n) == IF n < Bounds[o].min \/ n > Bounds[o].max THEN Bounds[o].outside ELSE n

\* cleanup_path, then add_suffix.
SetPath(p) == [base |-> p.base, plain |-> TRUE, suffixed |-> TRUE]

Converted(o, v) == CASE o \in IntOptions -> Clamp(o, v)
                     [] o = "load"       -> SetPath(v)
                     [] OTHER            -> v

\* CfgVal::set and the overrides of it.
Set(f, o, v) == IF o \in locked THEN f ELSE [f EXCEPT ![o] = Converted(o, v)]

Selected(f) == {o \in PoolOptions : f[o]}

Phases == {"args", "open", "rc", "unlock", "curses", "running", "ended", "failed"}

TypeOK == /\ DOMAIN val = Options /\ DOMAIN given = Options
          /\ \A o \in Options : val[o] \in Held(o)
          /\ locked \subseteq Options
          /\ phase \in Phases
          /\ \A o \in Options : given[o] = None \/ given[o] \in Held(o)
          /\ start \in Paths \cup {None}
          /\ created = None \/ (created.asked \in RawPaths /\ created.name \in Paths)
          /\ gen = None \/ gen \subseteq PoolOptions

Default(o) == CASE o \in IntOptions                    -> Bounds[o].default
                [] o \in {"ignorerc", "pwgen_other"}   -> FALSE
                [] o = "load"                          -> None
                [] o = "colors"                        -> ""
                [] OTHER                               -> TRUE

Init == /\ val = [o \in Options |-> Default(o)]
        /\ locked = {}
        /\ phase = "args"
        /\ given = [o \in Options |-> None]
        /\ start = None /\ created = None /\ gen = None

-----------------------------------------------------------------------------
(***************************************************************************)
(* main().                                                                 *)
(***************************************************************************)
Later == UNCHANGED <<start, created, gen>>

\* Mutant of Argument: set but not locked.
ArgumentUnlocked(o, v) ==
    /\ val' = Set(val, o, v)
    /\ given' = [given EXCEPT ![o] = IF o \in locked THEN @ ELSE Converted(o, v)]
    /\ UNCHANGED locked

\* Set and lock: of two contradictory options the first one counts.
Argument(o, v) ==
    /\ val' = Set(val, o, v)
    /\ given' = [given EXCEPT ![o] = IF o \in locked THEN @ ELSE Converted(o, v)]
    /\ locked' = locked \cup {o}

\* -i, -s, -S and -t.
Option ==
    /\ phase = "args"
    /\ \/ Argument("ignorerc", TRUE)
       \/ \E b \in BOOLEAN : Argument("checkfsecurity", b)
       \/ \E n \in Numbers : Argument("locktimeout", n)
    /\ UNCHANGED phase /\ Later

\* -c, -h, -V, an unknown option or a missing argument.
End == phase = "args" /\ phase' = "ended" /\ UNCHANGED <<val, locked, given>> /\ Later

Filename == /\ phase = "args"
            /\ phase' = "open"
            /\ \/ \E p \in RawPaths : Argument("load", p)
               \/ UNCHANGED <<val, locked, given>>
            /\ Later

\* The file is read unless it is to be ignored or there is none.
OpenRc == /\ phase = "open"
          /\ phase' \in {"unlock"} \cup (IF val["ignorerc"] THEN {} ELSE {"rc"})
          /\ UNCHANGED <<val, locked, given>> /\ Later

ReadLine(l) == /\ phase = "rc"
               /\ val' = Set(val, l.option, l.value)
               /\ UNCHANGED <<locked, phase, given>> /\ Later

\* The end of the file, or a line that is too long for the buffer.
StopReading == /\ phase = "rc"
               /\ phase' = "unlock"
               /\ UNCHANGED <<val, locked, given>> /\ Later

\* Mutant of Unlock: petfile is forgotten.
UnlockButPetfile == /\ phase = "unlock"
                    /\ phase' = "curses"
                    /\ locked' = locked \cap {"load"}
                    /\ UNCHANGED <<val, given>> /\ Later

Unlock == /\ phase = "unlock"
          /\ phase' = "curses"
          /\ locked' = {}
          /\ UNCHANGED <<val, given>> /\ Later

\* Colours that cannot be parsed are dropped.
Run == /\ phase = "curses"
       /\ phase' = "running"
       /\ val' = IF val["colors"] = "invalid" THEN Set(val, "colors", "") ELSE val
       /\ start' = val'["load"]
       /\ UNCHANGED <<locked, given, created, gen>>

-----------------------------------------------------------------------------
\* CreateFile and LoadFileCmdLine put the path into the configuration and
\* take it from there.
Create(p) == /\ phase = "running" /\ gen = None
             /\ val' = Set(val, "load", p)
             /\ created' = [asked |-> p, name |-> val'["load"]]
             /\ start' = None
             /\ UNCHANGED <<locked, phase, given, gen>>

CreateFile == \E p \in RawPaths : Create(p)

CreateCmdLineFile == start # None /\ Create(start)

(***************************************************************************)
(* PwGenDialog.  Its constructor generates a password, which throws if no  *)
(* pool is selected; only main() catches that, and ends the program.       *)
(***************************************************************************)
OpenGenerator ==
    /\ phase = "running" /\ gen = None
    /\ IF Selected(val) = {} THEN phase' = "failed" /\ gen' = gen
                             ELSE phase' = phase /\ gen' = Selected(val)
    /\ UNCHANGED <<val, locked, given, start, created>>

\* Mutant of SelectPools: an empty selection is taken as it is.
SelectNothing(pools) ==
    /\ phase = "running" /\ gen # None
    /\ val' = [o \in Options |-> IF o \in PoolOptions \ locked THEN o \in pools ELSE val[o]]
    /\ gen' = Selected(val')
    /\ UNCHANGED <<locked, phase, given, start, created>>

SelectPools(pools) ==
    /\ phase = "running" /\ gen # None
    /\ LET set  == [o \in Options |-> IF o \in PoolOptions \ locked THEN o \in pools ELSE val[o]]
       IN val' = IF Selected(set) = {} THEN Set(set, "pwgen_letters", TRUE) ELSE set
    /\ gen' = Selected(val')
    /\ UNCHANGED <<locked, phase, given, start, created>>

Regenerate(n) == /\ phase = "running" /\ gen # None
                 /\ val' = Set(val, "pwgen_pwlen", n)
                 /\ UNCHANGED <<locked, phase, given, start, created, gen>>

CloseGenerator == /\ phase = "running" /\ gen # None
                  /\ gen' = None
                  /\ UNCHANGED <<val, locked, phase, given, start, created>>

Quit == /\ phase = "running" /\ gen = None
        /\ phase' = "ended"
        /\ UNCHANGED <<val, locked, given>> /\ Later

Over == phase \in {"ended", "failed"} /\ UNCHANGED vars

Startup == \/ Option \/ End \/ Filename \/ OpenRc
           \/ \E l \in RcLines : ReadLine(l)
           \/ StopReading \/ Unlock \/ Run

Generator == \/ OpenGenerator \/ CloseGenerator
             \/ \E pools \in SUBSET PoolOptions : SelectPools(pools)
             \/ \E n \in Numbers : Regenerate(n)

Next == Startup \/ CreateFile \/ CreateCmdLineFile \/ Generator \/ Quit \/ Over

Spec == Init /\ [][Next]_vars

-----------------------------------------------------------------------------
\* Until the program runs, an option given on the command line keeps its
\* value, whatever the configuration file says and however often it says it
\* ("Options given on the command line override options given in a
\* configuration file", doc/yapet_config.adoc.in).
CommandLineWins ==
    phase \in {"args", "open", "rc", "unlock", "curses"} =>
        \A o \in Options : given[o] # None => val[o] = given[o]

\* The file that is created is the one the user named, cleaned and with the
\* suffix, although the path goes through the configuration, where a lock
\* from the command line would keep the old one (createfile.cc:74).
CreatesAsked == created # None => created.name = SetPath(created.asked)

\* The generator behind the open dialog draws from the pools the configuration
\* has selected, and there is one.
GeneratorFollows == gen # None => gen = Selected(val) /\ gen # {}
=============================================================================
