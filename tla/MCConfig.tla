------------------------------ MODULE MCConfig ------------------------------
(***************************************************************************)
(* Bounds for Config: two paths, one of which the configuration file names *)
(* in a form that has to be cleaned; a number below every lower bound, one *)
(* inside and one above the longest password; a file that can contradict   *)
(* every command line option and switch off every pool of the generator.   *)
(***************************************************************************)
EXTENDS Config

CONSTANTS b1, b2

MCNumbers == {1, 12, 300}

Line(o, v) == [option |-> o, value |-> v]

MCRcLines == {Line(o, FALSE) : o \in PoolOptions \cup {"checkfsecurity"}} \cup
             {Line("locktimeout", 300), Line("pwgen_pwlen", 300), Line("colors", "invalid"),
              Line("load", [base |-> b2, plain |-> FALSE, suffixed |-> FALSE])}

\* No file, but one that can only switch off the pools.
MCPoolLines == {l \in MCRcLines : l.option \in PoolOptions}
=============================================================================
