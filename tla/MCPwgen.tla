------------------------------- MODULE MCPwgen -------------------------------
(* Three pools of four characters, and a byte that can be rejected. *)
EXTENDS Pwgen

MCChars  == {"a", "b", "1", "!"}
MCPoolOf == [c \in MCChars |-> CASE c \in {"a", "b"} -> "letters" [] c = "1" -> "digits"
                                 [] OTHER -> "punct"]
MCHighs  == {1}
=============================================================================
