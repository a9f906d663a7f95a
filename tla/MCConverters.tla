---------------------------- MODULE MCConverters ----------------------------
(***************************************************************************)
(* Bounds for Converters: records of two fields of up to three characters, *)
(* one letter.  One record with a field of every text of up to two         *)
(* characters next to a short one, or of three next to a letter: among     *)
(* these are records whose line the quotes make longer than MaxLine.  Two  *)
(* records of texts that can pair the quotes of one line with those of the *)
(* next.                                                                   *)
(***************************************************************************)
EXTENDS Converters

CONSTANT x

Short == {<<>>} \cup {<<c>> : c \in Chars}
Two   == {<<c, d>> : c, d \in Chars}
Three == {<<c, d, e>> : c, d, e \in Chars}
Pairs == {<<>>, <<x, Quote>>, <<Quote, x>>, <<Separator>>}

MCTables == {<<>>}
    \cup {<<r>> : r \in (Short \X Short) \cup (Two \X Short) \cup (Short \X Two)}
    \cup {<<r>> : r \in (Three \X {<<x>>}) \cup ({<<x>>} \X Three)}
    \cup {<<<<<<x>>, a>>, <<b, <<x>>>>>> : a, b \in Pairs}

MCHeader == <<<<x>>, <<x, x>>>>
=============================================================================
