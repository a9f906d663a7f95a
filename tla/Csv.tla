-------------------------------- MODULE Csv --------------------------------
(***************************************************************************)
(* The CSV code the converters share (src/converters/csv): the quoting of  *)
(* fields (CSVStringField), lines of fields (CSVLine), and the reading of  *)
(* a line that may contain quoted line ends (readLine in csvimport.cc).    *)
(*                                                                         *)
(* A text is a sequence of characters.  What throws in the code yields a   *)
(* record whose field ok is FALSE here.  Every loop over characters is a   *)
(* function from the number of characters seen to the state of the loop.   *)
(***************************************************************************)
EXTENDS Integers, Sequences, SequencesExt

CONSTANT Letters    \* the characters without a meaning

Separator == "separator"
Quote     == "quote"
Newline   == "newline"

Chars == Letters \cup {Separator, Quote, Newline}
Text  == Seq(Chars)

ASSUME LettersAssumption == Letters \cap {Separator, Quote, Newline} = {}

-----------------------------------------------------------------------------
(***************************************************************************)
(* CSVStringField.                                                         *)
(***************************************************************************)
IsEscaped(s) == s # <<>> /\ s[1] = Quote /\ s[Len(s)] = Quote

RequireEscaping(s) == \E i \in DOMAIN s : s[i] \in {Separator, Newline}

Doubled(s) ==
    FlattenSeq([i \in DOMAIN s |-> IF s[i] = Quote THEN <<Quote, Quote>> ELSE <<s[i]>>])

\* Mutant of Escape: the quotes inside are not doubled.
EscapeOnce(s) ==
    IF IsEscaped(s) \/ ~RequireEscaping(s) THEN s ELSE <<Quote>> \o s \o <<Quote>>

\* A text that begins and ends with a quote passes for escaped.
Escape(s) ==
    IF IsEscaped(s) \/ ~RequireEscaping(s) THEN s ELSE <<Quote>> \o Doubled(s) \o <<Quote>>

\* One character between the outer quotes; quote: the one before was the first
\* of a pair.
Undouble(u, c) ==
    IF ~u.ok \/ (u.quote /\ c # Quote)
    THEN [u EXCEPT !.ok = FALSE]
    ELSE [ok    |-> TRUE,
          quote |-> c = Quote /\ ~u.quote,
          text  |-> IF u.quote \/ c # Quote THEN Append(u.text, c) ELSE u.text]

\* Mutant of Unescape: the outer quotes go, the pairs inside stay.
UnescapeOuter(s) == [ok |-> TRUE, text |-> IF IsEscaped(s) THEN SubSeq(s, 2, Len(s) - 1) ELSE s]

Unescaping(inner) ==
    LET upTo[i \in 0 .. Len(inner)] ==
            IF i = 0 THEN [ok |-> TRUE, quote |-> FALSE, text |-> <<>>]
                     ELSE Undouble(upTo[i - 1], inner[i])
    IN upTo

Unescape(s) ==
    LET inner == SubSeq(s, 2, Len(s) - 1)
        all   == Unescaping(inner)[Len(inner)]
    IN IF IsEscaped(s) THEN [ok |-> all.ok, text |-> all.text]
                       ELSE [ok |-> TRUE, text |-> s]

-----------------------------------------------------------------------------
(***************************************************************************)
(* CSVLine.                                                                *)
(***************************************************************************)
JoinFields(fields) ==
    FlattenSeq([i \in DOMAIN fields |->
                   IF i < Len(fields) THEN Append(fields[i], Separator) ELSE fields[i]])

GetLine(values) == JoinFields([i \in DOMAIN values |-> Escape(values[i])])

\* addStringAsCsvFieldToLine; n is the number of fields of the line.
AddField(p, n) == IF Len(p.fields) = n THEN [p EXCEPT !.ok = FALSE]
                                       ELSE [p EXCEPT !.fields = Append(@, p.buffer)]

\* The body of the loop of parseLine, for the character in column i.
ParseChar(p, line, i, n) ==
    LET c     == line[i]
        ahead == IF i < Len(line) THEN line[i + 1] ELSE Separator
        next  == AddField(p, n)
        run   == p.ok /\ ~p.skip
    IN CASE ~p.ok -> p
         [] p.ok /\ p.skip -> [p EXCEPT !.skip = FALSE]
         [] run /\ c = Quote /\ i = 1 ->
                [p EXCEPT !.buffer = <<Quote>>, !.escaped = TRUE]
         [] run /\ c = Quote /\ i # 1 /\ ahead = Quote /\ p.escaped ->
                [p EXCEPT !.buffer = @ \o <<Quote, Quote>>, !.skip = TRUE]
         [] run /\ c = Quote /\ i # 1 /\ ahead = Separator ->
                [p EXCEPT !.buffer = Append(@, Quote), !.escaped = FALSE]
         [] run /\ c = Separator /\ ~p.escaped ->
                [next EXCEPT !.buffer  = IF ahead = Quote THEN <<Quote>> ELSE <<>>,
                             !.escaped = ahead = Quote,
                             !.skip    = ahead = Quote]
         [] OTHER -> [p EXCEPT !.buffer = Append(@, c)]

Parsing(line, n) ==
    LET upTo[i \in 0 .. Len(line)] ==
            IF i = 0 THEN [ok |-> TRUE, escaped |-> FALSE, skip |-> FALSE,
                           buffer |-> <<>>, fields |-> <<>>]
                     ELSE ParseChar(upTo[i - 1], line, i, n)
    IN upTo

\* Mutant of ParseLine: a line with too few fields is taken as it is.
ParseShortLine(line, n) ==
    LET end == Parsing(line, n)[Len(line)]
    IN [ok     |-> end.ok /\ ~end.escaped /\ Len(end.fields) < n,
        fields |-> Append(end.fields, end.buffer)]

\* The n fields of a line, still escaped.
ParseLine(line, n) ==
    LET end == Parsing(line, n)[Len(line)]
    IN [ok     |-> end.ok /\ ~end.escaped /\ Len(end.fields) = n - 1,
        fields |-> Append(end.fields, end.buffer)]

-----------------------------------------------------------------------------
(***************************************************************************)
(* readLine of csvimport.cc.  At the end of the file the look-ahead keeps  *)
(* the last character; a line the file ends in without a line end is not   *)
(* delivered.                                                              *)
(***************************************************************************)
ReadChar(r, file, i) ==
    LET c     == file[i]
        ahead == file[IF i < Len(file) THEN i + 1 ELSE i]
        run   == r.next = 0 /\ ~r.skip
        put   == [r EXCEPT !.line = Append(@, c)]
    IN CASE r.next # 0 -> r
         [] r.next = 0 /\ r.skip -> [put EXCEPT !.skip = FALSE]
         [] run /\ c = Newline /\ ~r.escaped -> [r EXCEPT !.next = i + 1]
         [] run /\ c = Quote /\ r.start -> [put EXCEPT !.start = FALSE, !.escaped = TRUE]
         [] run /\ c = Quote /\ ~r.start /\ ahead = Quote /\ r.escaped -> [put EXCEPT !.skip = TRUE]
         [] run /\ c = Quote /\ ~r.start /\ ahead \in {Separator, Newline} ->
                [put EXCEPT !.escaped = FALSE]
         [] run /\ c = Separator /\ ~r.escaped ->
                [put EXCEPT !.escaped = ahead = Quote, !.skip = ahead = Quote]
         [] OTHER -> [put EXCEPT !.start = FALSE]

\* From position pos; next is where the following line begins, or 0 at the end
\* of the file.
Reading(file, pos) ==
    LET upTo[i \in (pos - 1) .. Len(file)] ==
            IF i = pos - 1 THEN [line |-> <<>>, next |-> 0, escaped |-> FALSE,
                                 start |-> TRUE, skip |-> FALSE]
                           ELSE ReadChar(upTo[i - 1], file, i)
    IN upTo

ReadLine(file, pos) ==
    LET end == Reading(file, pos)[Len(file)]
    IN [ok |-> ~(end.next = 0 /\ end.escaped), line |-> end.line, next |-> end.next]
=============================================================================
