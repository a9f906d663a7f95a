-------------------------- MODULE ConvertersProofs --------------------------
(***************************************************************************)
(* The converters, whatever the files hold: the types, that csv2yapet reads *)
(* back what yapet2csv and other programs write, and that what others wrote *)
(* is kept.                                                                 *)
(*                                                                         *)
(* The loops of Csv are recursive functions.  Recursion says that such a    *)
(* function exists, Upwards is the induction on the number of steps, both   *)
(* from the well-foundedness of the numbers; one lemma per loop says what   *)
(* its function is.                                                         *)
(***************************************************************************)
EXTENDS Converters, SequenceTheorems, WellFoundedInduction, TLAPS

-----------------------------------------------------------------------------
(***************************************************************************)
(* Induction and recursion up to a number.                                  *)
(***************************************************************************)
Below == {ss \in Nat \X Nat : ss[1] < ss[2]}

LEMMA BelowWellFounded == IsWellFoundedOn(Below, Nat)
  BY NatLessThanWellFounded DEF OpToRel, Below, IsWellFoundedOn

\* What holds of b and goes from each number to the next holds up to n.
LEMMA Upwards ==
    ASSUME NEW b \in Nat, NEW n \in Nat, NEW T, b \in T,
           \A i \in b .. n - 1 : i \in T => i + 1 \in T
    PROVE  \A i \in b .. n : i \in T
  <1> DEFINE Bad == {i \in b .. n : i \notin T}
  <1> SUFFICES ASSUME Bad # {} PROVE FALSE
    OBVIOUS
  <1>1. Bad \in SUBSET Nat
    OBVIOUS
  <1>2. PICK x \in Bad : \A y \in Bad : <<y, x>> \notin Below
    BY <1>1, BelowWellFounded, WFMin
  <1>3. x - 1 \in b .. n - 1 /\ x \in Nat /\ x - 1 \in Nat /\ x \in b .. n
    BY DEF Bad
  <1>4. x - 1 \in T
    <2> SUFFICES ASSUME x - 1 \notin T PROVE FALSE
      OBVIOUS
    <2>1. x - 1 \in Bad
      BY <1>3 DEF Bad
    <2>2. <<x - 1, x>> \in Below
      BY <1>3 DEF Below
    <2> QED BY <2>1, <2>2, <1>2
  <1>5. (x - 1) + 1 \in T
    BY <1>3, <1>4
  <1>6. (x - 1) + 1 = x
    BY <1>3
  <1> QED BY <1>5, <1>6 DEF Bad

\* There is a function with a given first value and a given step.
Steps(b, n, S) == [b + 1 .. n -> [S -> S]]

Recurs(f, b, n, S, init, step) ==
    f \in [b .. n -> S] /\ f[b] = init /\ \A i \in b + 1 .. n : f[i] = step[i][f[i - 1]]

LEMMA Recursion ==
    ASSUME NEW b \in Nat, NEW n \in Nat, b <= n, NEW S, NEW init \in S,
           NEW step \in Steps(b, n, S)
    PROVE  \E f : Recurs(f, b, n, S, init, step)
  <1> USE DEF Steps
  <1> DEFINE Good(f, k) == f \in [b .. k -> S] /\ f[b] = init
                           /\ \A i \in b + 1 .. k : f[i] = step[i][f[i - 1]]
             T == {k \in b .. n : \E f : Good(f, k)}
  <1>1. b \in T
    <2>1. Good([i \in b .. b |-> init], b)
      OBVIOUS
    <2>2. b \in b .. n
      OBVIOUS
    <2> QED BY <2>1, <2>2
  <1>2. ASSUME NEW k \in b .. n - 1, k \in T PROVE k + 1 \in T
    <2>1. PICK f : Good(f, k)
      BY <1>2
    <2> DEFINE g == [i \in b .. k + 1 |-> IF i = k + 1 THEN step[k + 1][f[k]] ELSE f[i]]
    <2>2. k \in b .. k /\ k + 1 \in b + 1 .. n /\ k + 1 \in b .. n
      OBVIOUS
    <2>3. f[k] \in S
      BY <2>1, <2>2
    <2>4. step[k + 1][f[k]] \in S
      BY <2>2, <2>3
    <2>5. g \in [b .. k + 1 -> S]
      BY <2>1, <2>4
    <2>6. g[b] = init
      BY <2>1
    <2>7. ASSUME NEW i \in b + 1 .. k + 1 PROVE g[i] = step[i][g[i - 1]]
      <3>1. CASE i = k + 1
        <4>1. g[k + 1] = step[k + 1][f[k]]
          OBVIOUS
        <4>2. g[k] = f[k]
          OBVIOUS
        <4>3. i - 1 = k
          BY <3>1
        <4> HIDE DEF g
        <4> QED BY <3>1, <4>1, <4>2, <4>3
      <3>2. CASE i # k + 1
        <4>1. i \in b + 1 .. k /\ i - 1 \in b .. k + 1 /\ i \in b .. k + 1 /\ i - 1 # k + 1
          BY <3>2
        <4>2. g[i] = f[i] /\ g[i - 1] = f[i - 1]
          BY <4>1, <3>2
        <4>3. f[i] = step[i][f[i - 1]]
          BY <4>1, <2>1
        <4> HIDE DEF g
        <4> QED BY <4>2, <4>3
      <3> QED BY <3>1, <3>2
    <2> HIDE DEF g
    <2>8. Good(g, k + 1)
      BY <2>5, <2>6, <2>7
    <2> QED BY <2>8, <2>2
  <1> HIDE DEF Good
  <1>3. \A k \in b .. n : k \in T
    <2> HIDE DEF T
    <2> QED BY <1>1, <1>2, Upwards
  <1>4. n \in T
    BY <1>3
  <1> QED BY <1>4 DEF Good, Recurs

-----------------------------------------------------------------------------
(***************************************************************************)
(* The loop of readLine.                                                    *)
(***************************************************************************)
ReadState == [line : Text, next : Nat, escaped : BOOLEAN, start : BOOLEAN, skip : BOOLEAN]

ReadStart == [line |-> <<>>, next |-> 0, escaped |-> FALSE, start |-> TRUE, skip |-> FALSE]

LEMMA CharsDiffer == Separator # Quote /\ Separator # Newline /\ Quote # Newline
  BY DEF Separator, Quote, Newline

\* What follows the character in column i of a text.
Ahead(file, i) == file[IF i < Len(file) THEN i + 1 ELSE i]

LEMMA ReadPut ==
    ASSUME NEW r \in ReadState, NEW c \in Chars
    PROVE  [r EXCEPT !.line = Append(@, c)] \in ReadState
  BY DEF ReadState, Text

\* One character: what becomes of the line and when it ends.
LEMMA ReadCharTyped ==
    ASSUME NEW file \in Text, NEW i \in 1 .. Len(file), NEW r \in ReadState
    PROVE  ReadChar(r, file, i) \in ReadState
  <1>1. file[i] \in Chars
    BY DEF Text
  <1>2. i + 1 \in Nat /\ Len(file) \in Nat
    BY DEF Text
  <1> DEFINE put == [r EXCEPT !.line = Append(@, file[i])]
  <1>3. put \in ReadState
    BY <1>1, ReadPut
  <1> HIDE DEF put
  <1> QED BY <1>1, <1>2, <1>3 DEF ReadChar, ReadState, put

LEMMA ReadOver ==
    ASSUME NEW file, NEW i, NEW r, r.next # 0
    PROVE  ReadChar(r, file, i) = r
  BY DEF ReadChar

LEMMA ReadSkipped ==
    ASSUME NEW file \in Text, NEW i \in 1 .. Len(file), NEW r \in ReadState,
           r.next = 0, r.skip
    PROVE  LET n == ReadChar(r, file, i)
           IN  /\ n.next = 0 /\ n.line = Append(r.line, file[i])
               /\ n.escaped = r.escaped /\ n.start = r.start /\ ~n.skip
  BY DEF ReadChar, ReadState

LEMMA ReadEnd ==
    ASSUME NEW file \in Text, NEW i \in 1 .. Len(file), NEW r \in ReadState,
           r.next = 0, ~r.skip, ~r.escaped, file[i] = Newline
    PROVE  LET n == ReadChar(r, file, i)
           IN  n.next = i + 1 /\ n.line = r.line /\ ~n.escaped
  <1>1. ReadChar(r, file, i) = [r EXCEPT !.next = i + 1]
    BY SMT, CharsDiffer DEF ReadChar, ReadState
  <1> QED BY <1>1 DEF ReadState

LEMMA ReadOpening ==
    ASSUME NEW file \in Text, NEW i \in 1 .. Len(file), NEW r \in ReadState,
           r.next = 0, ~r.skip, file[i] = Quote, r.start
    PROVE  LET n == ReadChar(r, file, i)
           IN  /\ n.next = 0 /\ n.line = Append(r.line, file[i])
               /\ n.escaped /\ ~n.start /\ ~n.skip
  BY CharsDiffer DEF ReadChar, ReadState

LEMMA ReadPair ==
    ASSUME NEW file \in Text, NEW i \in 1 .. Len(file), NEW r \in ReadState,
           r.next = 0, ~r.skip, file[i] = Quote, ~r.start, r.escaped, Ahead(file, i) = Quote
    PROVE  LET n == ReadChar(r, file, i)
           IN  /\ n.next = 0 /\ n.line = Append(r.line, file[i])
               /\ n.escaped /\ ~n.start /\ n.skip
  BY CharsDiffer DEF ReadChar, ReadState, Ahead

LEMMA ReadClosing ==
    ASSUME NEW file \in Text, NEW i \in 1 .. Len(file), NEW r \in ReadState,
           r.next = 0, ~r.skip, file[i] = Quote, ~r.start,
           Ahead(file, i) \in {Separator, Newline}
    PROVE  LET n == ReadChar(r, file, i)
           IN  /\ n.next = 0 /\ n.line = Append(r.line, file[i])
               /\ ~n.escaped /\ ~n.start /\ ~n.skip
  BY CharsDiffer DEF ReadChar, ReadState, Ahead

LEMMA ReadSeparator ==
    ASSUME NEW file \in Text, NEW i \in 1 .. Len(file), NEW r \in ReadState,
           r.next = 0, ~r.skip, file[i] = Separator, ~r.escaped
    PROVE  LET n == ReadChar(r, file, i)
           IN  /\ n.next = 0 /\ n.line = Append(r.line, file[i])
               /\ n.escaped = (Ahead(file, i) = Quote) /\ n.start = r.start
               /\ n.skip = (Ahead(file, i) = Quote)
  BY CharsDiffer DEF ReadChar, ReadState, Ahead

\* A quote in a field without quotes around it, and what is no quote.
LEMMA ReadOther ==
    ASSUME NEW file \in Text, NEW i \in 1 .. Len(file), NEW r \in ReadState,
           r.next = 0, ~r.skip,
           file[i] = Quote => ~r.start /\ ~r.escaped,
           file[i] \in {Separator, Newline} => r.escaped
    PROVE  LET n == ReadChar(r, file, i)
           IN  /\ n.next = 0 /\ n.line = Append(r.line, file[i])
               /\ n.escaped = r.escaped /\ ~n.start /\ ~n.skip
  BY CharsDiffer DEF ReadChar, ReadState

\* Whatever is read, if not the end of a line.
LEMMA ReadOn ==
    ASSUME NEW file \in Text, NEW i \in 1 .. Len(file), NEW r \in ReadState,
           r.next = 0, file[i] = Newline => r.escaped \/ r.skip
    PROVE  LET n == ReadChar(r, file, i)
           IN  n.next = 0 /\ n.line = Append(r.line, file[i])
  BY CharsDiffer DEF ReadChar, ReadState

-----------------------------------------------------------------------------
LEMMA ReadingIs ==
    ASSUME NEW file \in Text, NEW p \in 1 .. Len(file) + 1
    PROVE  /\ Reading(file, p) \in [p - 1 .. Len(file) -> ReadState]
           /\ Reading(file, p)[p - 1] = ReadStart
           /\ \A i \in p .. Len(file) :
                 Reading(file, p)[i] = ReadChar(Reading(file, p)[i - 1], file, i)
  <1> DEFINE b == p - 1
             n == Len(file)
             R == Reading(file, p)
             step == [i \in b + 1 .. n |-> [r \in ReadState |-> ReadChar(r, file, i)]]
  <1>1. b \in Nat /\ n \in Nat /\ b <= n /\ b + 1 = p
    BY DEF Text
  <1>2. ReadStart \in ReadState
    BY DEF ReadStart, ReadState, Text
  <1>3. step \in Steps(b, n, ReadState)
    BY <1>1, ReadCharTyped DEF Steps
  <1>4. \A i \in b + 1 .. n : \A r \in ReadState : step[i][r] = ReadChar(r, file, i)
    OBVIOUS
  <1>5. R = CHOOSE g : g = [i \in b .. n |->
                              IF i = b THEN ReadStart ELSE ReadChar(g[i - 1], file, i)]
    BY DEF Reading, ReadStart
  <1> HIDE DEF b, n, step, R
  <1>6. PICK f : Recurs(f, b, n, ReadState, ReadStart, step)
    BY <1>1, <1>2, <1>3, Recursion
  <1>7. \A i \in b + 1 .. n : f[i] = ReadChar(f[i - 1], file, i)
    <2> SUFFICES ASSUME NEW i \in b + 1 .. n PROVE f[i] = ReadChar(f[i - 1], file, i)
      OBVIOUS
    <2>1. i - 1 \in b .. n
      BY <1>1
    <2>2. f[i - 1] \in ReadState
      BY <2>1, <1>6 DEF Recurs
    <2> QED BY <2>2, <1>4, <1>6 DEF Recurs
  <1>8. f = [i \in b .. n |-> IF i = b THEN ReadStart ELSE ReadChar(f[i - 1], file, i)]
    BY <1>1, <1>6, <1>7 DEF Recurs
  <1>9. R = [i \in b .. n |-> IF i = b THEN ReadStart ELSE ReadChar(R[i - 1], file, i)]
    BY <1>5, <1>8
  <1>10. R[b] = ReadStart /\ \A i \in b + 1 .. n : R[i] = ReadChar(R[i - 1], file, i)
    BY <1>1, <1>9
  <1>11. \A i \in b .. n : R[i] \in ReadState
    <2> DEFINE T == {i \in b .. n : R[i] \in ReadState}
    <2>1. b \in T
      BY <1>1, <1>2, <1>10
    <2>2. \A i \in b .. n - 1 : i \in T => i + 1 \in T
      <3> SUFFICES ASSUME NEW i \in b .. n - 1, i \in T PROVE i + 1 \in T
        OBVIOUS
      <3>1. i + 1 \in b + 1 .. n /\ (i + 1) - 1 = i /\ i + 1 \in b .. n /\ i + 1 \in 1 .. Len(file)
        BY <1>1 DEF n
      <3>2. R[i + 1] = ReadChar(R[i], file, i + 1)
        BY <3>1, <1>10
      <3> QED BY <3>1, <3>2, ReadCharTyped
    <2> HIDE DEF T
    <2>3. \A i \in b .. n : i \in T
      BY <1>1, <2>1, <2>2, Upwards
    <2> QED BY <2>3 DEF T
  <1>12. R \in [b .. n -> ReadState]
    BY <1>9, <1>11
  <1> QED BY <1>1, <1>10, <1>12 DEF R, b, n

\* The line that is read so far begins at p; it has ended, or goes on up to i.
LineTo(r, file, p, i) ==
    \/ r.next = 0 /\ r.line = SubSeq(file, p, i)
    \/ r.next \in p + 1 .. i + 1 /\ r.line = SubSeq(file, p, r.next - 2)

LEMMA SubSeqGrows ==
    ASSUME NEW S, NEW s \in Seq(S), NEW a \in 1 .. Len(s), NEW i \in a .. Len(s)
    PROVE  SubSeq(s, a, i) = Append(SubSeq(s, a, i - 1), s[i])
  OBVIOUS

LEMMA LineToNext ==
    ASSUME NEW file \in Text, NEW p \in 1 .. Len(file) + 1, NEW i \in p .. Len(file),
           NEW r \in ReadState, LineTo(r, file, p, i - 1)
    PROVE  LineTo(ReadChar(r, file, i), file, p, i)
  <1>1. CASE r.next # 0
    <2>1. ReadChar(r, file, i) = r
      BY <1>1, ReadOver
    <2>2. r.next \in p + 1 .. i - 1 + 1 /\ r.line = SubSeq(file, p, r.next - 2)
      BY <1>1 DEF LineTo
    <2>3. r.next \in p + 1 .. i + 1
      BY <2>2
    <2> QED BY <2>1, <2>2, <2>3 DEF LineTo
  <1>2. CASE r.next = 0 /\ file[i] = Newline /\ ~r.escaped /\ ~r.skip
    <2>1. ReadChar(r, file, i).next = i + 1 /\ ReadChar(r, file, i).line = r.line
      BY <1>2, ReadEnd
    <2>2. r.line = SubSeq(file, p, i - 1)
      BY <1>2 DEF LineTo
    <2> QED BY <2>1, <2>2 DEF LineTo
  <1>3. CASE r.next = 0 /\ (file[i] = Newline => r.escaped \/ r.skip)
    <2>1. ReadChar(r, file, i).next = 0 /\ ReadChar(r, file, i).line = Append(r.line, file[i])
      BY <1>3, ReadOn
    <2>2. r.line = SubSeq(file, p, i - 1)
      BY <1>3 DEF LineTo
    <2>3. SubSeq(file, p, i) = Append(SubSeq(file, p, i - 1), file[i])
      BY SubSeqGrows DEF Text
    <2> QED BY <2>1, <2>2, <2>3 DEF LineTo
  <1> QED BY <1>1, <1>2, <1>3

LEMMA ReadingLine ==
    ASSUME NEW file \in Text, NEW p \in 1 .. Len(file) + 1
    PROVE  \A i \in p - 1 .. Len(file) : LineTo(Reading(file, p)[i], file, p, i)
  <1> DEFINE b == p - 1
             n == Len(file)
             R == Reading(file, p)
             T == {i \in b .. n : LineTo(R[i], file, p, i)}
  <1>1. b \in Nat /\ n \in Nat /\ b <= n /\ b + 1 = p
    BY DEF Text
  <1>2. R \in [b .. n -> ReadState] /\ R[b] = ReadStart
        /\ \A i \in p .. n : R[i] = ReadChar(R[i - 1], file, i)
    BY ReadingIs
  <1> HIDE DEF R
  <1>3. b \in T
    <2>1. SubSeq(file, p, b) = <<>>
      BY <1>1 DEF Text
    <2>2. R[b].next = 0 /\ R[b].line = <<>>
      BY <1>2 DEF ReadStart
    <2> HIDE DEF b
    <2>3. LineTo(R[b], file, p, b)
      BY <2>1, <2>2 DEF LineTo
    <2> QED BY <1>1, <2>3
  <1>4. \A i \in b .. n - 1 : i \in T => i + 1 \in T
    <2> SUFFICES ASSUME NEW i \in b .. n - 1, i \in T PROVE i + 1 \in T
      OBVIOUS
    <2> DEFINE j == i + 1
    <2>1. j \in p .. n /\ j - 1 = i /\ j \in b .. n /\ i \in b .. n
      BY <1>1
    <2>2. R[j] = ReadChar(R[i], file, j) /\ R[i] \in ReadState
      BY <2>1, <1>2
    <2>3. LineTo(R[i], file, p, i)
      OBVIOUS
    <2> HIDE DEF j, n, b
    <2>4. LineTo(ReadChar(R[i], file, j), file, p, j)
      BY <2>1, <2>2, <2>3, LineToNext DEF n
    <2> QED BY <2>1, <2>2, <2>4 DEF j
  <1> HIDE DEF T
  <1>5. \A i \in b .. n : i \in T
    BY <1>1, <1>3, <1>4, Upwards
  <1> QED BY <1>5 DEF T, R

\* The end of a line is found behind its beginning and in the file.
LEMMA ReadLineTyped ==
    ASSUME NEW file \in Text, NEW p \in 1 .. Len(file) + 1
    PROVE  LET read == ReadLine(file, p)
           IN  /\ read.line \in Text
               /\ read.next = 0 \/ read.next \in p + 1 .. Len(file) + 1
  <1> DEFINE R == Reading(file, p)
             e == R[Len(file)]
  <1>1. Len(file) \in p - 1 .. Len(file)
    BY DEF Text
  <1>2. e \in ReadState
    BY <1>1, ReadingIs
  <1>3. LineTo(e, file, p, Len(file))
    BY <1>1, ReadingLine
  <1> HIDE DEF e
  <1>4. ReadLine(file, p).line = e.line /\ ReadLine(file, p).next = e.next
    BY DEF ReadLine, e
  <1> QED BY <1>2, <1>3, <1>4 DEF LineTo, ReadState

-----------------------------------------------------------------------------
(***************************************************************************)
(* The loop of parseLine.                                                   *)
(***************************************************************************)
ParseState == [ok : BOOLEAN, escaped : BOOLEAN, skip : BOOLEAN, buffer : Text, fields : Seq(Text)]

ParseStart == [ok |-> TRUE, escaped |-> FALSE, skip |-> FALSE, buffer |-> <<>>, fields |-> <<>>]

\* What parseLine sees behind the character in column i.
Follows(line, i) == IF i < Len(line) THEN line[i + 1] ELSE Separator

LEMMA SpecialChars == Separator \in Chars /\ Quote \in Chars /\ Newline \in Chars
  BY DEF Chars

LEMMA AddFieldTyped ==
    ASSUME NEW s \in ParseState, NEW n \in Nat
    PROVE  AddField(s, n) \in ParseState
  <1>1. s.fields \in Seq(Text) /\ s.buffer \in Text
    BY DEF ParseState
  <1>2. Append(s.fields, s.buffer) \in Seq(Text)
    BY <1>1
  <1> QED BY <1>2 DEF AddField, ParseState

LEMMA ParseCharTyped ==
    ASSUME NEW line \in Text, NEW i \in 1 .. Len(line), NEW n \in Nat, NEW s \in ParseState
    PROVE  ParseChar(s, line, i, n) \in ParseState
  <1>1. line[i] \in Chars
    BY DEF Text
  <1> DEFINE next == AddField(s, n)
  <1>2. next \in ParseState
    BY AddFieldTyped
  <1>3. /\ <<>> \in Text /\ <<Quote>> \in Text
        /\ s.buffer \o <<Quote, Quote>> \in Text
        /\ Append(s.buffer, Quote) \in Text /\ Append(s.buffer, line[i]) \in Text
    <2>1. s.buffer \in Seq(Chars)
      BY DEF ParseState, Text
    <2>2. <<Quote, Quote>> \in Seq(Chars) /\ <<Quote>> \in Seq(Chars)
      BY SpecialChars
    <2> QED BY <1>1, <2>1, <2>2, SpecialChars DEF Text
  <1> HIDE DEF next
  <1> QED BY <1>2, <1>3 DEF ParseChar, ParseState, next

LEMMA ParsingIs ==
    ASSUME NEW line \in Text, NEW n \in Nat
    PROVE  /\ Parsing(line, n) \in [0 .. Len(line) -> ParseState]
           /\ Parsing(line, n)[0] = ParseStart
           /\ \A i \in 1 .. Len(line) :
                 Parsing(line, n)[i] = ParseChar(Parsing(line, n)[i - 1], line, i, n)
  <1> DEFINE e == Len(line)
             P == Parsing(line, n)
             step == [i \in 0 + 1 .. e |-> [s \in ParseState |-> ParseChar(s, line, i, n)]]
  <1>1. e \in Nat /\ 0 \in Nat /\ 0 <= e /\ 0 + 1 = 1
    BY DEF Text
  <1>2. ParseStart \in ParseState
    BY DEF ParseStart, ParseState, Text
  <1>3. step \in Steps(0, e, ParseState)
    BY <1>1, ParseCharTyped DEF Steps
  <1>4. \A i \in 1 .. e : \A s \in ParseState : step[i][s] = ParseChar(s, line, i, n)
    BY <1>1
  <1>5. P = CHOOSE g : g = [i \in 0 .. e |->
                              IF i = 0 THEN ParseStart ELSE ParseChar(g[i - 1], line, i, n)]
    BY DEF Parsing, ParseStart
  <1> HIDE DEF e, step, P
  <1>6. PICK f : Recurs(f, 0, e, ParseState, ParseStart, step)
    BY <1>1, <1>2, <1>3, Recursion
  <1>7. \A i \in 1 .. e : f[i] = ParseChar(f[i - 1], line, i, n)
    <2> SUFFICES ASSUME NEW i \in 1 .. e PROVE f[i] = ParseChar(f[i - 1], line, i, n)
      OBVIOUS
    <2>1. i - 1 \in 0 .. e /\ i \in 0 + 1 .. e
      BY <1>1
    <2>2. f[i - 1] \in ParseState
      BY <2>1, <1>6 DEF Recurs
    <2>3. f[i] = step[i][f[i - 1]]
      BY <2>1, <1>6 DEF Recurs
    <2> QED BY <2>2, <2>3, <1>4
  <1>8. f = [i \in 0 .. e |-> IF i = 0 THEN ParseStart ELSE ParseChar(f[i - 1], line, i, n)]
    BY <1>1, <1>6, <1>7 DEF Recurs
  <1>9. P = [i \in 0 .. e |-> IF i = 0 THEN ParseStart ELSE ParseChar(P[i - 1], line, i, n)]
    BY <1>5, <1>8
  <1>10. P[0] = ParseStart /\ \A i \in 1 .. e : P[i] = ParseChar(P[i - 1], line, i, n)
    BY <1>1, <1>9
  <1>11. \A i \in 0 .. e : P[i] \in ParseState
    <2> DEFINE T == {i \in 0 .. e : P[i] \in ParseState}
    <2>1. 0 \in T
      BY <1>1, <1>2, <1>10
    <2>2. \A i \in 0 .. e - 1 : i \in T => i + 1 \in T
      <3> SUFFICES ASSUME NEW i \in 0 .. e - 1, i \in T PROVE i + 1 \in T
        OBVIOUS
      <3>1. i + 1 \in 1 .. e /\ (i + 1) - 1 = i /\ i + 1 \in 0 .. e /\ i + 1 \in 1 .. Len(line)
        BY <1>1 DEF e
      <3>2. P[i + 1] = ParseChar(P[i], line, i + 1, n)
        BY <3>1, <1>10
      <3> QED BY <3>1, <3>2, ParseCharTyped
    <2> HIDE DEF T
    <2>3. \A i \in 0 .. e : i \in T
      BY <1>1, <2>1, <2>2, Upwards
    <2> QED BY <2>3 DEF T
  <1>12. P \in [0 .. e -> ParseState]
    BY <1>9, <1>11
  <1> QED BY <1>1, <1>10, <1>12 DEF P, e

\* A line that parses has n fields.
LEMMA ParseLineTyped ==
    ASSUME NEW line \in Text, NEW n \in Nat
    PROVE  /\ ParseLine(line, n).fields \in Seq(Text)
           /\ ParseLine(line, n).ok => Len(ParseLine(line, n).fields) = n
  <1> DEFINE last == Parsing(line, n)[Len(line)]
  <1>1. last \in ParseState
    <2>1. Len(line) \in 0 .. Len(line)
      BY DEF Text
    <2> QED BY <2>1, ParsingIs
  <1>2. last.fields \in Seq(Text) /\ last.buffer \in Text
    BY <1>1 DEF ParseState
  <1> HIDE DEF last
  <1>3. ParseLine(line, n).fields = Append(last.fields, last.buffer)
        /\ (ParseLine(line, n).ok => Len(last.fields) = n - 1)
    BY DEF ParseLine, last
  <1>4. Append(last.fields, last.buffer) \in Seq(Text)
        /\ Len(Append(last.fields, last.buffer)) = Len(last.fields) + 1
    BY <1>2
  <1> QED BY <1>2, <1>3, <1>4

-----------------------------------------------------------------------------
(***************************************************************************)
(* Sequences put one behind the other.                                      *)
(***************************************************************************)
\* The first i of them.
Concat(ss) ==
    LET upTo[i \in 0 .. Len(ss)] == IF i = 0 THEN <<>> ELSE upTo[i - 1] \o ss[i]
    IN upTo

\* s is in t, behind the first p.
Holds(t, p, s) == p + Len(s) <= Len(t) /\ \A j \in 1 .. Len(s) : t[p + j] = s[j]

\* Provers reason better about a name of its own.
Joined(s, t) == s \o t

LEMMA JoinTyped ==
    ASSUME NEW S, NEW s \in Seq(S), NEW t \in Seq(S)
    PROVE  Joined(s, t) \in Seq(S) /\ Len(Joined(s, t)) = Len(s) + Len(t)
  BY DEF Joined

LEMMA JoinFirst ==
    ASSUME NEW S, NEW s \in Seq(S), NEW t \in Seq(S), NEW j \in 1 .. Len(s)
    PROVE  Joined(s, t)[j] = s[j]
  BY DEF Joined

LEMMA JoinSecond ==
    ASSUME NEW S, NEW s \in Seq(S), NEW t \in Seq(S), NEW j \in 1 .. Len(t)
    PROVE  Joined(s, t)[Len(s) + j] = t[j]
  BY DEF Joined

LEMMA JoinBegins ==
    ASSUME NEW S, NEW s \in Seq(S), NEW t \in Seq(S)
    PROVE  Holds(Joined(s, t), 0, s)
  <1>1. Len(Joined(s, t)) = Len(s) + Len(t)
    BY JoinTyped
  <1>2. ASSUME NEW j \in 1 .. Len(s) PROVE Joined(s, t)[0 + j] = s[j]
    <2>1. 0 + j = j
      OBVIOUS
    <2> QED BY <2>1, JoinFirst
  <1>3. 0 + Len(s) <= Len(Joined(s, t))
    BY <1>1
  <1> QED BY <1>2, <1>3 DEF Holds

LEMMA BeginsOn ==
    ASSUME NEW S, NEW s \in Seq(S), NEW t \in Seq(S), NEW u \in Seq(S),
           Holds(u, 0, t), Holds(t, 0, s)
    PROVE  Holds(u, 0, s)
  <1>1. 0 + Len(s) <= Len(u) /\ Len(s) <= Len(t) /\ Len(s) \in Nat
    BY DEF Holds
  <1>2. ASSUME NEW j \in 1 .. Len(s) PROVE u[0 + j] = s[j]
    <2>1. j \in 1 .. Len(t) /\ 0 + j = j
      BY <1>1
    <2>2. t[j] = s[j] /\ u[j] = t[j]
      BY <2>1 DEF Holds
    <2> QED BY <2>1, <2>2
  <1> QED BY <1>1, <1>2 DEF Holds

LEMMA JoinEmpty ==
    ASSUME NEW S, NEW t \in Seq(S)
    PROVE  Joined(<<>>, t) = t
  BY DEF Joined

LEMMA ConcatIs ==
    ASSUME NEW S, NEW ss \in Seq(Seq(S))
    PROVE  /\ Concat(ss) \in [0 .. Len(ss) -> Seq(S)]
           /\ Concat(ss)[0] = <<>>
           /\ \A i \in 1 .. Len(ss) : Concat(ss)[i] = Joined(Concat(ss)[i - 1], ss[i])
  <1> DEFINE n == Len(ss)
             C == Concat(ss)
             step == [i \in 0 + 1 .. n |-> [t \in Seq(S) |-> Joined(t, ss[i])]]
  <1>1. n \in Nat /\ 0 \in Nat /\ 0 <= n /\ 0 + 1 = 1 /\ \A i \in 1 .. n : ss[i] \in Seq(S)
    OBVIOUS
  <1>2. <<>> \in Seq(S)
    OBVIOUS
  <1>3. step \in Steps(0, n, Seq(S))
    BY <1>1, JoinTyped DEF Steps
  <1>4. \A i \in 1 .. n : \A t \in Seq(S) : step[i][t] = Joined(t, ss[i])
    BY <1>1
  <1>5. C = CHOOSE g : g = [i \in 0 .. n |-> IF i = 0 THEN <<>> ELSE Joined(g[i - 1], ss[i])]
    BY DEF Concat, Joined
  <1> HIDE DEF n, step, C
  <1>6. PICK f : Recurs(f, 0, n, Seq(S), <<>>, step)
    BY <1>1, <1>2, <1>3, Recursion
  <1>7. \A i \in 1 .. n : f[i] = Joined(f[i - 1], ss[i])
    <2> SUFFICES ASSUME NEW i \in 1 .. n PROVE f[i] = Joined(f[i - 1], ss[i])
      OBVIOUS
    <2>1. i - 1 \in 0 .. n /\ i \in 0 + 1 .. n
      BY <1>1
    <2>2. f[i - 1] \in Seq(S)
      BY <2>1, <1>6 DEF Recurs
    <2>3. f[i] = step[i][f[i - 1]]
      BY <2>1, <1>6 DEF Recurs
    <2> QED BY <2>2, <2>3, <1>4
  <1>8. f = [i \in 0 .. n |-> IF i = 0 THEN <<>> ELSE Joined(f[i - 1], ss[i])]
    BY <1>1, <1>6, <1>7 DEF Recurs
  <1>9. C = [i \in 0 .. n |-> IF i = 0 THEN <<>> ELSE Joined(C[i - 1], ss[i])]
    BY <1>5, <1>8
  <1>10. C[0] = <<>> /\ \A i \in 1 .. n : C[i] = Joined(C[i - 1], ss[i])
    BY <1>1, <1>9
  <1>11. \A i \in 0 .. n : C[i] \in Seq(S)
    <2> DEFINE T == {i \in 0 .. n : C[i] \in Seq(S)}
    <2>1. 0 \in T
      <3>1. C[0] \in Seq(S)
        BY <1>2, <1>10
      <3> QED BY <3>1, <1>1
    <2>2. \A i \in 0 .. n - 1 : i \in T => i + 1 \in T
      <3> SUFFICES ASSUME NEW i \in 0 .. n - 1, i \in T PROVE i + 1 \in T
        OBVIOUS
      <3>1. i + 1 \in 1 .. n /\ (i + 1) - 1 = i /\ i + 1 \in 0 .. n
        BY <1>1
      <3>2. C[i + 1] = Joined(C[i], ss[i + 1]) /\ ss[i + 1] \in Seq(S)
        BY <3>1, <1>1, <1>10
      <3>3. C[i] \in Seq(S)
        OBVIOUS
      <3>4. Joined(C[i], ss[i + 1]) \in Seq(S)
        BY <3>2, <3>3, JoinTyped
      <3> QED BY <3>1, <3>2, <3>4
    <2> HIDE DEF T
    <2>3. \A i \in 0 .. n : i \in T
      BY <1>1, <2>1, <2>2, Upwards
    <2> QED BY <2>3 DEF T
  <1>12. C \in [0 .. n -> Seq(S)]
    BY <1>9, <1>11
  <1> QED BY <1>10, <1>12 DEF C, n

\* FlattenSeq of the community modules.
LEMMA FlattenIs ==
    ASSUME NEW S, NEW ss \in Seq(Seq(S))
    PROVE  FlattenSeq(ss) = Concat(ss)[Len(ss)]
  <1> DEFINE n == Len(ss)
             C == Concat(ss)
             F == CHOOSE g : g = [i \in 1 .. n |-> IF i = 1 THEN ss[i] ELSE Joined(g[i - 1], ss[i])]
  <1>1. n \in Nat /\ 1 \in Nat /\ C \in [0 .. n -> Seq(S)] /\ C[0] = <<>>
        /\ \A i \in 1 .. n : C[i] = Joined(C[i - 1], ss[i])
    BY ConcatIs
  <1>2. FlattenSeq(ss) = IF n = 0 THEN ss ELSE F[n]
    BY DEF FlattenSeq, Joined
  <1>3. CASE n = 0
    <2>1. ss = <<>>
      BY <1>3
    <2> HIDE DEF F, C
    <2> QED BY <1>1, <1>2, <1>3, <2>1 DEF C
  <1>4. CASE n # 0
    <2> DEFINE f == [i \in 1 .. n |-> C[i]]
    <2>1. 1 \in 1 .. n /\ n \in 1 .. n /\ C[1] = ss[1]
      <3>1. 1 \in 1 .. n /\ n \in 1 .. n /\ 1 - 1 = 0
        BY <1>1, <1>4
      <3>2. C[1] = Joined(<<>>, ss[1])
        BY <3>1, <1>1
      <3>3. ss[1] \in Seq(S)
        BY <3>1
      <3> QED BY <3>1, <3>2, <3>3, JoinEmpty
    <2>2. f = [i \in 1 .. n |-> IF i = 1 THEN ss[i] ELSE Joined(f[i - 1], ss[i])]
      <3> HIDE DEF C
      <3>1. ASSUME NEW i \in 1 .. n, i # 1 PROVE C[i] = Joined(f[i - 1], ss[i])
        <4>1. i - 1 \in 1 .. n
          BY <1>1, <3>1
        <4> QED BY <4>1, <1>1
      <3> QED BY <3>1, <2>1
    <2> HIDE DEF f, C
    <2>3. F = [i \in 1 .. n |-> IF i = 1 THEN ss[i] ELSE Joined(F[i - 1], ss[i])]
      BY <2>2
    <2> HIDE DEF F
    <2>4. F[1] = ss[1] /\ \A i \in 1 .. n : i # 1 => F[i] = Joined(F[i - 1], ss[i])
      BY <2>1, <2>3
    <2> DEFINE T == {i \in 1 .. n : F[i] = C[i]}
    <2>5. 1 \in T
      BY <2>1, <2>4
    <2>6. \A i \in 1 .. n - 1 : i \in T => i + 1 \in T
      <3> SUFFICES ASSUME NEW i \in 1 .. n - 1, i \in T PROVE i + 1 \in T
        OBVIOUS
      <3>1. i + 1 \in 1 .. n /\ (i + 1) - 1 = i /\ i + 1 # 1
        BY <1>1
      <3>2. F[i + 1] = Joined(F[i], ss[i + 1]) /\ C[i + 1] = Joined(C[i], ss[i + 1])
        BY <3>1, <1>1, <2>4
      <3> QED BY <3>1, <3>2
    <2> HIDE DEF T
    <2>7. \A i \in 1 .. n : i \in T
      BY <1>1, <2>5, <2>6, Upwards
    <2>8. F[n] = C[n]
      BY <2>7, <2>1 DEF T
    <2> QED BY <1>2, <1>4, <2>8 DEF C
  <1> QED BY <1>3, <1>4

\* The first ones stay where they are when others follow.
LEMMA ConcatGrows ==
    ASSUME NEW S, NEW ss \in Seq(Seq(S)), NEW i \in 0 .. Len(ss), NEW m \in i .. Len(ss)
    PROVE  Holds(Concat(ss)[m], 0, Concat(ss)[i])
  <1> DEFINE n == Len(ss)
             C == Concat(ss)
             T == {k \in i .. n : Holds(C[k], 0, C[i])}
  <1>1. n \in Nat /\ i \in Nat /\ C \in [0 .. n -> Seq(S)]
        /\ (\A k \in 1 .. n : C[k] = Joined(C[k - 1], ss[k])) /\ (\A k \in 1 .. n : ss[k] \in Seq(S))
    BY ConcatIs
  <1> HIDE DEF C
  <1>2. i \in T
    BY <1>1 DEF Holds
  <1>3. \A k \in i .. n - 1 : k \in T => k + 1 \in T
    <2> SUFFICES ASSUME NEW k \in i .. n - 1, k \in T PROVE k + 1 \in T
      OBVIOUS
    <2>1. k + 1 \in 1 .. n /\ (k + 1) - 1 = k /\ k \in 0 .. n /\ k + 1 \in i .. n
      BY <1>1
    <2>2. C[k + 1] = Joined(C[k], ss[k + 1]) /\ C[k] \in Seq(S) /\ ss[k + 1] \in Seq(S) /\ C[i] \in Seq(S)
      BY <2>1, <1>1
    <2>3. Holds(C[k], 0, C[i])
      OBVIOUS
    <2> HIDE DEF T, n
    <2>4. Holds(C[k + 1], 0, C[k])
      BY <2>2, JoinBegins
    <2>5. C[k + 1] \in Seq(S)
      BY <2>2, JoinTyped
    <2>6. Holds(C[k + 1], 0, C[i])
      BY <2>2, <2>3, <2>4, <2>5, BeginsOn
    <2> USE DEF T
    <2> QED BY <2>1, <2>6
  <1> HIDE DEF T
  <1>4. \A k \in i .. n : k \in T
    BY <1>1, <1>2, <1>3, Upwards
  <1> QED BY <1>4 DEF T, C

\* Each one is found behind those before it.
LEMMA ConcatHolds ==
    ASSUME NEW S, NEW ss \in Seq(Seq(S)), NEW i \in 1 .. Len(ss), NEW m \in i .. Len(ss)
    PROVE  /\ Holds(Concat(ss)[m], Len(Concat(ss)[i - 1]), ss[i])
           /\ Len(Concat(ss)[i]) = Len(Concat(ss)[i - 1]) + Len(ss[i])
  <1> DEFINE C == Concat(ss)
             a == C[i - 1]
             t == ss[i]
             u == C[i]
             all == C[m]
  <1>1. i \in 0 .. Len(ss) /\ i - 1 \in 0 .. Len(ss) /\ m \in 0 .. Len(ss) /\ t \in Seq(S)
    OBVIOUS
  <1>2. u = Joined(a, t)
    BY ConcatIs
  <1>3. a \in Seq(S)
    BY <1>1, ConcatIs
  <1>4. Holds(all, 0, u)
    BY <1>1, ConcatGrows
  <1> HIDE DEF C, a, t, u, all
  <1>5. Len(u) = Len(a) + Len(t)
    BY <1>1, <1>2, <1>3, JoinTyped
  <1>6. \A j \in 1 .. Len(t) : u[Len(a) + j] = t[j]
    BY <1>1, <1>2, <1>3, JoinSecond
  <1>7. Len(a) \in Nat /\ Len(t) \in Nat
    BY <1>1, <1>3
  <1>8. Holds(all, Len(a), t)
    <2>1. ASSUME NEW j \in 1 .. Len(t) PROVE all[Len(a) + j] = t[j]
      <3>1. Len(a) + j \in 1 .. Len(u) /\ 0 + (Len(a) + j) = Len(a) + j
        BY <1>5, <1>7
      <3>2. all[Len(a) + j] = u[Len(a) + j]
        BY <3>1, <1>4 DEF Holds
      <3> QED BY <3>2, <1>6
    <2>2. Len(a) + Len(t) <= Len(all)
      BY <1>4, <1>5, <1>7 DEF Holds
    <2> QED BY <2>1, <2>2 DEF Holds
  <1> QED BY <1>5, <1>8 DEF a, t, u, all, C

-----------------------------------------------------------------------------
(***************************************************************************)
(* Lines are texts.                                                         *)
(***************************************************************************)
LEMMA FlattenTyped ==
    ASSUME NEW S, NEW ss \in Seq(Seq(S))
    PROVE  FlattenSeq(ss) \in Seq(S)
  <1>1. Len(ss) \in 0 .. Len(ss)
    OBVIOUS
  <1> QED BY <1>1, FlattenIs, ConcatIs

\* What stands for a character between quotes.
DoubledChar(c) == IF c = Quote THEN <<Quote, Quote>> ELSE <<c>>

LEMMA DoubledParts ==
    ASSUME NEW s \in Text
    PROVE  /\ [i \in DOMAIN s |-> DoubledChar(s[i])] \in Seq(Text)
           /\ Doubled(s) = FlattenSeq([i \in DOMAIN s |-> DoubledChar(s[i])])
  <1>1. \A i \in DOMAIN s : DoubledChar(s[i]) \in Text
    BY SpecialChars DEF DoubledChar, Text
  <1>2. DOMAIN s = 1 .. Len(s) /\ Len(s) \in Nat
    BY DEF Text
  <1> QED BY <1>1, <1>2 DEF Doubled, DoubledChar

LEMMA DoubledTyped ==
    ASSUME NEW s \in Text
    PROVE  Doubled(s) \in Text
  BY DoubledParts, FlattenTyped DEF Text

\* Between quotes.
Enclosed(s) == <<Quote>> \o Doubled(s) \o <<Quote>>

LEMMA EnclosedTyped ==
    ASSUME NEW s \in Text
    PROVE  Enclosed(s) \in Text
  <1>1. Doubled(s) \in Seq(Chars)
    BY DoubledTyped DEF Text
  <1>2. <<Quote>> \in Seq(Chars)
    BY SpecialChars
  <1> QED BY <1>1, <1>2 DEF Enclosed, Text

LEMMA EscapeTyped ==
    ASSUME NEW s \in Text
    PROVE  Escape(s) \in Text
  BY EnclosedTyped DEF Escape, Enclosed

LEMMA QuotedTyped ==
    ASSUME NEW s \in Text, NEW always \in BOOLEAN
    PROVE  Quoted(s, always) \in Text
  BY EnclosedTyped DEF Quoted, Enclosed

\* A field with the separator that follows it.
FieldPart(fields, i) == IF i < Len(fields) THEN Append(fields[i], Separator) ELSE fields[i]

LEMMA JoinFieldsParts ==
    ASSUME NEW fields \in Seq(Text)
    PROVE  /\ [i \in DOMAIN fields |-> FieldPart(fields, i)] \in Seq(Text)
           /\ JoinFields(fields) = FlattenSeq([i \in DOMAIN fields |-> FieldPart(fields, i)])
  <1>1. \A i \in DOMAIN fields : FieldPart(fields, i) \in Text
    BY SpecialChars DEF FieldPart, Text
  <1>2. DOMAIN fields = 1 .. Len(fields) /\ Len(fields) \in Nat
    OBVIOUS
  <1> QED BY <1>1, <1>2 DEF JoinFields, FieldPart

LEMMA JoinFieldsTyped ==
    ASSUME NEW fields \in Seq(Text)
    PROVE  JoinFields(fields) \in Text
  BY JoinFieldsParts, FlattenTyped DEF Text

LEMMA GetLineTyped ==
    ASSUME NEW r \in Seq(Text)
    PROVE  GetLine(r) \in Text
  <1>1. [i \in DOMAIN r |-> Escape(r[i])] \in Seq(Text)
    BY EscapeTyped
  <1> QED BY <1>1, JoinFieldsTyped DEF GetLine

LEMMA QuotedLineTyped ==
    ASSUME NEW r \in Seq(Text), NEW always \in BOOLEAN
    PROVE  QuotedLine(r, always) \in Text
  <1> DEFINE line == JoinFields([f \in DOMAIN r |-> Quoted(r[f], always)])
  <1>1. [f \in DOMAIN r |-> Quoted(r[f], always)] \in Seq(Text)
    BY QuotedTyped
  <1>2. line \in Text
    BY <1>1, JoinFieldsTyped
  <1> HIDE DEF line
  <1>3. Append(line, Newline) \in Text
    BY <1>2, SpecialChars DEF Text
  <1> QED BY <1>3 DEF QuotedLine, line

-----------------------------------------------------------------------------
(***************************************************************************)
(* The loop of performUnescapeing.                                          *)
(***************************************************************************)
UndoubleState == [ok : BOOLEAN, quote : BOOLEAN, text : Text]

UndoubleStart == [ok |-> TRUE, quote |-> FALSE, text |-> <<>>]

LEMMA UndoubleTyped ==
    ASSUME NEW u \in UndoubleState, NEW c \in Chars
    PROVE  Undouble(u, c) \in UndoubleState
  <1>1. Append(u.text, c) \in Text
    BY DEF UndoubleState, Text
  <1> QED BY <1>1 DEF Undouble, UndoubleState

LEMMA UnescapingIs ==
    ASSUME NEW s \in Text
    PROVE  /\ Unescaping(s) \in [0 .. Len(s) -> UndoubleState]
           /\ Unescaping(s)[0] = UndoubleStart
           /\ \A i \in 1 .. Len(s) : Unescaping(s)[i] = Undouble(Unescaping(s)[i - 1], s[i])
  <1> DEFINE n == Len(s)
             U == Unescaping(s)
             step == [i \in 0 + 1 .. n |-> [u \in UndoubleState |-> Undouble(u, s[i])]]
  <1>1. n \in Nat /\ 0 \in Nat /\ 0 <= n /\ 0 + 1 = 1 /\ \A i \in 1 .. n : s[i] \in Chars
    BY DEF Text
  <1>2. UndoubleStart \in UndoubleState
    BY DEF UndoubleStart, UndoubleState, Text
  <1>3. step \in Steps(0, n, UndoubleState)
    BY <1>1, UndoubleTyped DEF Steps
  <1>4. \A i \in 1 .. n : \A u \in UndoubleState : step[i][u] = Undouble(u, s[i])
    BY <1>1
  <1>5. U = CHOOSE g : g = [i \in 0 .. n |-> IF i = 0 THEN UndoubleStart
                                                     ELSE Undouble(g[i - 1], s[i])]
    BY DEF Unescaping, UndoubleStart
  <1> HIDE DEF n, step, U
  <1>6. PICK f : Recurs(f, 0, n, UndoubleState, UndoubleStart, step)
    BY <1>1, <1>2, <1>3, Recursion
  <1>7. \A i \in 1 .. n : f[i] = Undouble(f[i - 1], s[i])
    <2> SUFFICES ASSUME NEW i \in 1 .. n PROVE f[i] = Undouble(f[i - 1], s[i])
      OBVIOUS
    <2>1. i - 1 \in 0 .. n /\ i \in 0 + 1 .. n
      BY <1>1
    <2>2. f[i - 1] \in UndoubleState
      BY <2>1, <1>6 DEF Recurs
    <2>3. f[i] = step[i][f[i - 1]]
      BY <2>1, <1>6 DEF Recurs
    <2> QED BY <2>2, <2>3, <1>4
  <1>8. f = [i \in 0 .. n |-> IF i = 0 THEN UndoubleStart ELSE Undouble(f[i - 1], s[i])]
    BY <1>1, <1>6, <1>7 DEF Recurs
  <1>9. U = [i \in 0 .. n |-> IF i = 0 THEN UndoubleStart ELSE Undouble(U[i - 1], s[i])]
    BY <1>5, <1>8
  <1>10. U[0] = UndoubleStart /\ \A i \in 1 .. n : U[i] = Undouble(U[i - 1], s[i])
    BY <1>1, <1>9
  <1>11. \A i \in 0 .. n : U[i] \in UndoubleState
    <2> DEFINE T == {i \in 0 .. n : U[i] \in UndoubleState}
    <2>1. 0 \in T
      BY <1>1, <1>2, <1>10
    <2>2. \A i \in 0 .. n - 1 : i \in T => i + 1 \in T
      <3> SUFFICES ASSUME NEW i \in 0 .. n - 1, i \in T PROVE i + 1 \in T
        OBVIOUS
      <3>1. i + 1 \in 1 .. n /\ (i + 1) - 1 = i /\ i + 1 \in 0 .. n
        BY <1>1
      <3>2. U[i + 1] = Undouble(U[i], s[i + 1]) /\ s[i + 1] \in Chars
        BY <3>1, <1>1, <1>10
      <3> QED BY <3>1, <3>2, UndoubleTyped
    <2> HIDE DEF T
    <2>3. \A i \in 0 .. n : i \in T
      BY <1>1, <2>1, <2>2, Upwards
    <2> QED BY <2>3 DEF T
  <1>12. U \in [0 .. n -> UndoubleState]
    BY <1>9, <1>11
  <1> QED BY <1>10, <1>12 DEF U, n

LEMMA UnescapeTyped ==
    ASSUME NEW s \in Text
    PROVE  Unescape(s).text \in Text
  <1> DEFINE inner == SubSeq(s, 2, Len(s) - 1)
             all == Unescaping(inner)[Len(inner)]
  <1>1. inner \in Text
    BY DEF Text
  <1>2. Len(inner) \in 0 .. Len(inner)
    BY <1>1 DEF Text
  <1> HIDE DEF inner
  <1>3. all \in UndoubleState
    BY <1>1, <1>2, UnescapingIs
  <1> HIDE DEF all
  <1>4. Unescape(s).text = IF IsEscaped(s) THEN all.text ELSE s
    BY DEF Unescape, all, inner
  <1> QED BY <1>3, <1>4 DEF UndoubleState

-----------------------------------------------------------------------------
(***************************************************************************)
(* Types.                                                                   *)
(***************************************************************************)
Rows == {r \in Seq(Text) : Len(r) = NumberOfFields}

Before == {"idle", "asks", "exports", "export", "shown", "cmdline", "mismatch"}

\* csv2yapet reads from the beginning of a file that nobody writes any more, and
\* makes a password file that stays empty until it saves.
TypeInv == /\ src \in Tables
           /\ writer \in {"nobody", "yapet2csv", "failed", "other"}
           /\ header \in BOOLEAN /\ full \in BOOLEAN
           /\ csv \in Text
           /\ todo \in Seq({Header} \cup {src[j] : j \in DOMAIN src})
           /\ pos \in 1 .. Len(csv) + 1
           /\ list \in Seq(Rows) /\ log \in Seq(Text)
           /\ maker \in {"nobody", "csv2yapet", "other"}
           /\ raced \in BOOLEAN
           /\ status \in {"idle", "asks", "exports", "export", "import", "shown", "cmdline",
                          "mismatch", "ok", "refused", "failed"}
           /\ status \in Before => pos = 1 /\ list = <<>> /\ log = <<>>
           /\ status = "import" => dst = <<>>
           /\ maker = "csv2yapet" => IsPrefix(dst, list)

LEMMA NumberIs == NumberOfFields \in Nat
  BY HeaderAssumption DEF NumberOfFields

LEMMA SourceRows == ASSUME src \in Tables PROVE src \in Seq(Rows)
  <1>1. src \in Seq(Seq(Text)) /\ \A i \in DOMAIN src : Len(src[i]) = NumberOfFields
    BY TablesAssumption
  <1> QED BY <1>1 DEF Rows

LEMMA HeaderRow == Header \in Rows
  BY HeaderAssumption DEF Rows, NumberOfFields

LEMMA EmptyPrefix == \A S : \A t \in Seq(S) : IsPrefix(<<>>, t)
  BY DEF IsPrefix

LEMMA TypesInit == Init => TypeInv
  <1>1. \A S : <<>> \in Seq(S)
    OBVIOUS
  <1>2. <<>> \in Text /\ 1 \in 1 .. Len(<<>>) + 1
    BY <1>1 DEF Text
  <1> QED BY <1>1, <1>2 DEF Init, TypeInv, Before

\* The main functions, and what does not convert.
LEMMA TypesMain ==
    ASSUME TypeInv, Usage \/ AskPassword \/ Mismatch \/ AskExportPassword
    PROVE  TypeInv'
  BY DEF TypeInv, Usage, AskPassword, Mismatch, AskExportPassword, Before, exporting, importing

LEMMA TypesOthers ==
    ASSUME TypeInv, OtherFile \/ Refuse \/ Over \/ UNCHANGED vars
    PROVE  TypeInv'
  <1>1. CASE OtherFile
    BY <1>1 DEF TypeInv, OtherFile, Before, exporting
  <1>2. CASE Refuse
    BY <1>2 DEF TypeInv, Refuse, Ends, Before, exporting, importing
  <1>3. CASE Over \/ UNCHANGED vars
    BY <1>3 DEF TypeInv, Over, Before, vars
  <1> QED BY <1>1, <1>2, <1>3

LEMMA TypesCreate ==
    ASSUME TypeInv, CreateFails \/ Import
    PROVE  TypeInv'
  BY EmptyPrefix DEF TypeInv, CreateFails, Import, Before, exporting

LEMMA TypesOtherProgram ==
    ASSUME TypeInv, OtherProgram
    PROVE  TypeInv'
  <1>1. PICK always \in BOOLEAN :
            csv' = FlattenSeq([i \in DOMAIN src |-> QuotedLine(src[i], always)])
    BY DEF OtherProgram
  <1> DEFINE lines == [i \in DOMAIN src |-> QuotedLine(src[i], always)]
  <1>2. src \in Seq(Seq(Text))
    BY TablesAssumption DEF TypeInv
  <1>3. lines \in Seq(Text)
    BY <1>2, QuotedLineTyped
  <1> HIDE DEF lines
  <1>4. FlattenSeq(lines) \in Text
    BY <1>3, FlattenTyped DEF Text
  <1>5. csv' \in Text
    BY <1>1, <1>4 DEF lines
  <1>6. pos' \in 1 .. Len(csv') + 1
    BY <1>5 DEF OtherProgram, TypeInv, Before, importing, Text
  <1> QED BY <1>5, <1>6 DEF OtherProgram, TypeInv, Before, importing

LEMMA TypesExport ==
    ASSUME TypeInv, Export
    PROVE  TypeInv'
  <1> DEFINE S == {Header} \cup {src[j] : j \in DOMAIN src}
  <1>1. src \in Seq(S)
    <2>1. src \in Seq(Rows)
      BY SourceRows DEF TypeInv
    <2> QED BY <2>1
  <1>2. <<Header>> \in Seq(S)
    OBVIOUS
  <1>3. todo' \in Seq(S)
    <2> HIDE DEF S
    <2>1. <<Header>> \o src \in Seq(S)
      BY <1>1, <1>2
    <2> QED BY <1>1, <2>1 DEF Export
  <1>4. csv' \in Text /\ pos' \in 1 .. Len(csv') + 1
    BY DEF Export, TypeInv, Before, importing, Text
  <1> QED BY <1>3, <1>4 DEF Export, TypeInv, Before, importing

LEMMA TypesExportEnds ==
    ASSUME TypeInv, ExportFails \/ ExportDone
    PROVE  TypeInv'
  BY DEF TypeInv, ExportFails, ExportDone, Before, exporting, importing

LEMMA TypesExportRecord ==
    ASSUME TypeInv, ExportRecord
    PROVE  TypeInv'
  <1> DEFINE S == {Header} \cup {src[j] : j \in DOMAIN src}
             line == Append(GetLine(Head(todo)), Newline)
  <1>1. todo \in Seq(S) /\ todo # <<>>
    BY DEF TypeInv, ExportRecord
  <1>2. S \subseteq Seq(Text)
    <2>1. src \in Seq(Rows)
      BY SourceRows DEF TypeInv
    <2> QED BY <2>1, HeaderRow DEF Rows
  <1> HIDE DEF S
  <1>3. Head(todo) \in Seq(Text) /\ Tail(todo) \in Seq(S)
    BY <1>1, <1>2
  <1>4. GetLine(Head(todo)) \in Text
    BY <1>3, GetLineTyped
  <1>5. line \in Seq(Chars)
    BY <1>4, SpecialChars DEF Text
  <1> HIDE DEF line
  <1>6. PICK n \in 0 .. Len(line) : csv' = csv \o SubSeq(line, 1, n)
    <2>1. \E n \in IF full THEN {0} ELSE 0 .. Len(line) : csv' = csv \o SubSeq(line, 1, n)
      BY DEF ExportRecord, line
    <2>2. 0 \in 0 .. Len(line)
      BY <1>5
    <2> QED BY <2>1, <2>2
  <1>7. csv' \in Text
    <2>1. SubSeq(line, 1, n) \in Seq(Chars)
      BY <1>5
    <2>2. csv \in Seq(Chars)
      BY DEF TypeInv, Text
    <2> QED BY <2>1, <2>2, <1>6 DEF Text
  <1>8. pos' \in 1 .. Len(csv') + 1
    BY <1>7 DEF ExportRecord, TypeInv, Before, importing, Text
  <1>9. todo' \in Seq(S) /\ full' \in BOOLEAN
    BY <1>3 DEF ExportRecord
  <1> QED BY <1>7, <1>8, <1>9 DEF ExportRecord, TypeInv, Before, importing, S

\* The lines that are read.
LEMMA TypesReport ==
    ASSUME TypeInv, NEW line \in Text, ReportLine(line)
    PROVE  log' \in Seq(Text) /\ list' = list /\ dst' = dst /\ status' = status
  <1>1. Append(log, line) \in Seq(Text)
    BY DEF TypeInv
  <1> QED BY <1>1 DEF ReportLine

LEMMA FieldsTyped ==
    ASSUME NEW line \in Text, ~Reported(line)
    PROVE  /\ DOMAIN Fields(line) = 1 .. NumberOfFields
           /\ \A f \in 1 .. NumberOfFields : Fields(line)[f].text \in Text
  <1> DEFINE parsed == ParseLine(line, NumberOfFields).fields
  <1>1. parsed \in Seq(Text) /\ Len(parsed) = NumberOfFields
    BY ParseLineTyped, NumberIs DEF Reported
  <1>2. Fields(line) = [f \in DOMAIN parsed |-> Unescape(parsed[f])]
    BY DEF Fields
  <1> HIDE DEF parsed
  <1>3. DOMAIN parsed = 1 .. NumberOfFields
    BY <1>1
  <1>4. ASSUME NEW f \in 1 .. NumberOfFields PROVE Fields(line)[f].text \in Text
    <2>1. Unescape(parsed[f]).text \in Text
      BY <1>1, <1>3, UnescapeTyped
    <2> QED BY <1>2, <1>3, <2>1
  <1> QED BY <1>2, <1>3, <1>4

LEMMA TypesAdd ==
    ASSUME TypeInv, NEW line \in Text, ~Reported(line), AddRecord(Fields(line))
    PROVE  list' \in Seq(Rows) /\ log' = log /\ dst' = dst /\ status' = status
  <1> DEFINE fields == Fields(line)
             r == [f \in DOMAIN fields |-> Kept(fields[f].text)]
  <1>1. ASSUME NEW f \in 1 .. NumberOfFields PROVE Kept(fields[f].text) \in Text
    <2>1. fields[f].text \in Seq(Chars)
      BY FieldsTyped DEF Text
    <2> HIDE DEF fields
    <2> QED BY <2>1, TablesAssumption DEF Kept, Text
  <1>2. DOMAIN fields = 1 .. NumberOfFields
    BY FieldsTyped
  <1> HIDE DEF fields
  <1>3. r \in Rows
    BY <1>1, <1>2, NumberIs DEF Rows
  <1>4. list' = Append(list, r)
    BY DEF AddRecord, fields
  <1> HIDE DEF r
  <1>5. Append(list, r) \in Seq(Rows)
    BY <1>3 DEF TypeInv
  <1> QED BY <1>4, <1>5 DEF AddRecord

LEMMA PrefixOf ==
    ASSUME NEW S, NEW t \in Seq(S)
    PROVE  IsPrefix(t, t) /\ \A n \in 0 .. Len(t) : IsPrefix(SubSeq(t, 1, n), t)
  BY DEF IsPrefix

LEMMA TypesSave ==
    ASSUME TypeInv, Save
    PROVE  /\ IsPrefix(dst', list') /\ status' \in {"ok", "failed"}
           /\ UNCHANGED <<list, log>>
  <1>1. list \in Seq(Rows)
    BY DEF TypeInv
  <1> QED BY <1>1, PrefixOf DEF Save

LEMMA TypesImportLine ==
    ASSUME TypeInv, ImportLine
    PROVE  TypeInv'
  <1> DEFINE read == ReadLine(csv, pos)
  <1>1. read.line \in Text /\ (read.next = 0 \/ read.next \in pos + 1 .. Len(csv) + 1)
    BY ReadLineTyped DEF TypeInv
  <1>2. pos' = IF read.next = 0 THEN pos ELSE read.next
    BY DEF ImportLine
  <1>3. csv' = csv /\ status = "import" /\ pos \in 1 .. Len(csv) + 1 /\ Len(csv) \in Nat
    BY DEF ImportLine, TypeInv, Text
  <1> HIDE DEF read
  <1>4. pos' \in 1 .. Len(csv') + 1
    BY <1>1, <1>2, <1>3
  <1>5. CASE Abort
    BY <1>3, <1>4, <1>5 DEF Abort, ImportLine, TypeInv, Before, exporting
  <1>6. CASE Save
    BY <1>3, <1>4, <1>6, TypesSave DEF ImportLine, TypeInv, Before, exporting
  <1>7. CASE ReportLine(read.line)
    BY <1>1, <1>3, <1>4, <1>7, TypesReport DEF ImportLine, TypeInv, Before, exporting
  <1>8. CASE ~Reported(read.line) /\ AddRecord(Fields(read.line))
    <2>1. list' \in Seq(Rows) /\ log' = log /\ dst' = dst /\ status' = status
      BY <1>1, <1>8, TypesAdd
    <2>2. IsPrefix(dst', list')
      BY <2>1, <1>3, EmptyPrefix DEF TypeInv
    <2> QED BY <2>1, <2>2, <1>3, <1>4 DEF ImportLine, TypeInv, Before, exporting
  <1> QED BY <1>5, <1>6, <1>7, <1>8 DEF ImportLine, read

LEMMA TypesNext == TypeInv /\ [Next]_vars => TypeInv'
  <1> SUFFICES ASSUME TypeInv, [Next]_vars PROVE TypeInv'
    OBVIOUS
  <1> QED BY TypesMain, TypesOthers, TypesCreate, TypesOtherProgram, TypesExport,
             TypesExportEnds, TypesExportRecord, TypesImportLine DEF Next

\* The types: csv2yapet never reads beyond the end of the file, a record it adds
\* has all fields, and what is in the password file are the first of the records
\* it has collected.
THEOREM ConvertersTyped == Spec => []TypeOK
  <1>1. TypeInv => TypeOK
    <2> SUFFICES ASSUME TypeInv PROVE TypeOK
      OBVIOUS
    <2>1. \A i \in DOMAIN list : Len(list[i]) = NumberOfFields
      BY DEF TypeInv, Rows
    <2>2. \A i \in DOMAIN todo : todo[i] \in {Header} \cup {src[j] : j \in DOMAIN src}
      BY DEF TypeInv
    <2> QED BY <2>1, <2>2 DEF TypeInv, TypeOK
  <1> QED BY <1>1, TypesInit, TypesNext, PTL DEF Spec

-----------------------------------------------------------------------------
(***************************************************************************)
(* Quoting and unquoting.                                                   *)
(***************************************************************************)
Parts(s) == [i \in DOMAIN s |-> DoubledChar(s[i])]

\* Where the first i characters of s end when the quotes are doubled.
Place(s, i) == Len(Concat(Parts(s))[i])

LEMMA PartsTyped ==
    ASSUME NEW s \in Text
    PROVE  /\ Parts(s) \in Seq(Seq(Chars)) /\ Len(Parts(s)) = Len(s)
           /\ Doubled(s) = Concat(Parts(s))[Len(s)]
  <1>1. Parts(s) \in Seq(Seq(Chars)) /\ Doubled(s) = FlattenSeq(Parts(s))
    BY DoubledParts DEF Parts, Text
  <1>2. Len(Parts(s)) = Len(s)
    BY DEF Parts, Text
  <1> QED BY <1>1, <1>2, FlattenIs

LEMMA PlacesTyped ==
    ASSUME NEW s \in Text, NEW i \in 0 .. Len(s)
    PROVE  Place(s, i) \in 0 .. Len(Doubled(s))
  <1>1. Holds(Doubled(s), 0, Concat(Parts(s))[i])
    <2>1. Len(s) \in i .. Len(s)
      BY DEF Text
    <2> QED BY <2>1, PartsTyped, ConcatGrows
  <1>2. Concat(Parts(s))[i] \in Seq(Chars)
    BY PartsTyped, ConcatIs
  <1>3. Doubled(s) \in Seq(Chars)
    BY DoubledTyped DEF Text
  <1> QED BY <1>1, <1>2, <1>3 DEF Holds, Place

LEMMA PlaceFirst ==
    ASSUME NEW s \in Text
    PROVE  Place(s, 0) = 0
  <1>1. Concat(Parts(s))[0] = <<>>
    BY PartsTyped, ConcatIs
  <1> QED BY <1>1 DEF Place

LEMMA PlaceLast ==
    ASSUME NEW s \in Text
    PROVE  Place(s, Len(s)) = Len(Doubled(s))
  BY PartsTyped DEF Place

LEMMA PlaceNext ==
    ASSUME NEW s \in Text, NEW i \in 1 .. Len(s)
    PROVE  /\ Place(s, i) = Place(s, i - 1) + Len(DoubledChar(s[i]))
           /\ \A j \in 1 .. Len(DoubledChar(s[i])) :
                 Doubled(s)[Place(s, i - 1) + j] = DoubledChar(s[i])[j]
  <1>1. Len(s) \in i .. Len(s) /\ Len(Parts(s)) = Len(s)
    BY PartsTyped DEF Text
  <1>2. Parts(s)[i] = DoubledChar(s[i])
    BY DEF Parts, Text
  <1>3. /\ Holds(Concat(Parts(s))[Len(s)], Len(Concat(Parts(s))[i - 1]), Parts(s)[i])
        /\ Len(Concat(Parts(s))[i]) = Len(Concat(Parts(s))[i - 1]) + Len(Parts(s)[i])
    <2>1. Parts(s) \in Seq(Seq(Chars))
      BY PartsTyped
    <2> QED BY <1>1, <2>1, ConcatHolds
  <1> QED BY <1>2, <1>3, PartsTyped DEF Place, Holds

\* A character other than a quote is there once.
LEMMA PlaceChar ==
    ASSUME NEW s \in Text, NEW i \in 1 .. Len(s), s[i] # Quote
    PROVE  Place(s, i) = Place(s, i - 1) + 1 /\ Doubled(s)[Place(s, i - 1) + 1] = s[i]
  <1>1. DoubledChar(s[i]) = <<s[i]>>
    BY DEF DoubledChar
  <1>2. Len(<<s[i]>>) = 1 /\ <<s[i]>>[1] = s[i] /\ 1 \in 1 .. 1
    OBVIOUS
  <1>3. Place(s, i) = Place(s, i - 1) + 1
    BY <1>1, <1>2, PlaceNext
  <1>4. \A j \in 1 .. 1 : Doubled(s)[Place(s, i - 1) + j] = <<s[i]>>[j]
    BY <1>1, <1>2, PlaceNext
  <1> QED BY <1>2, <1>3, <1>4

\* A quote is there twice.
LEMMA PlacePair ==
    ASSUME NEW s \in Text, NEW i \in 1 .. Len(s), s[i] = Quote
    PROVE  /\ Place(s, i) = Place(s, i - 1) + 2
           /\ Doubled(s)[Place(s, i - 1) + 1] = Quote /\ Doubled(s)[Place(s, i - 1) + 2] = Quote
  <1>1. DoubledChar(s[i]) = <<Quote, Quote>>
    BY DEF DoubledChar
  <1>2. /\ Len(<<Quote, Quote>>) = 2 /\ 1 \in 1 .. 2 /\ 2 \in 1 .. 2
        /\ <<Quote, Quote>>[1] = Quote /\ <<Quote, Quote>>[2] = Quote
    OBVIOUS
  <1>3. Place(s, i) = Place(s, i - 1) + 2
    BY <1>1, <1>2, PlaceNext
  <1>4. \A j \in 1 .. 2 : Doubled(s)[Place(s, i - 1) + j] = <<Quote, Quote>>[j]
    BY <1>1, <1>2, PlaceNext
  <1> QED BY <1>2, <1>3, <1>4

-----------------------------------------------------------------------------
\* Outside of a pair.
Whole(t) == [ok |-> TRUE, quote |-> FALSE, text |-> t]

LEMMA UndoubleChar ==
    ASSUME NEW t \in Text, NEW c \in Chars, c # Quote
    PROVE  Undouble(Whole(t), c) = Whole(Append(t, c))
  BY DEF Undouble, Whole

LEMMA UndoublePair ==
    ASSUME NEW t \in Text
    PROVE  Undouble(Undouble(Whole(t), Quote), Quote) = Whole(Append(t, Quote))
  BY DEF Undouble, Whole

LEMMA TextGrows ==
    ASSUME NEW s \in Text, NEW i \in 1 .. Len(s)
    PROVE  SubSeq(s, 1, i) = Append(SubSeq(s, 1, i - 1), s[i]) /\ SubSeq(s, 1, i - 1) \in Text
           /\ s[i] \in Chars
  BY DEF Text

\* Unquoting takes back what quoting did.
LEMMA UnescapingDoubled ==
    ASSUME NEW s \in Text
    PROVE  Unescaping(Doubled(s))[Len(Doubled(s))] = Whole(s)
  <1> DEFINE D == Doubled(s)
             U == Unescaping(D)
             n == Len(s)
             T == {i \in 0 .. n : U[Place(s, i)] = Whole(SubSeq(s, 1, i))}
  <1>1. D \in Text /\ n \in Nat /\ Len(D) \in Nat /\ SubSeq(s, 1, 0) = <<>> /\ SubSeq(s, 1, n) = s
    BY DoubledTyped DEF Text
  <1>2. U[0] = UndoubleStart /\ \A i \in 1 .. Len(D) : U[i] = Undouble(U[i - 1], D[i])
    BY <1>1, UnescapingIs
  <1> HIDE DEF U, D
  <1>3. 0 \in T
    <2>1. U[Place(s, 0)] = Whole(SubSeq(s, 1, 0))
      BY <1>1, <1>2, PlaceFirst DEF UndoubleStart, Whole
    <2> QED BY <2>1, <1>1
  <1>4. \A i \in 0 .. n - 1 : i \in T => i + 1 \in T
    <2> SUFFICES ASSUME NEW i \in 0 .. n - 1, i \in T PROVE i + 1 \in T
      OBVIOUS
    <2> DEFINE k == i + 1
               p == Place(s, i)
               q == Place(s, k)
               t == SubSeq(s, 1, i)
               u == SubSeq(s, 1, k)
    <2>1. k \in 1 .. n /\ k - 1 = i /\ k \in 0 .. n /\ i \in 0 .. n
      BY <1>1
    <2>2. U[p] = Whole(t)
      OBVIOUS
    <2>3. p \in 0 .. Len(D) /\ q \in 0 .. Len(D)
      BY <2>1, PlacesTyped DEF D
    <2>4. u = Append(t, s[k]) /\ t \in Text /\ s[k] \in Chars
      BY <2>1, TextGrows
    <2>5. s[k] # Quote => q = p + 1 /\ D[p + 1] = s[k]
      BY <2>1, PlaceChar DEF D
    <2>6. s[k] = Quote => q = p + 2 /\ D[p + 1] = Quote /\ D[p + 2] = Quote
      BY <2>1, PlacePair DEF D
    <2> HIDE DEF n, p, q, t, u, T
    <2>7. CASE s[k] # Quote
      <3>1. p + 1 \in 1 .. Len(D) /\ (p + 1) - 1 = p
        BY <2>3, <2>5, <2>7, <1>1
      <3>2. U[p + 1] = Undouble(U[p], D[p + 1])
        BY <3>1, <1>2
      <3>3. Undouble(Whole(t), s[k]) = Whole(Append(t, s[k]))
        BY <2>4, <2>7, UndoubleChar
      <3> QED BY <3>2, <3>3, <2>1, <2>2, <2>4, <2>5, <2>7 DEF T, q, u
    <2>8. CASE s[k] = Quote
      <3>1. p + 1 \in 1 .. Len(D) /\ (p + 1) - 1 = p /\ p + 2 \in 1 .. Len(D) /\ (p + 2) - 1 = p + 1
        BY <2>3, <2>6, <2>8, <1>1
      <3>2. U[p + 1] = Undouble(U[p], D[p + 1]) /\ U[p + 2] = Undouble(U[p + 1], D[p + 2])
        BY <3>1, <1>2
      <3>3. Undouble(Undouble(Whole(t), Quote), Quote) = Whole(Append(t, Quote))
        BY <2>4, UndoublePair
      <3> QED BY <3>2, <3>3, <2>1, <2>2, <2>4, <2>6, <2>8 DEF T, q, u
    <2> QED BY <2>7, <2>8
  <1> HIDE DEF T
  <1>5. \A i \in 0 .. n : i \in T
    BY <1>1, <1>3, <1>4, Upwards
  <1>6. n \in T
    BY <1>1, <1>5
  <1> QED BY <1>1, <1>6, PlaceLast DEF T, U, D

LEMMA EnclosedIs ==
    ASSUME NEW s \in Text
    PROVE  /\ Len(Enclosed(s)) = Len(Doubled(s)) + 2
           /\ Enclosed(s)[1] = Quote /\ Enclosed(s)[Len(Doubled(s)) + 2] = Quote
           /\ \A j \in 1 .. Len(Doubled(s)) : Enclosed(s)[j + 1] = Doubled(s)[j]
  <1>1. Doubled(s) \in Seq(Chars)
    BY DoubledTyped DEF Text
  <1> QED BY <1>1 DEF Enclosed

LEMMA UnescapeEnclosed ==
    ASSUME NEW s \in Text
    PROVE  Unescape(Enclosed(s)) = [ok |-> TRUE, text |-> s]
  <1> DEFINE e == Enclosed(s)
             inner == SubSeq(e, 2, Len(e) - 1)
  <1>1. e \in Text /\ Doubled(s) \in Text
    BY EnclosedTyped, DoubledTyped
  <1>2. IsEscaped(e)
    BY <1>1, EnclosedIs DEF IsEscaped, Text
  <1>3. inner = Doubled(s)
    <2> DEFINE D == Doubled(s)
    <2>1. /\ Len(e) = Len(D) + 2 /\ \A j \in 1 .. Len(D) : e[j + 1] = D[j]
          /\ e \in Seq(Chars) /\ D \in Seq(Chars)
      BY <1>1, EnclosedIs DEF Text
    <2> HIDE DEF e, D
    <2>2. Len(inner) = Len(D) /\ inner \in Seq(Chars) /\ \A j \in 1 .. Len(D) : inner[j] = e[j + 1]
      BY <2>1
    <2> HIDE DEF inner
    <2>3. inner = D
      BY <2>1, <2>2
    <2> QED BY <2>3 DEF D
  <1>4. Unescaping(inner)[Len(inner)] = Whole(s)
    BY <1>3, UnescapingDoubled
  <1> HIDE DEF inner, e
  <1>5. Unescape(e) = [ok |-> Whole(s).ok, text |-> Whole(s).text]
    BY <1>2, <1>4 DEF Unescape, inner
  <1> QED BY <1>5 DEF Whole, e

-----------------------------------------------------------------------------
(***************************************************************************)
(* readLine, in a field.                                                    *)
(***************************************************************************)
\* A text that needs no quotes, and what csv2yapet takes for a text.
Bare(s) == /\ \A i \in DOMAIN s : s[i] \notin {Separator, Newline}
           /\ s # <<>> => s[1] # Quote

Encodes(e, s) == (e = s /\ Bare(s)) \/ e = Enclosed(s)

\* The loop is between fields or in a bare one, before the first quote of a field,
\* or in a quoted field.
Outside(r) == r.next = 0 /\ ~r.escaped /\ ~r.skip
Opening(r) == r.next = 0 /\ r.escaped /\ r.skip
Inside(r)  == r.next = 0 /\ r.escaped /\ ~r.skip

LEMMA ReadingStep ==
    ASSUME NEW file \in Text, NEW p \in 1 .. Len(file) + 1, NEW i \in p .. Len(file)
    PROVE  /\ Reading(file, p)[i - 1] \in ReadState
           /\ Reading(file, p)[i] = ReadChar(Reading(file, p)[i - 1], file, i)
  <1>1. i - 1 \in p - 1 .. Len(file) /\ p \in Nat
    BY DEF Text
  <1> QED BY <1>1, ReadingIs

LEMMA OutsideChar ==
    ASSUME NEW file \in Text, NEW i \in 1 .. Len(file), NEW r \in ReadState, Outside(r),
           file[i] \notin {Separator, Newline}, file[i] = Quote => ~r.start
    PROVE  Outside(ReadChar(r, file, i)) /\ ~ReadChar(r, file, i).start
  BY ReadOther DEF Outside

LEMMA InsideChar ==
    ASSUME NEW file \in Text, NEW i \in 1 .. Len(file), NEW r \in ReadState, Inside(r),
           file[i] # Quote
    PROVE  Inside(ReadChar(r, file, i)) /\ ~ReadChar(r, file, i).start
  BY ReadOther DEF Inside

LEMMA OpeningChar ==
    ASSUME NEW file \in Text, NEW i \in 1 .. Len(file), NEW r \in ReadState, Opening(r)
    PROVE  Inside(ReadChar(r, file, i)) /\ ReadChar(r, file, i).start = r.start
  BY ReadSkipped DEF Opening, Inside

LEMMA OutsideOpens ==
    ASSUME NEW file \in Text, NEW i \in 1 .. Len(file), NEW r \in ReadState, Outside(r),
           r.start, file[i] = Quote
    PROVE  Inside(ReadChar(r, file, i)) /\ ~ReadChar(r, file, i).start
  BY ReadOpening DEF Outside, Inside

LEMMA InsidePair ==
    ASSUME NEW file \in Text, NEW i \in 1 .. Len(file), NEW r \in ReadState, Inside(r),
           ~r.start, file[i] = Quote, Ahead(file, i) = Quote
    PROVE  Opening(ReadChar(r, file, i)) /\ ~ReadChar(r, file, i).start
  BY ReadPair DEF Inside, Opening

LEMMA InsideCloses ==
    ASSUME NEW file \in Text, NEW i \in 1 .. Len(file), NEW r \in ReadState, Inside(r),
           ~r.start, file[i] = Quote, Ahead(file, i) \in {Separator, Newline}
    PROVE  Outside(ReadChar(r, file, i)) /\ ~ReadChar(r, file, i).start
  BY ReadClosing DEF Inside, Outside

LEMMA OutsideSeparator ==
    ASSUME NEW file \in Text, NEW i \in 1 .. Len(file), NEW r \in ReadState, Outside(r),
           file[i] = Separator
    PROVE  LET n == ReadChar(r, file, i)
           IN  /\ n.start = r.start
               /\ Ahead(file, i) = Quote => Opening(n)
               /\ Ahead(file, i) # Quote => Outside(n)
  BY ReadSeparator DEF Outside, Opening

\* A bare field is read to its end.
LEMMA ReadBare ==
    ASSUME NEW file \in Text, NEW p \in 1 .. Len(file) + 1, NEW a \in p - 1 .. Len(file),
           NEW s \in Text, Bare(s), Holds(file, a, s), Outside(Reading(file, p)[a])
    PROVE  /\ Outside(Reading(file, p)[a + Len(s)])
           /\ Reading(file, p)[a + Len(s)].start => Reading(file, p)[a].start /\ s = <<>>
  <1> DEFINE R == Reading(file, p)
             n == Len(s)
             T == {i \in 0 .. n : Outside(R[a + i]) /\ (R[a + i].start => R[a].start /\ i = 0)}
  <1>1. n \in Nat /\ a \in Nat /\ p \in Nat /\ Len(file) \in Nat /\ a + n <= Len(file) /\ a >= p - 1
    BY DEF Holds, Text
  <1>2. 0 \in T
    <2>1. a + 0 = a /\ 0 \in 0 .. n
      BY <1>1
    <2> QED BY <2>1
  <1>3. \A i \in 0 .. n - 1 : i \in T => i + 1 \in T
    <2> SUFFICES ASSUME NEW i \in 0 .. n - 1, i \in T PROVE i + 1 \in T
      OBVIOUS
    <2> DEFINE k == i + 1
               q == a + k
    <2>1. /\ k \in 1 .. n /\ k \in 0 .. n /\ k # 0 /\ q \in p .. Len(file) /\ q \in 1 .. Len(file)
          /\ q - 1 = a + i /\ k - 1 = i
      BY <1>1
    <2>2. Outside(R[a + i]) /\ (R[a + i].start => i = 0)
      OBVIOUS
    <2>3. file[q] = s[k] /\ k \in DOMAIN s
      BY <2>1, <1>1 DEF Holds, Text
    <2>4. file[q] \notin {Separator, Newline}
      BY <2>3 DEF Bare
    <2>5. i = 0 => file[q] # Quote
      <3>1. i = 0 => s[1] = s[k] /\ s # <<>>
        BY <2>3
      <3> QED BY <3>1, <2>3 DEF Bare
    <2>6. R[q - 1] \in ReadState /\ R[q] = ReadChar(R[q - 1], file, q)
      BY <2>1, ReadingStep
    <2> HIDE DEF R, n, k, q, T
    <2>7. Outside(R[q]) /\ ~R[q].start
      BY <2>1, <2>2, <2>4, <2>5, <2>6, OutsideChar
    <2> QED BY <2>1, <2>7 DEF T, q, k
  <1> HIDE DEF T, R
  <1>4. \A i \in 0 .. n : i \in T
    BY <1>1, <1>2, <1>3, Upwards
  <1>5. n \in T
    BY <1>1, <1>4
  <1>6. n = 0 => s = <<>>
    BY DEF Text
  <1> QED BY <1>5, <1>6 DEF T, R

\* The text between the quotes of a quoted field: d characters of the file are
\* before it.
LEMMA ReadDoubled ==
    ASSUME NEW file \in Text, NEW p \in 1 .. Len(file) + 1, NEW d \in p .. Len(file),
           NEW s \in Text, Holds(file, d, Doubled(s)), d + Len(Doubled(s)) < Len(file),
           Inside(Reading(file, p)[d]),
           Reading(file, p)[d].start => s # <<>> /\ s[1] # Quote
    PROVE  /\ Inside(Reading(file, p)[d + Len(Doubled(s))])
           /\ ~Reading(file, p)[d + Len(Doubled(s))].start
  <1> DEFINE R == Reading(file, p)
             D == Doubled(s)
             n == Len(s)
             T == {i \in 0 .. n : /\ Inside(R[d + Place(s, i)])
                                  /\ R[d + Place(s, i)].start => i = 0 /\ R[d].start}
  <1>1. /\ n \in Nat /\ d \in Nat /\ p \in Nat /\ Len(file) \in Nat /\ d >= p
        /\ Len(D) \in Nat /\ d + Len(D) < Len(file)
    BY DoubledTyped DEF Text
  <1>2. 0 \in T
    <2>1. d + Place(s, 0) = d /\ 0 \in 0 .. n
      BY <1>1, PlaceFirst
    <2> QED BY <2>1
  <1>3. \A i \in 0 .. n - 1 : i \in T => i + 1 \in T
    <2> SUFFICES ASSUME NEW i \in 0 .. n - 1, i \in T PROVE i + 1 \in T
      OBVIOUS
    <2> DEFINE k == i + 1
               a == Place(s, i)
               b == Place(s, k)
               q == d + a + 1
    <2>1. k \in 1 .. n /\ k - 1 = i /\ k \in 0 .. n /\ i \in 0 .. n
      BY <1>1
    <2>2. a \in 0 .. Len(D) /\ b \in 0 .. Len(D)
      BY <2>1, PlacesTyped
    <2>3. Inside(R[d + a]) /\ (R[d + a].start => i = 0 /\ R[d].start)
      OBVIOUS
    <2>4. s[k] # Quote => b = a + 1 /\ D[a + 1] = s[k]
      BY <2>1, PlaceChar
    <2>5. s[k] = Quote => b = a + 2 /\ D[a + 1] = Quote /\ D[a + 2] = Quote
      BY <2>1, PlacePair
    <2>6. s[k] = Quote => ~R[d + a].start
      <3>1. i = 0 => s[1] = s[k]
        BY <2>1
      <3> QED BY <3>1, <2>3
    <2>7. \A j \in 1 .. Len(D) : file[d + j] = D[j]
      BY DEF Holds
    <2> HIDE DEF R, D, n, k, a, b, T
    <2>8. CASE s[k] # Quote
      <3>1. a + 1 \in 1 .. Len(D) /\ q = d + (a + 1) /\ q \in p .. Len(file) /\ q \in 1 .. Len(file)
            /\ q - 1 = d + a /\ q = d + b
        BY <1>1, <2>2, <2>4, <2>8
      <3>2. file[q] # Quote
        BY <3>1, <2>4, <2>7, <2>8
      <3>3. R[q - 1] \in ReadState /\ R[q] = ReadChar(R[q - 1], file, q)
        BY <3>1, ReadingStep DEF R
      <3> HIDE DEF q
      <3>4. Inside(R[q]) /\ ~R[q].start
        BY <3>1, <3>2, <3>3, <2>3, InsideChar
      <3>5. Inside(R[d + b]) /\ ~R[d + b].start
        BY <3>1, <3>4
      <3> QED BY <2>1, <3>5 DEF T, b, k
    <2>9. CASE s[k] = Quote
      <3>1. /\ a + 1 \in 1 .. Len(D) /\ a + 2 \in 1 .. Len(D)
            /\ q = d + (a + 1) /\ q \in p .. Len(file) /\ q \in 1 .. Len(file)
            /\ q + 1 = d + (a + 2) /\ q + 1 \in p .. Len(file) /\ q + 1 \in 1 .. Len(file)
            /\ q - 1 = d + a /\ (q + 1) - 1 = q /\ q + 1 = d + b /\ q < Len(file)
        BY <1>1, <2>2, <2>5, <2>9
      <3>2. file[q] = Quote /\ file[q + 1] = Quote
        BY <3>1, <2>5, <2>7, <2>9
      <3>3. Ahead(file, q) = Quote
        BY <3>1, <3>2 DEF Ahead
      <3>4. R[q - 1] \in ReadState /\ R[q] = ReadChar(R[q - 1], file, q)
        BY <3>1, ReadingStep DEF R
      <3>5. R[q] \in ReadState /\ R[q + 1] = ReadChar(R[q], file, q + 1)
        <4> DEFINE m == q + 1
        <4>1. m \in p .. Len(file) /\ m - 1 = q
          BY <3>1
        <4> HIDE DEF m, q
        <4>2. R[m - 1] \in ReadState /\ R[m] = ReadChar(R[m - 1], file, m)
          BY <4>1, ReadingStep DEF R
        <4> QED BY <4>1, <4>2 DEF m
      <3> HIDE DEF q
      <3>6. Opening(R[q]) /\ ~R[q].start
        BY <3>1, <3>2, <3>3, <3>4, <2>3, <2>6, <2>9, InsidePair
      <3>7. Inside(R[q + 1]) /\ ~R[q + 1].start
        <4>1. q + 1 \in 1 .. Len(file)
          BY <3>1
        <4>2. Inside(ReadChar(R[q], file, q + 1)) /\ ReadChar(R[q], file, q + 1).start = R[q].start
          BY <4>1, <3>5, <3>6, OpeningChar
        <4> QED BY <4>2, <3>5, <3>6
      <3>8. Inside(R[d + b]) /\ ~R[d + b].start
        BY <3>1, <3>7
      <3> QED BY <2>1, <3>8 DEF T, b, k
    <2> QED BY <2>8, <2>9
  <1> HIDE DEF T, R
  <1>4. \A i \in 0 .. n : i \in T
    BY <1>1, <1>2, <1>3, Upwards
  <1>5. n \in T
    BY <1>1, <1>4
  <1>6. Inside(R[d + Len(D)]) /\ (R[d + Len(D)].start => n = 0 /\ R[d].start)
    BY <1>5, PlaceLast DEF T
  <1>7. n = 0 => s = <<>>
    BY DEF Text
  <1> QED BY <1>6, <1>7 DEF R

\* A quoted field: the first of a line, or one whose first quote was seen already
\* at the separator before.
LEMMA ReadEnclosed ==
    ASSUME NEW file \in Text, NEW p \in 1 .. Len(file) + 1, NEW a \in p - 1 .. Len(file),
           NEW s \in Text, Holds(file, a, Enclosed(s)), a + Len(Enclosed(s)) < Len(file),
           file[a + Len(Enclosed(s)) + 1] \in {Separator, Newline},
           \/ Outside(Reading(file, p)[a]) /\ Reading(file, p)[a].start
           \/ /\ Opening(Reading(file, p)[a])
              /\ Reading(file, p)[a].start => s # <<>> /\ s[1] # Quote
    PROVE  /\ Outside(Reading(file, p)[a + Len(Enclosed(s))])
           /\ ~Reading(file, p)[a + Len(Enclosed(s))].start
  <1> DEFINE R == Reading(file, p)
             D == Doubled(s)
             e == Enclosed(s)
             d == a + 1
             z == a + Len(D) + 2
  <1>1. /\ a \in Nat /\ p \in Nat /\ Len(file) \in Nat /\ a >= p - 1 /\ Len(D) \in Nat
        /\ p >= 1
    BY DoubledTyped DEF Text
  <1>2. Len(e) = Len(D) + 2 /\ e[1] = Quote /\ e[Len(D) + 2] = Quote
        /\ \A j \in 1 .. Len(D) : e[j + 1] = D[j]
    BY EnclosedIs
  <1>3. \A j \in 1 .. Len(e) : file[a + j] = e[j]
    BY DEF Holds
  <1>4. a + Len(e) < Len(file) /\ file[a + Len(e) + 1] \in {Separator, Newline}
    OBVIOUS
  <1> HIDE DEF D, e, R
  <1>5. /\ d \in p .. Len(file) /\ d \in 1 .. Len(file) /\ d - 1 = a
        /\ z \in p .. Len(file) /\ z \in 1 .. Len(file) /\ z - 1 = d + Len(D)
        /\ z = a + Len(e) /\ z < Len(file) /\ 1 \in 1 .. Len(e) /\ Len(D) + 2 \in 1 .. Len(e)
        /\ z = a + (Len(D) + 2) /\ z + 1 = a + Len(e) + 1
    BY <1>1, <1>2, <1>4
  <1>6. file[d] = Quote /\ file[z] = Quote /\ file[z + 1] \in {Separator, Newline}
    BY <1>2, <1>3, <1>4, <1>5
  <1>7. Holds(file, d, D)
    <2>1. ASSUME NEW j \in 1 .. Len(D) PROVE file[d + j] = D[j]
      <3>1. j + 1 \in 1 .. Len(e) /\ d + j = a + (j + 1)
        BY <1>1, <1>2
      <3> QED BY <3>1, <1>2, <1>3
    <2>2. d + Len(D) <= Len(file)
      BY <1>1, <1>2, <1>4
    <2> QED BY <2>1, <2>2 DEF Holds
  <1>8. d + Len(D) < Len(file)
    BY <1>1, <1>2, <1>4
  <1>9. R[a] \in ReadState /\ R[d] = ReadChar(R[a], file, d)
    <2> HIDE DEF d
    <2> QED BY <1>5, ReadingStep DEF R
  <1>10. Inside(R[d]) /\ (R[d].start => s # <<>> /\ s[1] # Quote)
    <2> HIDE DEF d
    <2>1. CASE Outside(R[a]) /\ R[a].start
      BY <2>1, <1>5, <1>6, <1>9, OutsideOpens
    <2>2. CASE Opening(R[a]) /\ (R[a].start => s # <<>> /\ s[1] # Quote)
      <3>1. Inside(ReadChar(R[a], file, d)) /\ ReadChar(R[a], file, d).start = R[a].start
        BY <2>2, <1>5, <1>9, OpeningChar
      <3> QED BY <3>1, <2>2, <1>9
    <2> QED BY <2>1, <2>2 DEF R
  <1>11. Inside(R[z - 1]) /\ ~R[z - 1].start
    <2> HIDE DEF d, z
    <2> QED BY <1>5, <1>7, <1>8, <1>10, ReadDoubled DEF R, D
  <1> HIDE DEF z
  <1>12. R[z - 1] \in ReadState /\ R[z] = ReadChar(R[z - 1], file, z)
    BY <1>5, ReadingStep DEF R
  <1>13. Ahead(file, z) \in {Separator, Newline}
    BY <1>5, <1>6 DEF Ahead
  <1>14. Outside(R[z]) /\ ~R[z].start
    BY <1>5, <1>6, <1>11, <1>12, <1>13, InsideCloses
  <1> QED BY <1>5, <1>14 DEF R, e

-----------------------------------------------------------------------------
(***************************************************************************)
(* The fields of a line.                                                    *)
(***************************************************************************)
FieldParts(es) == [i \in DOMAIN es |-> FieldPart(es, i)]

\* Where the first f fields end, with the separators behind them.
Offset(es, f) == Len(Concat(FieldParts(es))[f])

LEMMA FieldPartsTyped ==
    ASSUME NEW es \in Seq(Text)
    PROVE  /\ FieldParts(es) \in Seq(Seq(Chars)) /\ Len(FieldParts(es)) = Len(es)
           /\ JoinFields(es) = Concat(FieldParts(es))[Len(es)]
  <1>1. FieldParts(es) \in Seq(Seq(Chars)) /\ JoinFields(es) = FlattenSeq(FieldParts(es))
    BY JoinFieldsParts DEF FieldParts, Text
  <1>2. Len(FieldParts(es)) = Len(es)
    BY DEF FieldParts
  <1> QED BY <1>1, <1>2, FlattenIs

LEMMA OffsetTyped ==
    ASSUME NEW es \in Seq(Text), NEW f \in 0 .. Len(es)
    PROVE  Offset(es, f) \in 0 .. Len(JoinFields(es))
  <1>1. Holds(JoinFields(es), 0, Concat(FieldParts(es))[f])
    <2>1. Len(es) \in f .. Len(es)
      OBVIOUS
    <2> QED BY <2>1, FieldPartsTyped, ConcatGrows
  <1>2. Concat(FieldParts(es))[f] \in Seq(Chars)
    BY FieldPartsTyped, ConcatIs
  <1>3. JoinFields(es) \in Seq(Chars)
    BY JoinFieldsTyped DEF Text
  <1> QED BY <1>1, <1>2, <1>3 DEF Holds, Offset

LEMMA OffsetFirst ==
    ASSUME NEW es \in Seq(Text)
    PROVE  Offset(es, 0) = 0
  <1>1. Concat(FieldParts(es))[0] = <<>>
    BY FieldPartsTyped, ConcatIs
  <1> QED BY <1>1 DEF Offset

LEMMA OffsetNext ==
    ASSUME NEW es \in Seq(Text), NEW f \in 1 .. Len(es)
    PROVE  /\ Offset(es, f) = Offset(es, f - 1) + Len(FieldPart(es, f))
           /\ Holds(JoinFields(es), Offset(es, f - 1), FieldPart(es, f))
  <1>1. Len(es) \in f .. Len(es) /\ Len(FieldParts(es)) = Len(es)
    BY FieldPartsTyped
  <1>2. FieldParts(es)[f] = FieldPart(es, f)
    BY DEF FieldParts
  <1>3. /\ Holds(Concat(FieldParts(es))[Len(es)], Len(Concat(FieldParts(es))[f - 1]), FieldParts(es)[f])
        /\ Len(Concat(FieldParts(es))[f]) = Len(Concat(FieldParts(es))[f - 1]) + Len(FieldParts(es)[f])
    <2>1. FieldParts(es) \in Seq(Seq(Chars))
      BY FieldPartsTyped
    <2> QED BY <1>1, <2>1, ConcatHolds
  <1> QED BY <1>2, <1>3, FieldPartsTyped DEF Offset

\* A field that others follow, and the separator between them.
LEMMA FieldInside ==
    ASSUME NEW es \in Seq(Text), NEW f \in 1 .. Len(es) - 1
    PROVE  /\ Offset(es, f) = Offset(es, f - 1) + Len(es[f]) + 1
           /\ Holds(JoinFields(es), Offset(es, f - 1), es[f])
           /\ JoinFields(es)[Offset(es, f)] = Separator
  <1> DEFINE e == es[f]
             t == FieldPart(es, f)
             a == Offset(es, f - 1)
             b == Offset(es, f)
             L == JoinFields(es)
  <1>1. f \in 1 .. Len(es) /\ f < Len(es) /\ f - 1 \in 0 .. Len(es)
    OBVIOUS
  <1>2. e \in Seq(Chars) /\ t = Append(e, Separator)
    BY <1>1 DEF FieldPart, Text
  <1>3. Len(t) = Len(e) + 1 /\ t[Len(e) + 1] = Separator /\ (\A j \in 1 .. Len(e) : t[j] = e[j])
        /\ Len(e) \in Nat
    BY <1>2
  <1>4. b = a + Len(t) /\ Holds(L, a, t) /\ a \in Nat
    BY <1>1, OffsetNext, OffsetTyped
  <1> HIDE DEF e, t, a, b, L
  <1>5. b = a + Len(e) + 1 /\ b = a + (Len(e) + 1)
    BY <1>3, <1>4
  <1>6. Holds(L, a, e)
    BY <1>3, <1>4 DEF Holds
  <1>7. L[b] = Separator
    BY <1>3, <1>4, <1>5 DEF Holds
  <1> QED BY <1>5, <1>6, <1>7 DEF e, a, b, L

LEMMA FieldLast ==
    ASSUME NEW es \in Seq(Text), es # <<>>
    PROVE  /\ Len(JoinFields(es)) = Offset(es, Len(es) - 1) + Len(es[Len(es)])
           /\ Holds(JoinFields(es), Offset(es, Len(es) - 1), es[Len(es)])
  <1>1. Len(es) \in 1 .. Len(es)
    OBVIOUS
  <1>2. FieldPart(es, Len(es)) = es[Len(es)]
    BY DEF FieldPart
  <1>3. Offset(es, Len(es)) = Len(JoinFields(es))
    BY FieldPartsTyped DEF Offset
  <1> QED BY <1>1, <1>2, <1>3, OffsetNext

LEMMA HoldsInside ==
    ASSUME NEW t \in Text, NEW u \in Text, NEW s \in Text, NEW a \in Nat, NEW b \in Nat,
           Holds(t, a, u), Holds(u, b, s)
    PROVE  Holds(t, a + b, s)
  <1>1. Len(s) \in Nat /\ Len(u) \in Nat /\ Len(t) \in Nat
    BY DEF Text
  <1>2. a + Len(u) <= Len(t) /\ b + Len(s) <= Len(u)
    BY DEF Holds
  <1>3. ASSUME NEW j \in 1 .. Len(s) PROVE t[(a + b) + j] = s[j]
    <2>1. b + j \in 1 .. Len(u) /\ (a + b) + j = a + (b + j)
      BY <1>1, <1>2
    <2> QED BY <2>1 DEF Holds
  <1>4. (a + b) + Len(s) <= Len(t)
    BY <1>1, <1>2
  <1> QED BY <1>3, <1>4 DEF Holds

BeginsQuoted(e) == e # <<>> /\ e[1] = Quote

\* Where a field is in a text that holds the line from behind the first p on, and
\* what follows the field.
FieldAt(t, p, es, f) ==
    LET a == p + Offset(es, f - 1)
        b == a + Len(es[f])
    IN  /\ a \in p .. Len(t) /\ Holds(t, a, es[f])
        /\ b \in a .. Len(t) /\ b < Len(t)
        /\ t[b + 1] \in {Separator, Newline}
        /\ f < Len(es) => t[b + 1] = Separator /\ p + Offset(es, f) = b + 1
        /\ f = Len(es) => b = p + Len(JoinFields(es))
        /\ t[a + 1] = Quote <=> BeginsQuoted(es[f])

LEMMA QuoteBegins ==
    ASSUME NEW t \in Text, NEW a \in Nat, NEW e \in Text, Holds(t, a, e),
           t[a + Len(e) + 1] \in {Separator, Newline}
    PROVE  t[a + 1] = Quote <=> BeginsQuoted(e)
  <1>1. Len(e) \in Nat /\ (Len(e) = 0 <=> e = <<>>)
    BY DEF Text
  <1>2. CASE Len(e) = 0
    <2>1. a + Len(e) + 1 = a + 1
      BY <1>2
    <2> QED BY <2>1, <1>1, <1>2, CharsDiffer DEF BeginsQuoted
  <1>3. CASE Len(e) # 0
    <2>1. 1 \in 1 .. Len(e)
      BY <1>1, <1>3
    <2>2. t[a + 1] = e[1]
      BY <2>1 DEF Holds
    <2> QED BY <2>2, <1>1, <1>3 DEF BeginsQuoted
  <1> QED BY <1>2, <1>3

\* The text holds a line that ends there.
LineAt(t, p, line) == /\ Holds(t, p, line) /\ p + Len(line) < Len(t)
                      /\ t[p + Len(line) + 1] \in {Separator, Newline}

LEMMA FieldFound ==
    ASSUME NEW t \in Text, NEW p \in Nat, NEW es \in Seq(Text), es # <<>>,
           LineAt(t, p, JoinFields(es)), NEW f \in 1 .. Len(es)
    PROVE  FieldAt(t, p, es, f)
  <1> DEFINE L == JoinFields(es)
             e == es[f]
             o == Offset(es, f - 1)
             a == p + o
             b == a + Len(e)
  <1>1. L \in Text /\ e \in Text /\ Len(L) \in Nat /\ Len(e) \in Nat /\ Len(t) \in Nat
    BY JoinFieldsTyped DEF Text
  <1>2. f - 1 \in 0 .. Len(es) /\ f \in 0 .. Len(es)
    OBVIOUS
  <1>3. o \in 0 .. Len(L) /\ Offset(es, f) \in 0 .. Len(L)
    BY <1>2, OffsetTyped
  <1>4. Holds(L, o, e)
    <2>1. CASE f < Len(es)
      <3>1. f \in 1 .. Len(es) - 1
        BY <2>1
      <3> QED BY <3>1, FieldInside
    <2>2. CASE f = Len(es)
      BY <2>2, FieldLast
    <2> QED BY <2>1, <2>2
  <1>5. Holds(t, a, e)
    <2>2. Holds(t, p, L)
      BY DEF LineAt
    <2> HIDE DEF L, e, o
    <2>1. o \in Nat
      BY <1>1, <1>3
    <2> QED BY <1>1, <1>4, <2>1, <2>2, HoldsInside
  <1>6. CASE f < Len(es)
    <2>1. f \in 1 .. Len(es) - 1
      BY <1>6
    <2>2. Offset(es, f) = o + Len(e) + 1 /\ L[Offset(es, f)] = Separator
      BY <2>1, FieldInside
    <2> HIDE DEF L, e, o
    <2>3. b + 1 = p + Offset(es, f) /\ Offset(es, f) \in 1 .. Len(L)
      BY <1>1, <1>3, <2>2
    <2>4. t[b + 1] = Separator
      BY <2>2, <2>3 DEF Holds, LineAt, L
    <2>5. p + Len(L) < Len(t)
      BY DEF LineAt, L
    <2>6. a \in p .. Len(t) /\ b \in a .. Len(t) /\ b < Len(t)
      BY <1>1, <1>3, <2>2, <2>5
    <2>7. t[a + 1] = Quote <=> BeginsQuoted(e)
      <3>1. a \in Nat /\ a + Len(e) + 1 = b + 1
        BY <1>1, <1>3
      <3> HIDE DEF a, b
      <3>2. t[a + Len(e) + 1] \in {Separator, Newline}
        BY <2>4, <3>1
      <3> QED BY <3>1, <3>2, <1>1, <1>5, QuoteBegins
    <2> QED BY <1>5, <1>6, <2>3, <2>4, <2>6, <2>7 DEF FieldAt, e, o
  <1>7. CASE f = Len(es)
    <2>1. Len(L) = o + Len(e)
      BY <1>7, FieldLast
    <2>2. p + Len(L) < Len(t) /\ t[p + Len(L) + 1] \in {Separator, Newline}
      BY DEF LineAt
    <2> HIDE DEF L, e, o
    <2>3. b = p + Len(L)
      BY <1>1, <1>3, <2>1
    <2>4. a \in p .. Len(t) /\ b \in a .. Len(t) /\ b < Len(t)
      BY <1>1, <1>3, <2>1, <2>2
    <2>5. t[b + 1] \in {Separator, Newline}
      BY <2>2, <2>3
    <2>6. t[a + 1] = Quote <=> BeginsQuoted(e)
      <3>1. a \in Nat /\ a + Len(e) + 1 = b + 1
        BY <1>1, <1>3
      <3> HIDE DEF a, b
      <3>2. t[a + Len(e) + 1] \in {Separator, Newline}
        BY <2>5, <3>1
      <3> QED BY <3>1, <3>2, <1>1, <1>5, QuoteBegins
    <2> QED BY <1>5, <1>7, <2>3, <2>4, <2>5, <2>6 DEF FieldAt, e, o, L
  <1> QED BY <1>6, <1>7

\* What the fields of a line stand for; a line that begins with a blank field is
\* read well only if no text begins with a quote and no blank one is quoted.
Encoded(es, r) ==
    /\ es \in Seq(Text) /\ r \in Seq(Text) /\ Len(es) = Len(r) /\ es # <<>>
    /\ \A f \in 1 .. Len(es) : Encodes(es[f], r[f])
    /\ \/ es[1] # <<>>
       \/ \A f \in 1 .. Len(es) : IF r[f] = <<>> THEN es[f] = <<>> ELSE r[f][1] # Quote

LEMMA EncodesIs ==
    ASSUME NEW e \in Text, NEW s \in Text, Encodes(e, s)
    PROVE  IF BeginsQuoted(e) THEN e = Enclosed(s) ELSE e = s /\ Bare(s)
  <1>1. Enclosed(s)[1] = Quote /\ Enclosed(s) # <<>>
    <2>1. Len(Enclosed(s)) = Len(Doubled(s)) + 2 /\ Len(Doubled(s)) \in Nat
      BY EnclosedIs, DoubledTyped DEF Text
    <2>2. Len(Enclosed(s)) # 0
      BY <2>1
    <2> QED BY <2>2, EnclosedIs
  <1> QED BY <1>1 DEF Encodes, BeginsQuoted, Bare

LEMMA ReadUnquoted ==
    ASSUME NEW file \in Text, NEW p \in 1 .. Len(file) + 1, NEW a \in p - 1 .. Len(file),
           NEW e \in Text, Bare(e), Holds(file, a, e), Outside(Reading(file, p)[a]),
           NEW b, b = a + Len(e)
    PROVE  /\ Outside(Reading(file, p)[b])
           /\ Reading(file, p)[b].start => Reading(file, p)[a].start /\ e = <<>>
  BY ReadBare

\* The loop is at the start of a field: of the line, or behind a separator.
AtField(r, e, s) ==
    \/ Outside(r) /\ r.start
    \/ IF BeginsQuoted(e) THEN Opening(r) /\ (r.start => s # <<>> /\ s[1] # Quote)
                          ELSE Outside(r)

LEMMA ReadField ==
    ASSUME NEW file \in Text, NEW p \in 1 .. Len(file) + 1, NEW a \in p - 1 .. Len(file),
           NEW e \in Text, NEW s \in Text, Encodes(e, s), Holds(file, a, e),
           AtField(Reading(file, p)[a], e, s),
           NEW b, b = a + Len(e), b < Len(file), file[b + 1] \in {Separator, Newline}
    PROVE  /\ Outside(Reading(file, p)[b])
           /\ Reading(file, p)[b].start => Reading(file, p)[a].start /\ e = <<>>
  <1>1. CASE BeginsQuoted(e)
    <2>1. e = Enclosed(s)
      BY <1>1, EncodesIs
    <2>2. \/ Outside(Reading(file, p)[a]) /\ Reading(file, p)[a].start
          \/ /\ Opening(Reading(file, p)[a])
             /\ Reading(file, p)[a].start => s # <<>> /\ s[1] # Quote
      BY <1>1 DEF AtField
    <2> QED BY <2>1, <2>2, ReadEnclosed
  <1>2. CASE ~BeginsQuoted(e)
    <2>1. Bare(e)
      BY <1>2, EncodesIs
    <2>2. Outside(Reading(file, p)[a])
      BY <1>2 DEF AtField
    <2> QED BY <2>1, <2>2, ReadUnquoted
  <1> QED BY <1>1, <1>2

LEMMA SeparatorRead ==
    ASSUME NEW file \in Text, NEW p \in 1 .. Len(file) + 1, NEW q \in p .. Len(file),
           q < Len(file), Outside(Reading(file, p)[q - 1]), file[q] = Separator,
           NEW e \in Text, NEW s \in Text, file[q + 1] = Quote <=> BeginsQuoted(e),
           Reading(file, p)[q - 1].start => IF s = <<>> THEN e = <<>> ELSE s[1] # Quote
    PROVE  /\ AtField(Reading(file, p)[q], e, s)
           /\ Reading(file, p)[q].start = Reading(file, p)[q - 1].start
  <1>1. Reading(file, p)[q - 1] \in ReadState
        /\ Reading(file, p)[q] = ReadChar(Reading(file, p)[q - 1], file, q)
    BY ReadingStep
  <1>2. Ahead(file, q) = Quote <=> BeginsQuoted(e)
    BY DEF Ahead
  <1>3. q \in 1 .. Len(file)
    OBVIOUS
  <1> DEFINE x == Reading(file, p)[q - 1]
             y == Reading(file, p)[q]
  <1>4. /\ y.start = x.start
        /\ Ahead(file, q) = Quote => Opening(y)
        /\ Ahead(file, q) # Quote => Outside(y)
    <2>1. x \in ReadState /\ y = ReadChar(x, file, q) /\ Outside(x)
      BY <1>1
    <2> HIDE DEF x, y
    <2> QED BY <2>1, <1>3, OutsideSeparator
  <1>5. x.start => IF s = <<>> THEN e = <<>> ELSE s[1] # Quote
    OBVIOUS
  <1> HIDE DEF x, y
  <1>6. BeginsQuoted(e) /\ y.start => s # <<>> /\ s[1] # Quote
    BY <1>4, <1>5 DEF BeginsQuoted
  <1>7. AtField(y, e, s)
    BY <1>2, <1>4, <1>6 DEF AtField
  <1> QED BY <1>4, <1>7 DEF x, y

\* The loop has read all the fields of a line.
LEMMA ReadFields ==
    ASSUME NEW file \in Text, NEW p \in 1 .. Len(file) + 1, NEW es \in Seq(Text),
           NEW r \in Seq(Text), Encoded(es, r), LineAt(file, p - 1, JoinFields(es))
    PROVE  Outside(Reading(file, p)[p - 1 + Len(JoinFields(es))])
  <1> DEFINE R == Reading(file, p)
             n == Len(es)
             o == p - 1
             at[f \in 1 .. n] == o + Offset(es, f - 1)
             T == {f \in 1 .. n : /\ AtField(R[at[f]], es[f], r[f])
                                  /\ R[at[f]].start => f = 1 \/ es[1] = <<>>}
  <1>1. n \in Nat /\ n >= 1 /\ 1 \in Nat /\ o \in Nat /\ p \in Nat /\ o + 1 = p /\ 1 \in 1 .. n
    <2>1. es # <<>>
      BY DEF Encoded
    <2>2. n \in Nat /\ n >= 1
      BY <2>1
    <2>3. p \in Nat /\ p >= 1
      BY DEF Text
    <2> HIDE DEF n
    <2> QED BY <2>2, <2>3
  <1>2. ASSUME NEW f \in 1 .. n
        PROVE  /\ FieldAt(file, o, es, f) /\ es[f] \in Text /\ r[f] \in Text
               /\ Encodes(es[f], r[f])
    <2>1. FieldAt(file, o, es, f)
      BY <1>1, FieldFound DEF Encoded
    <2> QED BY <2>1 DEF Encoded
  <1>3. \A f \in 1 .. n : es[1] = <<>> => IF r[f] = <<>> THEN es[f] = <<>> ELSE r[f][1] # Quote
    BY DEF Encoded
  <1>4. \A f \in 1 .. n : at[f] = o + Offset(es, f - 1)
    OBVIOUS
  <1> HIDE DEF at, R, n, T
  <1>5. 1 \in T
    <2>1. Offset(es, 1 - 1) = 0
      BY OffsetFirst
    <2>2. at[1] = o
      BY <1>1, <1>4, <2>1
    <2>3. R[o] = ReadStart
      BY ReadingIs DEF R
    <2>4. Outside(R[o]) /\ R[o].start
      BY <2>3 DEF Outside, ReadStart
    <2>5. AtField(R[at[1]], es[1], r[1])
      BY <2>2, <2>4 DEF AtField
    <2> QED BY <1>1, <2>5 DEF T
  <1> HIDE DEF o
  <1>6. ASSUME NEW f \in 1 .. n, f \in T
        PROVE  /\ Outside(R[at[f] + Len(es[f])])
               /\ R[at[f] + Len(es[f])].start => es[1] = <<>>
               /\ at[f] \in p - 1 .. Len(file)
               /\ at[f] + Len(es[f]) \in at[f] .. Len(file)
    <2> DEFINE a == at[f]
               e == es[f]
    <2>1. /\ a \in o .. Len(file) /\ Holds(file, a, e) /\ a + Len(e) < Len(file)
          /\ file[a + Len(e) + 1] \in {Separator, Newline}
          /\ a + Len(e) \in a .. Len(file)
      BY <1>2, <1>4 DEF FieldAt
    <2>2. a \in p - 1 .. Len(file)
      BY <1>1, <2>1
    <2>3. e \in Text /\ r[f] \in Text /\ Encodes(e, r[f])
      BY <1>2
    <2>4. AtField(R[a], e, r[f]) /\ (R[a].start => f = 1 \/ es[1] = <<>>)
      BY <1>6 DEF T
    <2> DEFINE b == a + Len(e)
    <2>5. f = 1 => e = es[1]
      OBVIOUS
    <2> HIDE DEF a
    <2>6. b = a + Len(e) /\ b < Len(file) /\ file[b + 1] \in {Separator, Newline}
      BY <2>1
    <2> HIDE DEF e, b
    <2>7. /\ Outside(R[b])
          /\ R[b].start => R[a].start /\ e = <<>>
      <3> DEFINE s == r[f]
      <3>1. s \in Text /\ Encodes(e, s) /\ AtField(Reading(file, p)[a], e, s)
        BY <2>3, <2>4 DEF R
      <3>2. Holds(file, a, e)
        BY <2>1
      <3> HIDE DEF s
      <3>4. \A c : c = a + Len(e) /\ c < Len(file) /\ file[c + 1] \in {Separator, Newline}
                   => /\ Outside(Reading(file, p)[c])
                      /\ Reading(file, p)[c].start => Reading(file, p)[a].start /\ e = <<>>
        BY <2>2, <2>3, <3>1, <3>2, ReadField, SMTT(30)
      <3>3. /\ Outside(Reading(file, p)[b])
            /\ Reading(file, p)[b].start => Reading(file, p)[a].start /\ e = <<>>
        BY <2>6, <3>4, Zenon
      <3> QED BY <3>3 DEF R
    <2> QED BY <2>1, <2>2, <2>4, <2>5, <2>7 DEF a, b, e
  <1>7. ASSUME NEW f \in 1 .. n - 1, f \in T PROVE f + 1 \in T
    <2> DEFINE g == f + 1
               b == at[f] + Len(es[f])
               q == at[g]
    <2>1. f \in 1 .. n /\ g \in 1 .. n /\ f < n /\ g - 1 = f /\ g # 1
      BY <1>1
    <2>2. /\ Outside(R[b]) /\ (R[b].start => es[1] = <<>>)
          /\ at[f] \in p - 1 .. Len(file) /\ b \in at[f] .. Len(file)
      BY <1>6, <1>7, <2>1
    <2>3. file[b + 1] = Separator /\ q = b + 1
      <3>1. FieldAt(file, o, es, f) /\ at[f] = o + Offset(es, f - 1) /\ f < Len(es)
        BY <1>2, <1>4, <2>1 DEF n
      <3>2. q = o + Offset(es, f)
        BY <1>4, <2>1
      <3> HIDE DEF q, g
      <3> QED BY <3>1, <3>2 DEF FieldAt
    <2>4. /\ q \in o .. Len(file) /\ q + Len(es[g]) < Len(file)
          /\ file[q + 1] = Quote <=> BeginsQuoted(es[g])
      <3>1. FieldAt(file, o, es, g) /\ q = o + Offset(es, g - 1)
        BY <1>2, <1>4, <2>1
      <3> HIDE DEF q, g
      <3> QED BY <3>1 DEF FieldAt
    <2>5. es[g] \in Text /\ r[g] \in Text
      BY <1>2, <2>1
    <2>6. R[b].start => IF r[g] = <<>> THEN es[g] = <<>> ELSE r[g][1] # Quote
      BY <1>3, <2>1, <2>2
    <2>7. q \in p .. Len(file) /\ q < Len(file) /\ q - 1 = b
      <3>1. Len(es[g]) \in Nat
        BY <2>5 DEF Text
      <3> HIDE DEF q, g, b
      <3>2. Len(file) \in Nat
        BY DEF Text
      <3>3. b \in Nat /\ b >= p - 1 /\ q = b + 1
        BY <3>2, <1>1, <2>2, <2>3
      <3>4. q + Len(es[g]) < Len(file)
        BY <2>4
      <3>5. q < Len(file)
        <4> DEFINE m == Len(es[g])
        <4>1. m \in Nat /\ q + m < Len(file)
          BY <3>1, <3>4
        <4> HIDE DEF m
        <4> QED BY <4>1, <3>2, <3>3
      <3>6. q >= p /\ q \in Nat /\ q - 1 = b
        BY <3>3, <1>1
      <3> QED BY <3>2, <3>5, <3>6, <1>1
    <2> HIDE DEF q, b, g
    <2>8. Outside(R[q - 1]) /\ (R[q - 1].start => IF r[g] = <<>> THEN es[g] = <<>> ELSE r[g][1] # Quote)
      BY <2>2, <2>6, <2>7
    <2>9. AtField(R[q], es[g], r[g]) /\ R[q].start = R[q - 1].start
      <3> DEFINE e == es[g]
                 s == r[g]
      <3>1. e \in Text /\ s \in Text /\ (file[q + 1] = Quote <=> BeginsQuoted(e))
            /\ (R[q - 1].start => IF s = <<>> THEN e = <<>> ELSE s[1] # Quote)
        BY <2>4, <2>5, <2>8
      <3>2. file[q] = Separator
        BY <2>3
      <3> HIDE DEF e, s
      <3>3. AtField(R[q], e, s) /\ R[q].start = R[q - 1].start
        BY <3>1, <3>2, <2>7, <2>8, SeparatorRead DEF R
      <3> QED BY <3>3 DEF e, s
    <2>10. R[q].start => es[1] = <<>>
      BY <2>2, <2>7, <2>9
    <2>11. g \in T
      BY <2>1, <2>9, <2>10 DEF T, q
    <2> QED BY <2>11 DEF g
  <1>8. n \in 1 .. n /\ n \in T
    <2>1. \A f \in 1 .. n : f \in T
      BY <1>1, <1>5, <1>7, Upwards
    <2> QED BY <1>1, <2>1
  <1>9. Outside(R[at[n] + Len(es[n])])
    BY <1>6, <1>8
  <1>10. at[n] + Len(es[n]) = o + Len(JoinFields(es))
    <2>1. FieldAt(file, o, es, n) /\ n = Len(es)
      BY <1>2, <1>8 DEF n
    <2> QED BY <2>1, <1>4, <1>8 DEF FieldAt
  <1> QED BY <1>9, <1>10 DEF R, o

LEMMA HeldIs ==
    ASSUME NEW t \in Text, NEW a \in Nat, NEW s \in Text, Holds(t, a, s)
    PROVE  SubSeq(t, a + 1, a + Len(s)) = s
  <1> DEFINE u == SubSeq(t, a + 1, a + Len(s))
  <1>1. a + Len(s) <= Len(t) /\ \A j \in 1 .. Len(s) : t[a + j] = s[j]
    BY DEF Holds
  <1>2. t \in Seq(Chars) /\ s \in Seq(Chars)
    BY DEF Text
  <1>3. u \in Seq(Chars) /\ Len(u) = Len(s)
    BY <1>1, <1>2
  <1>4. \A j \in 1 .. Len(s) : u[j] = t[a + j]
    BY <1>1, <1>2
  <1> HIDE DEF u
  <1>5. \A j \in 1 .. Len(s) : u[j] = s[j]
    BY <1>1, <1>4
  <1>6. u = s
    BY <1>2, <1>3, <1>5
  <1> QED BY <1>6 DEF u

\* The loop stops at the end of the line.
LEMMA ReadingStays ==
    ASSUME NEW file \in Text, NEW p \in 1 .. Len(file) + 1, NEW e \in p - 1 .. Len(file),
           Reading(file, p)[e].next # 0, NEW m \in e .. Len(file)
    PROVE  Reading(file, p)[m] = Reading(file, p)[e]
  <1> DEFINE R == Reading(file, p)
             n == Len(file)
             T == {i \in e .. n : R[i] = R[e]}
  <1>1. n \in Nat /\ p \in Nat /\ p >= 1 /\ e \in Nat /\ e >= p - 1
    BY DEF Text
  <1>2. e \in T
    BY <1>1
  <1>3. \A i \in e .. n - 1 : i \in T => i + 1 \in T
    <2> SUFFICES ASSUME NEW i \in e .. n - 1, i \in T PROVE i + 1 \in T
      OBVIOUS
    <2> DEFINE j == i + 1
    <2>1. j \in p .. Len(file) /\ j - 1 = i /\ j \in e .. n
      BY <1>1
    <2>2. R[i] = R[e] /\ R[e].next # 0
      OBVIOUS
    <2> HIDE DEF j, n, T
    <2>3. R[j] = ReadChar(R[i], file, j)
      BY <2>1, ReadingStep
    <2> HIDE DEF R
    <2>4. R[j] = R[e]
      BY <2>2, <2>3, ReadOver
    <2> QED BY <2>1, <2>4 DEF T, j
  <1> HIDE DEF R, T
  <1>4. \A i \in e .. n : i \in T
    BY <1>1, <1>2, <1>3, Upwards
  <1> QED BY <1>4 DEF T, R

\* A line and the end of it.
LEMMA ReadWhole ==
    ASSUME NEW file \in Text, NEW p \in 1 .. Len(file) + 1, NEW es \in Seq(Text),
           NEW r \in Seq(Text), Encoded(es, r), LineAt(file, p - 1, JoinFields(es)),
           NEW e, e = p + Len(JoinFields(es)), file[e] = Newline
    PROVE  /\ ReadLine(file, p).ok /\ ReadLine(file, p).line = JoinFields(es)
           /\ ReadLine(file, p).next = e + 1
  <1> DEFINE R == Reading(file, p)
             L == JoinFields(es)
             n == Len(file)
  <1>1. Outside(R[p - 1 + Len(L)])
    BY ReadFields
  <1>2. L \in Text /\ Len(L) \in Nat /\ n \in Nat /\ p \in Nat /\ p >= 1
    BY JoinFieldsTyped DEF Text
  <1>3. p - 1 + Len(L) < n /\ Holds(file, p - 1, L)
    BY DEF LineAt
  <1>4. file[e] = Newline /\ e = p + Len(L)
    OBVIOUS
  <1> HIDE DEF L, n
  <1>5. e \in p .. n /\ e \in 1 .. n /\ e - 1 = p - 1 + Len(L) /\ e \in p - 1 .. n /\ n \in e .. n
        /\ e + 1 # 0 /\ (p - 1) + 1 = p /\ (e + 1) - 2 = (p - 1) + Len(L) /\ p - 1 \in Nat
        /\ n \in p - 1 .. n
    BY <1>2, <1>3, <1>4
  <1>6. R[e - 1] \in ReadState /\ R[e] = ReadChar(R[e - 1], file, e)
    BY <1>5, ReadingStep DEF n
  <1> HIDE DEF R
  <1>7. R[e].next = e + 1 /\ ~R[e].escaped
    <2>1. Outside(R[e - 1])
      BY <1>1, <1>5
    <2> QED BY <2>1, <1>4, <1>5, <1>6, ReadEnd DEF Outside, n
  <1>8. R[n] = R[e]
    BY <1>5, <1>7, ReadingStays DEF R, n
  <1>9. LineTo(R[n], file, p, n)
    BY <1>5, ReadingLine DEF R, n
  <1>10. R[n].line = SubSeq(file, p, (e + 1) - 2)
    BY <1>5, <1>7, <1>8, <1>9 DEF LineTo
  <1>11. SubSeq(file, p, (e + 1) - 2) = L
    <2>1. SubSeq(file, (p - 1) + 1, (p - 1) + Len(L)) = L
      BY <1>2, <1>3, <1>5, HeldIs
    <2> QED BY <2>1, <1>5
  <1>12. /\ ReadLine(file, p).ok = ~(R[n].next = 0 /\ R[n].escaped)
         /\ ReadLine(file, p).line = R[n].line /\ ReadLine(file, p).next = R[n].next
    BY DEF ReadLine, R, n
  <1>13. ReadLine(file, p).ok /\ ReadLine(file, p).line = L /\ ReadLine(file, p).next = e + 1
    BY <1>7, <1>8, <1>10, <1>11, <1>12
  <1> QED BY <1>13 DEF L

\* Nothing is left to read.
LEMMA ReadNothing ==
    ASSUME NEW file \in Text
    PROVE  ReadLine(file, Len(file) + 1).ok /\ ReadLine(file, Len(file) + 1).next = 0
  <1> DEFINE p == Len(file) + 1
  <1>1. p \in 1 .. Len(file) + 1 /\ p - 1 = Len(file)
    BY DEF Text
  <1>2. Reading(file, p)[Len(file)] = ReadStart
    <2> HIDE DEF p
    <2>1. Reading(file, p)[p - 1] = ReadStart
      BY <1>1, ReadingIs
    <2> QED BY <2>1, <1>1
  <1> DEFINE x == Reading(file, p)[Len(file)]
  <1>3. x.next = 0 /\ ~x.escaped
    <2> HIDE DEF p
    <2> QED BY <1>2 DEF ReadStart
  <1> HIDE DEF p
  <1>4. /\ ReadLine(file, p).ok = ~(x.next = 0 /\ x.escaped)
        /\ ReadLine(file, p).next = x.next
    BY DEF ReadLine
  <1>5. ReadLine(file, p).ok /\ ReadLine(file, p).next = 0
    <2> HIDE DEF x
    <2> QED BY <1>3, <1>4
  <1> QED BY <1>5 DEF p

\* A file that is cut off in a line: the loop reads what it would have read of
\* the whole file, but for what it sees behind the last character.
LEMMA ReadingCut ==
    ASSUME NEW file \in Text, NEW all \in Text, Holds(all, 0, file),
           NEW p \in 1 .. Len(file) + 1
    PROVE  \A i \in p - 1 .. Len(file) :
              (i = p - 1 \/ i < Len(file)) => Reading(file, p)[i] = Reading(all, p)[i]
  <1> DEFINE R == Reading(file, p)
             A == Reading(all, p)
             n == Len(file)
             b == p - 1
             T == {i \in b .. n : (i = b \/ i < n) => R[i] = A[i]}
  <1>1. n \in Nat /\ b \in Nat /\ n <= Len(all) /\ Len(all) \in Nat /\ b + 1 = p /\ b <= n
    BY DEF Text, Holds
  <1>2. p \in 1 .. Len(all) + 1
    BY <1>1
  <1>3. b \in T
    <2>1. R[b] = ReadStart /\ A[b] = ReadStart
      BY <1>2, ReadingIs
    <2> HIDE DEF R, A, b
    <2> QED BY <1>1, <2>1
  <1>4. \A i \in b .. n - 1 : i \in T => i + 1 \in T
    <2> SUFFICES ASSUME NEW i \in b .. n - 1, i \in T PROVE i + 1 \in T
      OBVIOUS
    <2> DEFINE j == i + 1
    <2>1. j \in p .. n /\ j \in p .. Len(all) /\ j - 1 = i /\ j \in b .. n /\ i < n /\ j # b
      BY <1>1
    <2>2. R[i] = A[i]
      BY <2>1
    <2> SUFFICES ASSUME j < n PROVE R[j] = A[j]
      BY <2>1
    <2>3. j + 1 \in 1 .. n /\ j \in 1 .. n /\ j < Len(all) /\ 0 + j = j /\ 0 + (j + 1) = j + 1
      BY <1>1, <2>1
    <2> HIDE DEF j
    <2>4. R[j] = ReadChar(R[i], file, j)
      BY <2>1, ReadingStep
    <2>5. A[j] = ReadChar(A[i], all, j)
      BY <1>2, <2>1, ReadingStep
    <2>6. all[j] = file[j] /\ all[j + 1] = file[j + 1]
      BY <2>3 DEF Holds
    <2> HIDE DEF R, A, T
    <2>7. ReadChar(R[i], file, j) = ReadChar(R[i], all, j)
      BY <2>3, <2>6 DEF ReadChar, n
    <2> QED BY <2>2, <2>4, <2>5, <2>7
  <1> HIDE DEF T, R, A
  <1>5. \A i \in b .. n : i \in T
    <2> HIDE DEF b, n
    <2> QED BY <1>1, <1>3, <1>4, Upwards
  <1> QED BY <1>5 DEF T, R, A

\* So it finds no end of the line where there was none.
LEMMA ReadCut ==
    ASSUME NEW file \in Text, NEW all \in Text, Holds(all, 0, file),
           NEW p \in 1 .. Len(file) + 1, Reading(all, p)[Len(file)].next = 0
    PROVE  ReadLine(file, p).next = 0
  <1> DEFINE R == Reading(file, p)
             A == Reading(all, p)
             n == Len(file)
  <1>1. n \in Nat /\ p \in Nat /\ n <= Len(all) /\ Len(all) \in Nat /\ p >= 1 /\ p <= n + 1
    BY DEF Text, Holds
  <1>2. ReadLine(file, p).next = R[n].next
    BY DEF ReadLine
  <1>3. A[n].next = 0
    OBVIOUS
  <1>4. CASE n = p - 1
    <2>1. n \in p - 1 .. n
      BY <1>1
    <2>2. R[n] = A[n]
      BY <1>4, <2>1, ReadingCut
    <2> HIDE DEF R, A, n
    <2> QED BY <1>2, <1>3, <2>2
  <1>5. CASE n # p - 1
    <2>1. /\ n - 1 \in p - 1 .. n /\ n - 1 < n /\ n \in p .. n /\ n \in p .. Len(all)
          /\ p \in 1 .. Len(all) + 1 /\ n \in 1 .. Len(all) /\ n \in 1 .. n /\ 0 + n = n
      BY <1>1, <1>5
    <2>2. R[n - 1] = A[n - 1]
      BY <2>1, ReadingCut
    <2>3. R[n - 1] \in ReadState /\ R[n] = ReadChar(R[n - 1], file, n)
      BY <2>1, ReadingStep
    <2>4. A[n] = ReadChar(A[n - 1], all, n)
      BY <2>1, ReadingStep
    <2>5. all[n] = file[n]
      BY <2>1 DEF Holds
    <2> HIDE DEF R, A
    <2>6. R[n].next = 0
      <3> DEFINE x == R[n - 1]
      <3>1. x \in ReadState /\ A[n] = ReadChar(x, all, n) /\ R[n] = ReadChar(x, file, n)
        BY <2>2, <2>3, <2>4
      <3> HIDE DEF x
      <3>2. CASE x.next # 0
        BY <3>1, <3>2, <1>3, ReadOver
      <3>3. CASE x.next = 0 /\ file[n] = Newline /\ ~x.escaped /\ ~x.skip
        <4> HIDE DEF n
        <4>1. A[n].next = n + 1
          BY <3>1, <3>3, <2>1, <2>5, ReadEnd
        <4> QED BY <4>1, <1>1, <1>3
      <3>4. CASE x.next = 0 /\ (file[n] = Newline => x.escaped \/ x.skip)
        BY <3>1, <3>4, <2>1, ReadOn
      <3> QED BY <3>2, <3>3, <3>4
    <2> QED BY <1>2, <2>6
  <1> QED BY <1>4, <1>5

LEMMA ReadCutLine ==
    ASSUME NEW file \in Text, NEW all \in Text, Holds(all, 0, file),
           NEW p \in 1 .. Len(file) + 1, NEW es \in Seq(Text), NEW r \in Seq(Text),
           Encoded(es, r), LineAt(all, p - 1, JoinFields(es)),
           NEW b, b = p - 1 + Len(JoinFields(es)), Len(file) <= b
    PROVE  ReadLine(file, p).next = 0
  <1> DEFINE A == Reading(all, p)
             n == Len(file)
  <1>1. n \in Nat /\ p \in Nat /\ n <= Len(all) /\ Len(all) \in Nat /\ p >= 1 /\ p <= n + 1
    BY DEF Text, Holds
  <1>2. p \in 1 .. Len(all) + 1 /\ n \in p - 1 .. Len(all)
    BY <1>1
  <1>3. A[b].next = 0
    <2>1. Outside(A[b])
      BY <1>2, ReadFields
    <2> HIDE DEF A
    <2> QED BY <2>1 DEF Outside
  <1>4. b \in n .. Len(all)
    <2>1. b < Len(all) /\ Len(JoinFields(es)) \in Nat
      BY JoinFieldsTyped DEF LineAt, Text
    <2> QED BY <1>1, <2>1
  <1>5. A[n].next = 0
    <2> SUFFICES ASSUME A[n].next # 0 PROVE FALSE
      OBVIOUS
    <2>1. A[b] = A[n]
      <3> HIDE DEF n
      <3> QED BY <1>2, <1>4, ReadingStays
    <2> HIDE DEF A, n
    <2> QED BY <1>3, <2>1
  <1> QED BY <1>5, ReadCut

-----------------------------------------------------------------------------
(***************************************************************************)
(* parseLine, in a field.                                                   *)
(***************************************************************************)
Stands(x, escaped, skip, buffer, fields) ==
    /\ x.ok /\ x.escaped = escaped /\ x.skip = skip
    /\ x.buffer = buffer /\ x.fields = fields

LEMMA ParseSkipped ==
    ASSUME NEW line \in Text, NEW i \in 1 .. Len(line), NEW n \in Nat, NEW x \in ParseState,
           NEW buffer \in Text, NEW fields \in Seq(Text), Stands(x, TRUE, TRUE, buffer, fields)
    PROVE  Stands(ParseChar(x, line, i, n), TRUE, FALSE, buffer, fields)
  BY DEF ParseChar, ParseState, Stands

LEMMA ParseFirst ==
    ASSUME NEW line \in Text, NEW i \in 1 .. Len(line), NEW n \in Nat, NEW x \in ParseState,
           NEW buffer \in Text, NEW fields \in Seq(Text), Stands(x, FALSE, FALSE, buffer, fields),
           line[i] = Quote, i = 1
    PROVE  Stands(ParseChar(x, line, i, n), TRUE, FALSE, <<Quote>>, fields)
  BY CharsDiffer DEF ParseChar, ParseState, Stands

LEMMA ParsePair ==
    ASSUME NEW line \in Text, NEW i \in 1 .. Len(line), NEW n \in Nat, NEW x \in ParseState,
           NEW buffer \in Text, NEW fields \in Seq(Text), Stands(x, TRUE, FALSE, buffer, fields),
           line[i] = Quote, i # 1, Follows(line, i) = Quote
    PROVE  Stands(ParseChar(x, line, i, n), TRUE, TRUE, buffer \o <<Quote, Quote>>, fields)
  BY CharsDiffer DEF ParseChar, ParseState, Stands, Follows

LEMMA ParseClosing ==
    ASSUME NEW line \in Text, NEW i \in 1 .. Len(line), NEW n \in Nat, NEW x \in ParseState,
           NEW buffer \in Text, NEW fields \in Seq(Text), Stands(x, TRUE, FALSE, buffer, fields),
           line[i] = Quote, i # 1, Follows(line, i) = Separator
    PROVE  Stands(ParseChar(x, line, i, n), FALSE, FALSE, Append(buffer, Quote), fields)
  BY CharsDiffer DEF ParseChar, ParseState, Stands, Follows

LEMMA ParseSeparator ==
    ASSUME NEW line \in Text, NEW i \in 1 .. Len(line), NEW n \in Nat, NEW x \in ParseState,
           NEW buffer \in Text, NEW fields \in Seq(Text), Stands(x, FALSE, FALSE, buffer, fields),
           line[i] = Separator, Len(fields) # n
    PROVE  IF Follows(line, i) = Quote
           THEN Stands(ParseChar(x, line, i, n), TRUE, TRUE, <<Quote>>, Append(fields, buffer))
           ELSE Stands(ParseChar(x, line, i, n), FALSE, FALSE, <<>>, Append(fields, buffer))
  BY CharsDiffer DEF ParseChar, ParseState, Stands, Follows, AddField

\* A character that is kept as it is: in a quoted field all but the quotes, in
\* another one all but separators, and a quote not in the first column.
LEMMA ParseOther ==
    ASSUME NEW line \in Text, NEW i \in 1 .. Len(line), NEW n \in Nat, NEW x \in ParseState,
           NEW buffer \in Text, NEW fields \in Seq(Text), NEW escaped \in BOOLEAN,
           Stands(x, escaped, FALSE, buffer, fields),
           line[i] = Quote => i # 1 /\ ~escaped, line[i] = Separator => escaped
    PROVE  Stands(ParseChar(x, line, i, n), escaped, FALSE, Append(buffer, line[i]), fields)
  BY CharsDiffer DEF ParseChar, ParseState, Stands

LEMMA ParsingStep ==
    ASSUME NEW line \in Text, NEW n \in Nat, NEW i \in 1 .. Len(line)
    PROVE  /\ Parsing(line, n)[i - 1] \in ParseState
           /\ Parsing(line, n)[i] = ParseChar(Parsing(line, n)[i - 1], line, i, n)
  <1>1. i - 1 \in 0 .. Len(line)
    BY DEF Text
  <1> QED BY <1>1, ParsingIs

LEMMA ParseBare ==
    ASSUME NEW line \in Text, NEW n \in Nat, NEW a \in 0 .. Len(line), NEW s \in Text, Bare(s),
           Holds(line, a, s), NEW fields \in Seq(Text),
           Stands(Parsing(line, n)[a], FALSE, FALSE, <<>>, fields),
           NEW b, b = a + Len(s)
    PROVE  Stands(Parsing(line, n)[b], FALSE, FALSE, s, fields)
  <1> DEFINE P == Parsing(line, n)
             e == Len(s)
             T == {i \in 0 .. e : Stands(P[a + i], FALSE, FALSE, SubSeq(s, 1, i), fields)}
  <1>1. e \in Nat /\ a \in Nat /\ Len(line) \in Nat /\ a + e <= Len(line)
    BY DEF Holds, Text
  <1>2. 0 \in T
    <2>1. a + 0 = a /\ 0 \in 0 .. e /\ SubSeq(s, 1, 0) = <<>>
      BY <1>1 DEF Text
    <2> QED BY <2>1
  <1>3. \A i \in 0 .. e - 1 : i \in T => i + 1 \in T
    <2> SUFFICES ASSUME NEW i \in 0 .. e - 1, i \in T PROVE i + 1 \in T
      OBVIOUS
    <2> DEFINE k == i + 1
               q == a + k
               u == SubSeq(s, 1, i)
    <2>1. k \in 1 .. e /\ k \in 0 .. e /\ q \in 1 .. Len(line) /\ q - 1 = a + i /\ k - 1 = i
          /\ (q = 1 => k = 1)
      BY <1>1
    <2>2. Stands(P[a + i], FALSE, FALSE, u, fields)
      OBVIOUS
    <2>3. line[q] = s[k] /\ k \in DOMAIN s
      <3>1. \A j \in 1 .. Len(s) : line[a + j] = s[j]
        BY DEF Holds
      <3>2. k \in DOMAIN s
        BY <2>1 DEF Text
      <3> QED BY <3>1, <3>2, <2>1
    <2>4. line[q] \notin {Separator, Newline}
      BY <2>3 DEF Bare
    <2>5. line[q] = Quote => q # 1
      <3>1. k = 1 => s[1] = s[k] /\ s # <<>>
        BY <2>3
      <3> QED BY <3>1, <2>1, <2>3 DEF Bare
    <2>6. u \in Text /\ SubSeq(s, 1, k) = Append(u, s[k])
      BY <2>1, TextGrows
    <2> HIDE DEF P, e, k, q, u, T
    <2>7. P[q - 1] \in ParseState /\ P[q] = ParseChar(P[q - 1], line, q, n)
      BY <2>1, ParsingStep DEF P
    <2>8. Stands(P[q], FALSE, FALSE, Append(u, line[q]), fields)
      BY <2>1, <2>2, <2>4, <2>5, <2>6, <2>7, ParseOther
    <2> QED BY <2>1, <2>3, <2>6, <2>8 DEF T, q, k
  <1> HIDE DEF T, P
  <1>4. \A i \in 0 .. e : i \in T
    BY <1>1, <1>2, <1>3, Upwards
  <1>5. e \in T
    BY <1>1, <1>4
  <1>6. SubSeq(s, 1, e) = s
    BY DEF Text
  <1> QED BY <1>5, <1>6 DEF T, P

LEMMA PairGrows ==
    ASSUME NEW e \in Text, NEW m \in 0 .. Len(e), m + 2 <= Len(e),
           e[m + 1] = Quote, e[m + 2] = Quote
    PROVE  SubSeq(e, 1, m) \in Text /\ SubSeq(e, 1, m) \o <<Quote, Quote>> = SubSeq(e, 1, m + 2)
  <1> DEFINE u == SubSeq(e, 1, m)
             v == u \o <<Quote, Quote>>
             w == SubSeq(e, 1, m + 2)
  <1>1. u \in Seq(Chars) /\ w \in Seq(Chars) /\ Len(u) = m /\ Len(w) = m + 2 /\ m \in Nat
    BY DEF Text
  <1>2. <<Quote, Quote>> \in Seq(Chars)
    BY SpecialChars
  <1>3. /\ \A j \in 1 .. m : u[j] = e[j]
        /\ \A j \in 1 .. m + 2 : w[j] = e[j]
    BY DEF Text
  <1> HIDE DEF u, w
  <1>4. v \in Seq(Chars) /\ Len(v) = m + 2 /\ v[m + 1] = Quote /\ v[m + 2] = Quote
        /\ \A j \in 1 .. m : v[j] = u[j]
    BY <1>1, <1>2
  <1> HIDE DEF v
  <1>5. \A j \in 1 .. m + 2 : v[j] = w[j]
    BY <1>1, <1>3, <1>4
  <1>6. v = w
    BY <1>1, <1>4, <1>5
  <1> QED BY <1>1, <1>6 DEF u, v, w, Text

LEMMA FirstQuote ==
    ASSUME NEW e \in Text, Len(e) >= 1, e[1] = Quote
    PROVE  SubSeq(e, 1, 1) = <<Quote>>
  <1> DEFINE u == SubSeq(e, 1, 1)
  <1>1. u \in Seq(Chars) /\ Len(u) = 1 /\ u[1] = Quote
    BY DEF Text
  <1> HIDE DEF u
  <1>2. u = <<Quote>>
    BY <1>1
  <1> QED BY <1>2 DEF u

LEMMA ParseDoubled ==
    ASSUME NEW line \in Text, NEW n \in Nat, NEW a \in Nat, NEW s \in Text,
           Holds(line, a, Enclosed(s)), NEW fields \in Seq(Text),
           Stands(Parsing(line, n)[a + 1], TRUE, FALSE, <<Quote>>, fields),
           NEW b, b = 1 + Len(Doubled(s))
    PROVE  Stands(Parsing(line, n)[a + b], TRUE, FALSE, SubSeq(Enclosed(s), 1, b), fields)
  <1> DEFINE P == Parsing(line, n)
             D == Doubled(s)
             e == Enclosed(s)
             z == Len(s)
             at[i \in 0 .. z] == 1 + Place(s, i)
             T == {i \in 0 .. z : Stands(P[a + at[i]], TRUE, FALSE, SubSeq(e, 1, at[i]), fields)}
  <1>1. z \in Nat /\ Len(line) \in Nat /\ Len(D) \in Nat /\ e \in Text /\ D \in Text /\ Len(e) \in Nat
    BY DoubledTyped, EnclosedTyped DEF Text
  <1>2. Len(e) = Len(D) + 2 /\ e[1] = Quote /\ \A j \in 1 .. Len(D) : e[j + 1] = D[j]
    BY EnclosedIs
  <1>3. a + Len(e) <= Len(line) /\ \A j \in 1 .. Len(e) : line[a + j] = e[j]
    BY DEF Holds
  <1>4. \A i \in 0 .. z : at[i] = 1 + Place(s, i) /\ Place(s, i) \in 0 .. Len(D)
    BY PlacesTyped
  <1>5. at[0] = 1 /\ at[z] = 1 + Len(D)
    BY <1>1, <1>4, PlaceFirst, PlaceLast
  <1>6. \A i \in 1 .. z : /\ s[i] # Quote => at[i] = at[i - 1] + 1 /\ e[at[i]] # Quote
                          /\ s[i] = Quote => /\ at[i] = at[i - 1] + 2
                                             /\ e[at[i - 1] + 1] = Quote /\ e[at[i]] = Quote
    <2> SUFFICES ASSUME NEW i \in 1 .. z
                 PROVE  /\ s[i] # Quote => at[i] = at[i - 1] + 1 /\ e[at[i]] # Quote
                        /\ s[i] = Quote => /\ at[i] = at[i - 1] + 2
                                           /\ e[at[i - 1] + 1] = Quote /\ e[at[i]] = Quote
      OBVIOUS
    <2> DEFINE x == Place(s, i - 1)
               y == Place(s, i)
    <2>1. i \in 0 .. z /\ i - 1 \in 0 .. z
      BY <1>1
    <2>2. at[i] = 1 + y /\ at[i - 1] = 1 + x /\ x \in 0 .. Len(D) /\ y \in 0 .. Len(D)
      BY <2>1, <1>4
    <2>3. s[i] # Quote => y = x + 1 /\ D[x + 1] = s[i]
      BY PlaceChar
    <2>4. s[i] = Quote => y = x + 2 /\ D[x + 1] = Quote /\ D[x + 2] = Quote
      BY PlacePair
    <2> HIDE DEF x, y, at, D, e
    <2>5. CASE s[i] # Quote
      <3>1. y \in 1 .. Len(D) /\ at[i] = y + 1 /\ at[i] = at[i - 1] + 1 /\ D[y] # Quote
        BY <2>2, <2>3, <2>5, <1>1
      <3>2. e[y + 1] = D[y]
        BY <3>1, <1>2
      <3> QED BY <3>1, <3>2, <2>5
    <2>6. CASE s[i] = Quote
      <3>1. /\ y \in 1 .. Len(D) /\ at[i] = y + 1 /\ at[i] = at[i - 1] + 2 /\ D[y] = Quote
            /\ x + 1 \in 1 .. Len(D) /\ at[i - 1] + 1 = (x + 1) + 1 /\ D[x + 1] = Quote
        BY <2>2, <2>4, <2>6, <1>1
      <3>2. e[y + 1] = D[y] /\ e[(x + 1) + 1] = D[x + 1]
        BY <3>1, <1>2
      <3> QED BY <3>1, <3>2, <2>6
    <2> QED BY <2>5, <2>6
  <1> HIDE DEF P, D, e, z, at, T
  <1>7. \A i \in 0 .. z : at[i] \in 1 .. 1 + Len(D)
    BY <1>1, <1>4
  <1>8. 0 \in T
    <2>1. Len(e) >= 1
      BY <1>1, <1>2
    <2>2. SubSeq(e, 1, 1) = <<Quote>>
      BY <2>1, <1>1, <1>2, FirstQuote
    <2>3. Stands(P[a + 1], TRUE, FALSE, <<Quote>>, fields)
      BY DEF P
    <2>4. at[0] = 1 /\ 0 \in 0 .. z
      BY <1>1, <1>5
    <2>5. Stands(P[a + at[0]], TRUE, FALSE, SubSeq(e, 1, at[0]), fields)
      BY <2>2, <2>3, <2>4, Zenon
    <2> QED BY <2>4, <2>5 DEF T
  <1>9. \A i \in 0 .. z - 1 : i \in T => i + 1 \in T
    <2> SUFFICES ASSUME NEW i \in 0 .. z - 1, i \in T PROVE i + 1 \in T
      OBVIOUS
    <2> DEFINE k == i + 1
               m == at[i]
               q == a + m + 1
               u == SubSeq(e, 1, m)
    <2>1. k \in 1 .. z /\ k \in 0 .. z /\ i \in 0 .. z /\ k - 1 = i
      BY <1>1
    <2>2. Stands(P[a + m], TRUE, FALSE, u, fields)
      BY DEF T
    <2>3. m \in 1 .. Len(e) /\ at[k] \in 1 .. 1 + Len(D) /\ m \in Nat
      BY <1>1, <1>2, <1>7, <2>1
    <2>4. u \in Text
      BY <2>3, <1>1 DEF Text
    <2>5. CASE s[k] # Quote
      <3>1. at[k] = m + 1 /\ e[m + 1] # Quote
        BY <1>6, <2>1, <2>5
      <3> HIDE DEF m, k
      <3>2. /\ q \in 1 .. Len(line) /\ q - 1 = a + m /\ q # 1 /\ m + 1 \in 1 .. Len(e)
            /\ q = a + (m + 1) /\ (m + 1) - 1 = m
        BY <1>1, <1>2, <1>3, <2>3, <3>1
      <3>3. line[q] = e[m + 1]
        BY <1>3, <3>2
      <3>4. SubSeq(e, 1, m + 1) = Append(u, e[m + 1])
        <4> DEFINE o == m + 1
        <4>1. o \in 1 .. Len(e) /\ o - 1 = m
          BY <3>2
        <4> HIDE DEF o
        <4>2. SubSeq(e, 1, o) = Append(SubSeq(e, 1, o - 1), e[o])
          BY <4>1, <1>1, TextGrows
        <4> QED BY <4>1, <4>2 DEF o
      <3> HIDE DEF q, u
      <3>5. P[q - 1] \in ParseState /\ P[q] = ParseChar(P[q - 1], line, q, n)
        BY <3>2, ParsingStep DEF P
      <3>6. Stands(P[q], TRUE, FALSE, Append(u, line[q]), fields)
        BY <2>2, <2>4, <3>1, <3>2, <3>3, <3>5, ParseOther
      <3>7. Stands(P[a + at[k]], TRUE, FALSE, SubSeq(e, 1, at[k]), fields)
        BY <3>1, <3>2, <3>3, <3>4, <3>6
      <3> QED BY <2>1, <3>7 DEF T, k
    <2>6. CASE s[k] = Quote
      <3>1. at[k] = m + 2 /\ e[m + 1] = Quote /\ e[m + 2] = Quote
        BY <1>6, <2>1, <2>6
      <3> HIDE DEF m, k
      <3>2. /\ q \in 1 .. Len(line) /\ q - 1 = a + m /\ q # 1 /\ q + 1 \in 1 .. Len(line)
            /\ m + 1 \in 1 .. Len(e) /\ m + 2 \in 1 .. Len(e) /\ q = a + (m + 1)
            /\ q + 1 = a + (m + 2) /\ (q + 1) - 1 = q /\ m + 2 <= Len(e) /\ m \in 0 .. Len(e)
            /\ q < Len(line)
        <4>1. m + 2 <= Len(e) /\ m >= 1 /\ m \in Nat
          BY <1>1, <1>2, <2>3, <3>1
        <4>2. Len(e) \in Nat /\ Len(line) \in Nat /\ a + Len(e) <= Len(line)
          BY <1>1, <1>3
        <4> QED BY <4>1, <4>2
      <3>3. line[q] = Quote /\ line[q + 1] = Quote
        BY <1>3, <3>1, <3>2
      <3>4. Follows(line, q) = Quote
        BY <3>2, <3>3 DEF Follows
      <3>5. u \o <<Quote, Quote>> = SubSeq(e, 1, m + 2)
        BY <1>1, <3>1, <3>2, PairGrows
      <3>6. SubSeq(e, 1, m + 2) \in Text
        BY <1>1, <3>2 DEF Text
      <3> HIDE DEF q, u
      <3>7. P[q - 1] \in ParseState /\ P[q] = ParseChar(P[q - 1], line, q, n)
        BY <3>2, ParsingStep DEF P
      <3>8. P[q] \in ParseState /\ P[q + 1] = ParseChar(P[q], line, q + 1, n)
        <4> DEFINE o == q + 1
        <4>1. o \in 1 .. Len(line) /\ o - 1 = q
          BY <3>2
        <4> HIDE DEF o
        <4>2. P[o - 1] \in ParseState /\ P[o] = ParseChar(P[o - 1], line, o, n)
          BY <4>1, ParsingStep DEF P
        <4> QED BY <4>1, <4>2 DEF o
      <3>9. Stands(P[q], TRUE, TRUE, SubSeq(e, 1, m + 2), fields)
        <4>1. Stands(P[q], TRUE, TRUE, u \o <<Quote, Quote>>, fields)
          BY <2>2, <2>4, <3>2, <3>3, <3>4, <3>7, ParsePair
        <4> QED BY <4>1, <3>5
      <3>10. Stands(P[q + 1], TRUE, FALSE, SubSeq(e, 1, m + 2), fields)
        BY <3>2, <3>6, <3>8, <3>9, ParseSkipped
      <3>11. Stands(P[a + at[k]], TRUE, FALSE, SubSeq(e, 1, at[k]), fields)
        BY <3>1, <3>2, <3>10
      <3> QED BY <2>1, <3>11 DEF T, k
    <2> QED BY <2>5, <2>6
  <1>10. \A i \in 0 .. z : i \in T
    BY <1>1, <1>8, <1>9, Upwards
  <1>11. z \in T
    BY <1>1, <1>10
  <1>12. Stands(P[a + at[z]], TRUE, FALSE, SubSeq(e, 1, at[z]), fields)
    BY <1>11 DEF T
  <1>13. at[z] = b
    BY <1>5 DEF D
  <1> QED BY <1>12, <1>13 DEF P, e

\* The loop is at the start of a field, behind a columns; the first field of a line
\* is opened by its own quote, the others by the separator.
ParseAt(x, a, e, fields) ==
    IF a > 0 /\ BeginsQuoted(e) THEN Stands(x, TRUE, TRUE, <<Quote>>, fields)
                                ELSE Stands(x, FALSE, FALSE, <<>>, fields)

LEMMA ParseEnclosed ==
    ASSUME NEW line \in Text, NEW n \in Nat, NEW a \in 0 .. Len(line), NEW s \in Text,
           Holds(line, a, Enclosed(s)), NEW fields \in Seq(Text),
           IF a > 0 THEN Stands(Parsing(line, n)[a], TRUE, TRUE, <<Quote>>, fields)
                    ELSE Stands(Parsing(line, n)[a], FALSE, FALSE, <<>>, fields),
           NEW b, b = a + Len(Enclosed(s)), Follows(line, b) = Separator
    PROVE  Stands(Parsing(line, n)[b], FALSE, FALSE, Enclosed(s), fields)
  <1> DEFINE P == Parsing(line, n)
             e == Enclosed(s)
             m == 1 + Len(Doubled(s))
             u == SubSeq(e, 1, m)
             o == a + 1
  <1>1. Len(line) \in Nat /\ a \in Nat /\ m \in Nat /\ m >= 1 /\ e \in Text
    BY DoubledTyped, EnclosedTyped DEF Text
  <1>2. Len(e) = m + 1 /\ e[1] = Quote /\ e[m + 1] = Quote
    BY EnclosedIs, DoubledTyped DEF Text
  <1>3. a + Len(e) <= Len(line) /\ \A j \in 1 .. Len(e) : line[a + j] = e[j]
    BY DEF Holds
  <1>4. b = a + Len(e)
    OBVIOUS
  <1>5. <<Quote>> \in Text /\ <<>> \in Text
    BY SpecialChars DEF Text
  <1> HIDE DEF e, m
  <1>6. /\ o \in 1 .. Len(line) /\ o - 1 = a /\ (o = 1 <=> a = 0) /\ 1 \in 1 .. Len(e)
        /\ m + 1 \in 1 .. Len(e) /\ b = a + (m + 1) /\ b \in 1 .. Len(line) /\ b # 1
        /\ b - 1 = a + m /\ (m + 1) - 1 = m /\ m \in 1 .. Len(e)
    BY <1>1, <1>2, <1>3, <1>4
  <1>7. line[o] = Quote /\ line[b] = Quote
    BY <1>2, <1>3, <1>6
  <1>8. Stands(P[o], TRUE, FALSE, <<Quote>>, fields)
    <2>1. IF a > 0 THEN Stands(P[a], TRUE, TRUE, <<Quote>>, fields)
                   ELSE Stands(P[a], FALSE, FALSE, <<>>, fields)
      OBVIOUS
    <2> HIDE DEF o
    <2>2. P[o - 1] \in ParseState /\ P[o] = ParseChar(P[o - 1], line, o, n)
      BY <1>6, ParsingStep
    <2> HIDE DEF P
    <2>3. CASE a > 0
      BY <2>1, <2>2, <2>3, <1>5, <1>6, ParseSkipped
    <2>4. CASE ~(a > 0)
      <3>1. Stands(P[a], FALSE, FALSE, <<>>, fields)
        BY <2>1, <2>4
      <3>2. o = 1
        BY <2>4, <1>1, <1>6
      <3> QED BY <3>1, <3>2, <2>2, <1>5, <1>6, <1>7, ParseFirst
    <2> QED BY <2>3, <2>4
  <1>9. Stands(P[a + m], TRUE, FALSE, u, fields)
    <2>1. Holds(line, a, Enclosed(s)) /\ m = 1 + Len(Doubled(s))
      BY DEF m
    <2>2. Stands(P[a + 1], TRUE, FALSE, <<Quote>>, fields)
      BY <1>8
    <2> QED BY <1>1, <2>1, <2>2, ParseDoubled DEF e
  <1>10. Append(u, Quote) = e /\ u \in Text
    <2> DEFINE w == m + 1
    <2>1. w \in 1 .. Len(e) /\ w - 1 = m /\ e[w] = Quote /\ w = Len(e)
      BY <1>2, <1>6
    <2> HIDE DEF w
    <2>2. SubSeq(e, 1, w) = Append(SubSeq(e, 1, w - 1), e[w]) /\ SubSeq(e, 1, w - 1) \in Text
      BY <1>1, <2>1, TextGrows
    <2>3. SubSeq(e, 1, Len(e)) = e
      BY <1>1 DEF Text
    <2> QED BY <2>1, <2>2, <2>3
  <1> HIDE DEF P, u, o
  <1>11. P[b - 1] \in ParseState /\ P[b] = ParseChar(P[b - 1], line, b, n)
    BY <1>6, ParsingStep DEF P
  <1>12. Stands(P[b], FALSE, FALSE, Append(u, Quote), fields)
    <2>1. Stands(P[b - 1], TRUE, FALSE, u, fields) /\ Follows(line, b) = Separator
      BY <1>6, <1>9
    <2> QED BY <2>1, <1>6, <1>7, <1>10, <1>11, ParseClosing
  <1>13. Stands(P[b], FALSE, FALSE, e, fields)
    BY <1>10, <1>12
  <1> QED BY <1>13 DEF P, e

LEMMA ParseField ==
    ASSUME NEW line \in Text, NEW n \in Nat, NEW a \in 0 .. Len(line), NEW e \in Text,
           NEW s \in Text, Encodes(e, s), Holds(line, a, e), NEW fields \in Seq(Text),
           ParseAt(Parsing(line, n)[a], a, e, fields),
           NEW b, b = a + Len(e), BeginsQuoted(e) => Follows(line, b) = Separator
    PROVE  Stands(Parsing(line, n)[b], FALSE, FALSE, e, fields)
  <1>1. CASE BeginsQuoted(e)
    <2>1. e = Enclosed(s)
      BY <1>1, EncodesIs
    <2>2. IF a > 0 THEN Stands(Parsing(line, n)[a], TRUE, TRUE, <<Quote>>, fields)
                   ELSE Stands(Parsing(line, n)[a], FALSE, FALSE, <<>>, fields)
      BY <1>1 DEF ParseAt
    <2>3. Follows(line, b) = Separator
      BY <1>1
    <2> QED BY <2>1, <2>2, <2>3, ParseEnclosed
  <1>2. CASE ~BeginsQuoted(e)
    <2>1. Bare(e)
      BY <1>2, EncodesIs
    <2>2. Stands(Parsing(line, n)[a], FALSE, FALSE, <<>>, fields)
      BY <1>2 DEF ParseAt
    <2> QED BY <2>1, <2>2, ParseBare
  <1> QED BY <1>1, <1>2

\* A line, with what parseLine sees behind its end.
LEMMA FollowsIs ==
    ASSUME NEW line \in Text
    PROVE  /\ Append(line, Separator) \in Text
           /\ LineAt(Append(line, Separator), 0, line)
           /\ Len(Append(line, Separator)) = Len(line) + 1
           /\ \A i \in 1 .. Len(line) : /\ Append(line, Separator)[i] = line[i]
                                        /\ Append(line, Separator)[i + 1] = Follows(line, i)
  <1> DEFINE t == Append(line, Separator)
  <1>1. t \in Text /\ Len(t) = Len(line) + 1 /\ Len(line) \in Nat /\ t[Len(line) + 1] = Separator
    BY SpecialChars DEF Text
  <1>2. \A i \in 1 .. Len(line) : t[i] = line[i]
    BY DEF Text
  <1> HIDE DEF t
  <1>3. \A i \in 1 .. Len(line) : t[i + 1] = Follows(line, i)
    <2> SUFFICES ASSUME NEW i \in 1 .. Len(line) PROVE t[i + 1] = Follows(line, i)
      OBVIOUS
    <2>1. CASE i < Len(line)
      <3>1. i + 1 \in 1 .. Len(line)
        BY <2>1, <1>1
      <3> QED BY <3>1, <2>1, <1>2 DEF Follows
    <2>2. CASE i = Len(line)
      BY <2>2, <1>1 DEF Follows
    <2> QED BY <2>1, <2>2, <1>1
  <1>4. LineAt(t, 0, line)
    <2>1. 0 + Len(line) = Len(line) /\ 0 + Len(line) + 1 = Len(line) + 1
      BY <1>1
    <2>2. \A j \in 1 .. Len(line) : t[0 + j] = line[j]
      BY <1>1, <1>2
    <2> QED BY <1>1, <2>1, <2>2 DEF LineAt, Holds
  <1> QED BY <1>1, <1>2, <1>3, <1>4 DEF t

\* A field of the line and what parseLine sees behind it.
FieldIn(line, es, f) ==
    LET a == Offset(es, f - 1)
        b == a + Len(es[f])
    IN  /\ a \in 0 .. Len(line) /\ b \in a .. Len(line) /\ Holds(line, a, es[f])
        /\ BeginsQuoted(es[f]) => Follows(line, b) = Separator
        /\ f = Len(es) => b = Len(line)
        /\ f < Len(es) => /\ Offset(es, f) = b + 1 /\ b + 1 \in 1 .. Len(line)
                          /\ line[b + 1] = Separator
                          /\ Follows(line, b + 1) = Quote <=> BeginsQuoted(es[f + 1])

LEMMA FieldInLine ==
    ASSUME NEW es \in Seq(Text), es # <<>>, NEW f \in 1 .. Len(es)
    PROVE  FieldIn(JoinFields(es), es, f)
  <1> DEFINE line == JoinFields(es)
             t == Append(line, Separator)
             n == Len(es)
             e == es[f]
             a == Offset(es, f - 1)
             b == a + Len(e)
  <1>1. line \in Text /\ e \in Text /\ Len(line) \in Nat /\ Len(e) \in Nat /\ n \in Nat
    BY JoinFieldsTyped DEF Text
  <1>2. /\ t \in Text /\ LineAt(t, 0, line) /\ Len(t) = Len(line) + 1
        /\ \A i \in 1 .. Len(line) : t[i] = line[i] /\ t[i + 1] = Follows(line, i)
    BY <1>1, FollowsIs
  <1>3. t[Len(line) + 1] = Separator
    BY <1>1 DEF Text
  <1> HIDE DEF t
  <1>4. \A g \in 1 .. n : FieldAt(t, 0, es, g)
    BY <1>2, FieldFound
  <1>5. f - 1 \in 0 .. n
    OBVIOUS
  <1>6. a \in 0 .. Len(line)
    BY <1>5, OffsetTyped
  <1>7. a \in Nat /\ 0 + a = a /\ b \in Nat
    BY <1>1, <1>6
  <1>8. /\ Holds(t, a, e) /\ b < Len(t) /\ b \in a .. Len(t)
        /\ f < n => t[b + 1] = Separator /\ 0 + Offset(es, f) = b + 1
        /\ f = n => b = 0 + Len(line)
    <2>1. FieldAt(t, 0, es, f)
      BY <1>4
    <2> HIDE DEF line, e, a, n
    <2>2. LET c == 0 + a
              d == c + Len(e)
          IN  /\ c \in 0 .. Len(t) /\ Holds(t, c, e)
              /\ d \in c .. Len(t) /\ d < Len(t)
              /\ f < n => t[d + 1] = Separator /\ 0 + Offset(es, f) = d + 1
              /\ f = n => d = 0 + Len(line)
      BY <2>1 DEF FieldAt, line, e, a, n
    <2> QED BY <2>2, <1>7
  <1> HIDE DEF line, e, a, n
  <1>9. b \in a .. Len(line) /\ (f = n => b = Len(line))
    BY <1>1, <1>2, <1>7, <1>8
  <1>10. Holds(line, a, e)
    <2>1. \A j \in 1 .. Len(e) : t[a + j] = e[j]
      BY <1>8 DEF Holds
    <2>2. ASSUME NEW j \in 1 .. Len(e) PROVE line[a + j] = e[j]
      <3>1. a + j \in 1 .. Len(line)
        BY <1>1, <1>7, <1>9
      <3> QED BY <3>1, <2>1, <1>2
    <2>3. a + Len(e) <= Len(line)
      BY <1>1, <1>7, <1>9
    <2> QED BY <2>2, <2>3 DEF Holds
  <1>11. t[b + 1] = Separator
    <2>1. CASE f < n
      BY <2>1, <1>8
    <2>2. CASE f = n
      BY <2>2, <1>3, <1>9
    <2> QED BY <2>1, <2>2, <1>1 DEF n
  <1>12. BeginsQuoted(e) => Follows(line, b) = Separator
    <2> SUFFICES ASSUME BeginsQuoted(e) PROVE Follows(line, b) = Separator
      OBVIOUS
    <2>1. Len(e) # 0
      BY <1>1 DEF BeginsQuoted, Text
    <2>2. b \in 1 .. Len(line)
      BY <2>1, <1>1, <1>7, <1>9
    <2> HIDE DEF b
    <2> QED BY <2>2, <1>2, <1>11
  <1>13. ASSUME f < n
         PROVE  /\ Offset(es, f) = b + 1 /\ b + 1 \in 1 .. Len(line) /\ line[b + 1] = Separator
                /\ Follows(line, b + 1) = Quote <=> BeginsQuoted(es[f + 1])
    <2> DEFINE q == Offset(es, f)
               g == f + 1
    <2>1. f \in 0 .. Len(es) /\ g \in 1 .. n /\ g - 1 = f
      BY <1>1, <1>13 DEF n
    <2>2. q \in 0 .. Len(line)
      BY <2>1, OffsetTyped DEF line
    <2>3. 0 + q = b + 1
      BY <1>8, <1>13
    <2>4. FieldAt(t, 0, es, g)
      BY <2>1, <1>4
    <2>5. t[(0 + Offset(es, g - 1)) + 1] = Quote <=> BeginsQuoted(es[g])
      <3> HIDE DEF g
      <3> QED BY <2>4 DEF FieldAt
    <2>6. Offset(es, g - 1) = q
      BY <2>1
    <2> HIDE DEF q, g, b
    <2>7. q = b + 1 /\ q \in 1 .. Len(line)
      BY <2>2, <2>3, <1>1, <1>7, <1>9
    <2>8. (0 + q) + 1 = q + 1
      BY <2>7
    <2>9. line[q] = Separator /\ t[q + 1] = Follows(line, q)
      BY <2>7, <1>2, <1>11
    <2>10. Follows(line, q) = Quote <=> BeginsQuoted(es[g])
      BY <2>5, <2>6, <2>8, <2>9
    <2> QED BY <2>7, <2>9, <2>10 DEF q, g, b
  <1> QED BY <1>6, <1>9, <1>10, <1>12, <1>13 DEF FieldIn, line, e, a, n

LEMMA ParseBehind ==
    ASSUME NEW line \in Text, NEW n \in Nat, NEW q \in 1 .. Len(line), NEW e \in Text,
           NEW fields \in Seq(Text), Len(fields) # n, line[q] = Separator,
           Stands(Parsing(line, n)[q - 1], FALSE, FALSE, e, fields),
           NEW next, Follows(line, q) = Quote <=> BeginsQuoted(next)
    PROVE  ParseAt(Parsing(line, n)[q], q, next, Append(fields, e))
  <1> DEFINE P == Parsing(line, n)
  <1>1. P[q - 1] \in ParseState /\ P[q] = ParseChar(P[q - 1], line, q, n)
    BY ParsingStep
  <1>2. Stands(P[q - 1], FALSE, FALSE, e, fields)
    OBVIOUS
  <1> HIDE DEF P
  <1>3. IF Follows(line, q) = Quote
        THEN Stands(P[q], TRUE, TRUE, <<Quote>>, Append(fields, e))
        ELSE Stands(P[q], FALSE, FALSE, <<>>, Append(fields, e))
    BY <1>1, <1>2, ParseSeparator
  <1>4. q > 0
    OBVIOUS
  <1> QED BY <1>3, <1>4 DEF ParseAt, P

\* The loop has taken the line apart.
LEMMA ParseFields ==
    ASSUME NEW es \in Seq(Text), NEW r \in Seq(Text), Encoded(es, r)
    PROVE  Stands(Parsing(JoinFields(es), Len(es))[Len(JoinFields(es))], FALSE, FALSE,
                  es[Len(es)], SubSeq(es, 1, Len(es) - 1))
  <1> DEFINE line == JoinFields(es)
             n == Len(es)
             P == Parsing(line, n)
             at[f \in 1 .. n] == Offset(es, f - 1)
             T == {f \in 1 .. n : ParseAt(P[at[f]], at[f], es[f], SubSeq(es, 1, f - 1))}
  <1>1. n \in Nat /\ n >= 1 /\ 1 \in Nat /\ 1 \in 1 .. n /\ line \in Text
    BY JoinFieldsTyped DEF Encoded, Text
  <1>2. ASSUME NEW f \in 1 .. n
        PROVE  /\ FieldIn(line, es, f) /\ es[f] \in Text /\ r[f] \in Text
               /\ Encodes(es[f], r[f])
    <2>1. FieldIn(line, es, f)
      BY FieldInLine DEF Encoded
    <2> QED BY <2>1 DEF Encoded
  <1>3. \A f \in 1 .. n : at[f] = Offset(es, f - 1)
    OBVIOUS
  <1> HIDE DEF at, P, n, T, line
  <1>4. 1 \in T
    <2>1. Offset(es, 1 - 1) = 0 /\ SubSeq(es, 1, 1 - 1) = <<>>
      BY OffsetFirst
    <2>2. at[1] = 0
      BY <1>1, <1>3, <2>1
    <2>3. P[0] = ParseStart
      BY <1>1, ParsingIs DEF P
    <2>4. Stands(P[0], FALSE, FALSE, <<>>, <<>>)
      BY <2>3 DEF Stands, ParseStart
    <2>5. ParseAt(P[0], 0, es[1], <<>>)
      <3>1. ~(0 > 0)
        OBVIOUS
      <3> QED BY <3>1, <2>4, Zenon DEF ParseAt
    <2>6. ParseAt(P[at[1]], at[1], es[1], SubSeq(es, 1, 1 - 1))
      BY <2>1, <2>2, <2>5, Zenon
    <2> QED BY <1>1, <2>6 DEF T
  <1>5. ASSUME NEW f \in 1 .. n, f \in T
        PROVE  Stands(P[at[f] + Len(es[f])], FALSE, FALSE, es[f], SubSeq(es, 1, f - 1))
    <2> DEFINE a == at[f]
               e == es[f]
               s == r[f]
               b == a + Len(e)
               fields == SubSeq(es, 1, f - 1)
    <2>1. /\ a \in 0 .. Len(line) /\ Holds(line, a, e)
          /\ BeginsQuoted(e) => Follows(line, b) = Separator
      <3>1. FieldIn(line, es, f) /\ a = Offset(es, f - 1)
        BY <1>2, <1>3
      <3> HIDE DEF a
      <3> QED BY <3>1 DEF FieldIn
    <2>2. e \in Text /\ s \in Text /\ Encodes(e, s)
      BY <1>2
    <2>3. ParseAt(P[a], a, e, fields)
      BY <1>5 DEF T
    <2>4. fields \in Seq(Text)
      BY DEF n
    <2>5. b = a + Len(e)
      OBVIOUS
    <2> HIDE DEF a, e, s, b, fields
    <2>6. Stands(P[b], FALSE, FALSE, e, fields)
      BY <1>1, <2>1, <2>2, <2>3, <2>4, <2>5, ParseField DEF P
    <2> QED BY <2>6 DEF a, e, b, fields
  <1>6. ASSUME NEW f \in 1 .. n - 1, f \in T PROVE f + 1 \in T
    <2> DEFINE g == f + 1
               e == es[f]
               b == at[f] + Len(e)
               q == at[g]
               fields == SubSeq(es, 1, f - 1)
               next == es[g]
    <2>1. f \in 1 .. n /\ g \in 1 .. n /\ f < n /\ g - 1 = f
      BY <1>1
    <2>2. Stands(P[b], FALSE, FALSE, e, fields)
      BY <1>5, <1>6, <2>1
    <2>3. /\ q = b + 1 /\ b + 1 \in 1 .. Len(line) /\ line[b + 1] = Separator
          /\ Follows(line, b + 1) = Quote <=> BeginsQuoted(next)
          /\ b \in Nat
      <3>1. FieldIn(line, es, f) /\ at[f] = Offset(es, f - 1) /\ f < Len(es)
        BY <1>2, <1>3, <2>1 DEF n
      <3>2. q = Offset(es, f)
        BY <1>3, <2>1
      <3> HIDE DEF q, g, e
      <3> QED BY <3>1, <3>2 DEF FieldIn, e, g
    <2>4. fields \in Seq(Text) /\ Len(fields) = f - 1 /\ Append(fields, e) = SubSeq(es, 1, f) /\ e \in Text
      BY <1>2, <2>1, SubSeqGrows DEF n
    <2>5. Len(fields) # n
      BY <2>1, <2>4, <1>1
    <2>6. q \in 1 .. Len(line) /\ q - 1 = b /\ line[q] = Separator
          /\ (Follows(line, q) = Quote <=> BeginsQuoted(next))
      <3> HIDE DEF q, b, g, next
      <3> QED BY <2>3
    <2> HIDE DEF q, b, g, e, fields, next
    <2>7. Stands(P[q - 1], FALSE, FALSE, e, fields)
      BY <2>2, <2>6
    <2>8. ParseAt(P[q], q, next, Append(fields, e))
      BY <1>1, <2>4, <2>5, <2>6, <2>7, ParseBehind DEF P
    <2>9. ParseAt(P[at[g]], at[g], es[g], SubSeq(es, 1, g - 1))
      BY <2>1, <2>4, <2>8 DEF q, next
    <2>10. g \in T
      BY <2>1, <2>9 DEF T
    <2> QED BY <2>10 DEF g
  <1>7. n \in 1 .. n /\ n \in T
    <2>1. \A f \in 1 .. n : f \in T
      BY <1>1, <1>4, <1>6, Upwards
    <2> QED BY <1>1, <2>1
  <1>8. Stands(P[at[n] + Len(es[n])], FALSE, FALSE, es[n], SubSeq(es, 1, n - 1))
    BY <1>5, <1>7
  <1>9. at[n] + Len(es[n]) = Len(line)
    <2>1. FieldIn(line, es, n) /\ n = Len(es)
      BY <1>2, <1>7 DEF n
    <2> QED BY <2>1, <1>3, <1>7 DEF FieldIn
  <1> QED BY <1>8, <1>9 DEF P, n, line

LEMMA LastAppended ==
    ASSUME NEW S, NEW s \in Seq(S), Len(s) >= 1
    PROVE  Len(SubSeq(s, 1, Len(s) - 1)) = Len(s) - 1 /\ Append(SubSeq(s, 1, Len(s) - 1), s[Len(s)]) = s
  <1>1. Len(s) \in 1 .. Len(s) /\ 1 \in 1 .. Len(s)
    OBVIOUS
  <1>2. SubSeq(s, 1, Len(s)) = Append(SubSeq(s, 1, Len(s) - 1), s[Len(s)])
    BY <1>1, SubSeqGrows
  <1>3. SubSeq(s, 1, Len(s)) = s
    OBVIOUS
  <1>4. Len(SubSeq(s, 1, Len(s) - 1)) = Len(s) - 1
    <2> DEFINE k == Len(s) - 1
    <2>1. k \in 0 .. Len(s) /\ k \in Nat
      OBVIOUS
    <2> HIDE DEF k
    <2>2. Len(SubSeq(s, 1, k)) = k
      BY <2>1
    <2> QED BY <2>2 DEF k
  <1> QED BY <1>2, <1>3, <1>4

LEMMA ParseWhole ==
    ASSUME NEW es \in Seq(Text), NEW r \in Seq(Text), Encoded(es, r)
    PROVE  /\ ParseLine(JoinFields(es), Len(es)).ok
           /\ ParseLine(JoinFields(es), Len(es)).fields = es
  <1> DEFINE line == JoinFields(es)
             n == Len(es)
             x == Parsing(line, n)[Len(line)]
  <1>1. Stands(x, FALSE, FALSE, es[n], SubSeq(es, 1, n - 1))
    BY ParseFields
  <1>2. n \in Nat /\ n >= 1
    BY DEF Encoded
  <1>3. Len(SubSeq(es, 1, n - 1)) = n - 1 /\ Append(SubSeq(es, 1, n - 1), es[n]) = es
    BY <1>2, LastAppended
  <1> HIDE DEF x, n
  <1>4. /\ ParseLine(line, n).ok = (x.ok /\ ~x.escaped /\ Len(x.fields) = n - 1)
        /\ ParseLine(line, n).fields = Append(x.fields, x.buffer)
    BY DEF ParseLine, x
  <1> HIDE DEF line
  <1>5. ParseLine(line, n).ok /\ ParseLine(line, n).fields = es
    BY <1>1, <1>3, <1>4 DEF Stands
  <1> QED BY <1>5 DEF line, n

LEMMA EncodesBack ==
    ASSUME NEW e \in Text, NEW s \in Text, Encodes(e, s)
    PROVE  Unescape(e) = [ok |-> TRUE, text |-> s]
  <1>1. CASE BeginsQuoted(e)
    <2>1. e = Enclosed(s)
      BY <1>1, EncodesIs
    <2> QED BY <2>1, UnescapeEnclosed
  <1>2. CASE ~BeginsQuoted(e)
    <2>1. e = s
      BY <1>2, EncodesIs
    <2>2. ~IsEscaped(e)
      BY <1>2 DEF IsEscaped, BeginsQuoted
    <2> QED BY <2>1, <2>2 DEF Unescape
  <1> QED BY <1>1, <1>2

\* What csv2yapet makes of a line: it is reported if it is too long, and otherwise
\* its fields are the texts it was made of.
LEMMA LineBack ==
    ASSUME NEW es \in Seq(Text), NEW r \in Rows, Encoded(es, r)
    PROVE  /\ Reported(JoinFields(es)) <=> Len(JoinFields(es)) > MaxLine
           /\ DOMAIN Fields(JoinFields(es)) = 1 .. NumberOfFields
           /\ \A f \in 1 .. NumberOfFields : Fields(JoinFields(es))[f] = [ok |-> TRUE, text |-> r[f]]
  <1> DEFINE line == JoinFields(es)
  <1>1. r \in Seq(Text) /\ Len(r) = NumberOfFields /\ Len(es) = NumberOfFields
    BY DEF Rows, Encoded
  <1>2. ParseLine(line, NumberOfFields).ok /\ ParseLine(line, NumberOfFields).fields = es
    BY <1>1, ParseWhole
  <1> HIDE DEF line
  <1>3. Reported(line) <=> Len(line) > MaxLine
    BY <1>2 DEF Reported
  <1>4. Fields(line) = [f \in DOMAIN es |-> Unescape(es[f])] /\ DOMAIN es = 1 .. NumberOfFields
    BY <1>1, <1>2 DEF Fields
  <1>5. ASSUME NEW f \in 1 .. NumberOfFields PROVE Fields(line)[f] = [ok |-> TRUE, text |-> r[f]]
    <2>1. es[f] \in Text /\ r[f] \in Text /\ Encodes(es[f], r[f])
      BY <1>1 DEF Encoded
    <2> QED BY <2>1, <1>4, EncodesBack
  <1> QED BY <1>3, <1>4, <1>5 DEF line

-----------------------------------------------------------------------------
(***************************************************************************)
(* Lines of a file.                                                         *)
(***************************************************************************)
Escaped(r) == [f \in DOMAIN r |-> Escape(r[f])]

LEMMA EscapeEncodes ==
    ASSUME NEW s \in Text, s # <<>> => s[1] # Quote
    PROVE  Encodes(Escape(s), s) /\ (s = <<>> => Escape(s) = <<>>)
  <1>1. ~IsEscaped(s)
    BY DEF IsEscaped
  <1>2. CASE RequireEscaping(s)
    <2>1. Escape(s) = Enclosed(s)
      BY <1>1, <1>2 DEF Escape, Enclosed
    <2>2. s # <<>>
      BY <1>2 DEF RequireEscaping
    <2> QED BY <2>1, <2>2 DEF Encodes
  <1>3. CASE ~RequireEscaping(s)
    <2>1. Escape(s) = s
      BY <1>3 DEF Escape
    <2>2. Bare(s)
      BY <1>3 DEF RequireEscaping, Bare
    <2> QED BY <2>1, <2>2 DEF Encodes
  <1> QED BY <1>2, <1>3

LEMMA NumberPositive == NumberOfFields \in Nat /\ NumberOfFields >= 1
  BY HeaderAssumption DEF NumberOfFields

LEMMA RowNotEmpty ==
    ASSUME NEW r \in Rows
    PROVE  r \in Seq(Text) /\ r # <<>> /\ DOMAIN r = 1 .. Len(r) /\ 1 \in 1 .. Len(r)
           /\ \A f \in 1 .. Len(r) : r[f] \in Text
  <1>1. r \in Seq(Text) /\ Len(r) >= 1
    BY NumberPositive DEF Rows
  <1> QED BY <1>1

\* What yapet2csv writes for a record.
LEMMA RecordEncoded ==
    ASSUME NEW r \in Rows, \A f \in DOMAIN r : r[f] # <<>> => r[f][1] # Quote
    PROVE  /\ Escaped(r) \in Seq(Text) /\ Encoded(Escaped(r), r)
           /\ GetLine(r) = JoinFields(Escaped(r))
  <1>1. /\ r \in Seq(Text) /\ r # <<>> /\ DOMAIN r = 1 .. Len(r)
        /\ \A f \in 1 .. Len(r) : r[f] \in Text
    BY RowNotEmpty
  <1>2. ASSUME NEW f \in 1 .. Len(r)
        PROVE  Encodes(Escape(r[f]), r[f]) /\ (r[f] = <<>> => Escape(r[f]) = <<>>)
               /\ Escape(r[f]) \in Text
    <2> DEFINE s == r[f]
    <2>1. s \in Text /\ (s # <<>> => s[1] # Quote)
      BY <1>1
    <2> HIDE DEF s
    <2>2. Encodes(Escape(s), s) /\ (s = <<>> => Escape(s) = <<>>) /\ Escape(s) \in Text
      BY <2>1, EscapeEncodes, EscapeTyped
    <2> QED BY <2>2 DEF s
  <1>3. Escaped(r) \in Seq(Text) /\ Len(Escaped(r)) = Len(r) /\ Escaped(r) # <<>>
        /\ \A f \in 1 .. Len(r) : Escaped(r)[f] = Escape(r[f])
    <2>1. Escaped(r) \in Seq(Text) /\ Len(Escaped(r)) = Len(r)
      BY <1>1, <1>2 DEF Escaped
    <2>2. \A f \in 1 .. Len(r) : Escaped(r)[f] = Escape(r[f])
      BY <1>1 DEF Escaped
    <2> QED BY <2>1, <2>2, <1>1
  <1>4. \A f \in 1 .. Len(r) : Encodes(Escaped(r)[f], r[f])
    BY <1>2, <1>3
  <1>5. \A f \in 1 .. Len(r) : IF r[f] = <<>> THEN Escaped(r)[f] = <<>> ELSE r[f][1] # Quote
    BY <1>1, <1>2, <1>3
  <1>6. Encoded(Escaped(r), r)
    BY <1>1, <1>3, <1>4, <1>5 DEF Encoded
  <1> QED BY <1>3, <1>6 DEF GetLine, Escaped

\* What another program writes.
QuotedFields(r, always) == [f \in DOMAIN r |-> Quoted(r[f], always)]

LEMMA QuotedEncodes ==
    ASSUME NEW s \in Text, NEW always \in BOOLEAN
    PROVE  Encodes(Quoted(s, always), s) /\ (s # <<>> => Quoted(s, always) # <<>>)
  <1>1. CASE always \/ \E i \in DOMAIN s : s[i] \in {Separator, Quote, Newline}
    <2>1. Quoted(s, always) = Enclosed(s)
      BY <1>1 DEF Quoted, Enclosed
    <2>2. Len(Enclosed(s)) # 0
      BY EnclosedIs, DoubledTyped DEF Text
    <2> QED BY <2>1, <2>2 DEF Encodes
  <1>2. CASE ~(always \/ \E i \in DOMAIN s : s[i] \in {Separator, Quote, Newline})
    <2>1. Quoted(s, always) = s
      BY <1>2 DEF Quoted
    <2>2. s # <<>> => 1 \in DOMAIN s
      BY DEF Text
    <2>3. Bare(s)
      BY <1>2, <2>2 DEF Bare
    <2> QED BY <2>1, <2>3 DEF Encodes
  <1> QED BY <1>1, <1>2

LEMMA QuotedEncoded ==
    ASSUME NEW r \in Rows, ~BlankThenQuote(r), NEW always \in BOOLEAN
    PROVE  /\ QuotedFields(r, always) \in Seq(Text) /\ Encoded(QuotedFields(r, always), r)
           /\ QuotedLine(r, always) = Append(JoinFields(QuotedFields(r, always)), Newline)
  <1> DEFINE es == QuotedFields(r, always)
  <1>1. /\ r \in Seq(Text) /\ r # <<>> /\ DOMAIN r = 1 .. Len(r) /\ 1 \in 1 .. Len(r)
        /\ \A f \in 1 .. Len(r) : r[f] \in Text
    BY RowNotEmpty
  <1>2. ASSUME NEW f \in 1 .. Len(r)
        PROVE  /\ Encodes(Quoted(r[f], always), r[f]) /\ Quoted(r[f], always) \in Text
               /\ r[f] # <<>> => Quoted(r[f], always) # <<>>
    BY <1>1, QuotedEncodes, QuotedTyped
  <1>3. es \in Seq(Text) /\ Len(es) = Len(r) /\ \A f \in 1 .. Len(r) : es[f] = Quoted(r[f], always)
    <2>1. es \in Seq(Text) /\ Len(es) = Len(r)
      BY <1>1, <1>2 DEF QuotedFields
    <2>2. \A f \in 1 .. Len(r) : es[f] = Quoted(r[f], always)
      BY <1>1 DEF QuotedFields
    <2> QED BY <2>1, <2>2
  <1> HIDE DEF es
  <1>4. /\ es # <<>>
        /\ \/ es[1] # <<>>
           \/ \A f \in 1 .. Len(es) : IF r[f] = <<>> THEN es[f] = <<>> ELSE r[f][1] # Quote
    <2>1. es # <<>>
      BY <1>1, <1>3
    <2>2. CASE r[1] # <<>>
      BY <1>1, <1>2, <1>3, <2>1, <2>2
    <2>3. CASE always
      <3>1. Quoted(r[1], always) = Enclosed(r[1]) /\ r[1] \in Text
        BY <1>1, <2>3 DEF Quoted, Enclosed
      <3>2. Len(Enclosed(r[1])) # 0
        BY <3>1, EnclosedIs, DoubledTyped DEF Text
      <3> QED BY <1>1, <1>3, <2>1, <3>1, <3>2
    <2>4. CASE r[1] = <<>> /\ ~always
      <3>1. Quoted(<<>>, always) = <<>>
        BY <2>4 DEF Quoted
      <3>2. \A f \in 1 .. Len(r) : r[f] # <<>> => r[f][1] # Quote
        BY <1>1, <2>4 DEF BlankThenQuote
      <3> QED BY <1>3, <2>1, <3>1, <3>2
    <2> QED BY <2>2, <2>3, <2>4
  <1>5. \A f \in 1 .. Len(r) : Encodes(es[f], r[f])
    BY <1>2, <1>3
  <1>6. Encoded(es, r)
    BY <1>1, <1>3, <1>4, <1>5 DEF Encoded
  <1> QED BY <1>3, <1>6 DEF es, QuotedLine, QuotedFields

\* A file of lines that stand for records, each with its line end.
Coded(lines, rows) ==
    /\ lines \in Seq(Text) /\ rows \in Seq(Rows) /\ Len(lines) = Len(rows)
    /\ \A i \in 1 .. Len(rows) : \E es \in Seq(Text) : lines[i] = JoinFields(es) /\ Encoded(es, rows[i])

Ended(lines) == [i \in DOMAIN lines |-> Append(lines[i], Newline)]

UpTo(lines, k) == Concat(Ended(lines))[k]

File(lines) == UpTo(lines, Len(lines))

LEMMA EndedTyped ==
    ASSUME NEW lines \in Seq(Text)
    PROVE  /\ Ended(lines) \in Seq(Seq(Chars)) /\ Len(Ended(lines)) = Len(lines)
           /\ \A i \in 1 .. Len(lines) : Ended(lines)[i] = Append(lines[i], Newline)
  <1>1. \A i \in DOMAIN lines : Append(lines[i], Newline) \in Seq(Chars)
    BY SpecialChars DEF Text
  <1>2. DOMAIN lines = 1 .. Len(lines) /\ Len(lines) \in Nat
    OBVIOUS
  <1> QED BY <1>1, <1>2 DEF Ended

LEMMA UpToTyped ==
    ASSUME NEW lines \in Seq(Text), NEW k \in 0 .. Len(lines)
    PROVE  UpTo(lines, k) \in Text /\ Holds(File(lines), 0, UpTo(lines, k))
  <1>1. Ended(lines) \in Seq(Seq(Chars)) /\ Len(Ended(lines)) = Len(lines)
    BY EndedTyped
  <1>2. Len(lines) \in k .. Len(lines)
    OBVIOUS
  <1>3. Concat(Ended(lines))[k] \in Seq(Chars)
    BY <1>1, ConcatIs
  <1>4. Holds(Concat(Ended(lines))[Len(lines)], 0, Concat(Ended(lines))[k])
    BY <1>1, <1>2, ConcatGrows
  <1> QED BY <1>3, <1>4 DEF UpTo, File, Text

LEMMA UpToFirst ==
    ASSUME NEW lines \in Seq(Text)
    PROVE  UpTo(lines, 0) = <<>>
  BY EndedTyped, ConcatIs DEF UpTo

LEMMA UpToNext ==
    ASSUME NEW lines \in Seq(Text), NEW k \in 1 .. Len(lines)
    PROVE  UpTo(lines, k) = Joined(UpTo(lines, k - 1), Append(lines[k], Newline))
  <1>1. Ended(lines) \in Seq(Seq(Chars)) /\ Len(Ended(lines)) = Len(lines)
        /\ Ended(lines)[k] = Append(lines[k], Newline)
    BY EndedTyped
  <1>2. Concat(Ended(lines))[k] = Joined(Concat(Ended(lines))[k - 1], Ended(lines)[k])
    BY <1>1, ConcatIs
  <1> QED BY <1>1, <1>2 DEF UpTo

\* Where a line is in the file.
LEMMA LinePlace ==
    ASSUME NEW lines \in Seq(Text), NEW k \in 1 .. Len(lines)
    PROVE  LET a == Len(UpTo(lines, k - 1))
               b == a + Len(lines[k])
           IN  /\ LineAt(File(lines), a, lines[k])
               /\ File(lines)[b + 1] = Newline
               /\ Len(UpTo(lines, k)) = b + 1
  <1> DEFINE t == File(lines)
             line == lines[k]
             u == Append(line, Newline)
             a == Len(UpTo(lines, k - 1))
             b == a + Len(line)
  <1>1. Ended(lines) \in Seq(Seq(Chars)) /\ Len(Ended(lines)) = Len(lines) /\ Ended(lines)[k] = u
    BY EndedTyped
  <1>2. Len(lines) \in k .. Len(lines) /\ k - 1 \in 0 .. Len(lines)
    OBVIOUS
  <1>3. Holds(t, a, u) /\ Len(UpTo(lines, k)) = a + Len(u)
    <2> DEFINE ss == Ended(lines)
    <2>1. ss \in Seq(Seq(Chars)) /\ k \in 1 .. Len(ss) /\ Len(lines) \in k .. Len(ss)
      BY <1>1, <1>2
    <2> HIDE DEF ss
    <2>2. /\ Holds(Concat(ss)[Len(lines)], Len(Concat(ss)[k - 1]), ss[k])
          /\ Len(Concat(ss)[k]) = Len(Concat(ss)[k - 1]) + Len(ss[k])
      BY <2>1, ConcatHolds
    <2> QED BY <2>2, <1>1 DEF UpTo, File, ss
  <1>4. line \in Seq(Chars) /\ Len(line) \in Nat
    BY DEF Text
  <1>5. Len(u) = Len(line) + 1 /\ u[Len(line) + 1] = Newline /\ \A j \in 1 .. Len(line) : u[j] = line[j]
    BY <1>4
  <1>6. a \in Nat /\ Len(t) \in Nat
    <2>1. UpTo(lines, k - 1) \in Text /\ t \in Text
      BY <1>2, UpToTyped DEF File
    <2> HIDE DEF t
    <2> QED BY <2>1 DEF Text
  <1> HIDE DEF t, line, u, a
  <1>7. a + Len(line) + 1 <= Len(t) /\ \A j \in 1 .. Len(line) + 1 : t[a + j] = u[j]
    BY <1>3, <1>4, <1>5, <1>6 DEF Holds
  <1>8. b + 1 = a + (Len(line) + 1) /\ Len(line) + 1 \in 1 .. Len(line) + 1 /\ b < Len(t)
    BY <1>4, <1>6, <1>7
  <1>9. t[b + 1] = Newline
    BY <1>5, <1>7, <1>8
  <1>10. Holds(t, a, line)
    <2>1. a + Len(line) <= Len(t)
      BY <1>4, <1>6, <1>7
    <2>2. \A j \in 1 .. Len(line) : j \in 1 .. Len(line) + 1
      BY <1>4
    <2>3. \A j \in 1 .. Len(line) : t[a + j] = line[j]
      BY <2>2, <1>5, <1>7
    <2> QED BY <2>1, <2>3 DEF Holds
  <1>11. LineAt(t, a, line)
    BY <1>8, <1>9, <1>10 DEF LineAt
  <1>12. Len(UpTo(lines, k)) = b + 1
    BY <1>3, <1>4, <1>5, <1>6
  <1> QED BY <1>9, <1>11, <1>12 DEF t, line, a

\* A part of the file before its end is there in a file that is cut off later.
LEMMA LineKept ==
    ASSUME NEW all \in Text, NEW t \in Text, Holds(all, 0, t), NEW line \in Text, NEW a \in Nat,
           LineAt(all, a, line), a + Len(line) < Len(t)
    PROVE  LineAt(t, a, line) /\ t[a + Len(line) + 1] = all[a + Len(line) + 1]
  <1>1. Len(line) \in Nat /\ Len(t) \in Nat
    BY DEF Text
  <1>2. \A j \in 1 .. Len(t) : all[j] = t[j]
    <2> SUFFICES ASSUME NEW j \in 1 .. Len(t) PROVE all[j] = t[j]
      OBVIOUS
    <2>1. 0 + j = j
      OBVIOUS
    <2>2. \A i \in 1 .. Len(t) : all[0 + i] = t[i]
      BY DEF Holds
    <2> QED BY <2>1, <2>2
  <1> DEFINE b == a + Len(line)
  <1>3. b + 1 \in 1 .. Len(t) /\ b <= Len(t)
    BY <1>1
  <1>4. t[b + 1] = all[b + 1]
    BY <1>2, <1>3
  <1>5. ASSUME NEW j \in 1 .. Len(line) PROVE t[a + j] = line[j]
    <2>1. a + j \in 1 .. Len(t)
      BY <1>1, <1>3
    <2>2. all[a + j] = line[j]
      BY DEF LineAt, Holds
    <2> QED BY <2>1, <2>2, <1>2
  <1>6. Holds(t, a, line)
    BY <1>3, <1>5 DEF Holds
  <1>7. all[b + 1] \in {Separator, Newline}
    BY DEF LineAt
  <1> QED BY <1>4, <1>6, <1>7 DEF LineAt

\* csv2yapet, behind the first k lines of a file that may have been cut off: it
\* reads the next line if that is there, and nothing otherwise.
NextIs(t, lines, k) ==
    LET read == ReadLine(t, 1 + Len(UpTo(lines, k)))
    IN  \/ /\ k < Len(lines) /\ read.ok /\ read.line = lines[k + 1]
           /\ read.next = 1 + Len(UpTo(lines, k + 1))
        \/ /\ read.next = 0
           /\ t = File(lines) => read.ok /\ k = Len(lines)

LEMMA NextLine ==
    ASSUME NEW lines, NEW rows, Coded(lines, rows), NEW t \in Text, Holds(File(lines), 0, t),
           NEW k \in 0 .. Len(lines), Len(UpTo(lines, k)) <= Len(t)
    PROVE  NextIs(t, lines, k)
  <1> DEFINE a == Len(UpTo(lines, k))
             p == 1 + a
             all == File(lines)
             n == Len(lines)
  <1>1. lines \in Seq(Text) /\ rows \in Seq(Rows) /\ Len(rows) = n /\ n \in Nat
    BY DEF Coded
  <1>2. all \in Text /\ UpTo(lines, k) \in Text
    BY <1>1, UpToTyped DEF File
  <1>3. a \in Nat /\ Len(t) \in Nat /\ Len(all) \in Nat /\ Len(t) <= Len(all) /\ a <= Len(t)
    <2>1. a \in Nat /\ Len(t) \in Nat /\ Len(all) \in Nat
      BY <1>2 DEF Text
    <2>2. 0 + Len(t) <= Len(all)
      BY DEF Holds
    <2> HIDE DEF all, a
    <2>3. Len(t) <= Len(all)
      BY <2>1, <2>2
    <2>4. a <= Len(t)
      BY DEF a
    <2> QED BY <2>1, <2>3, <2>4
  <1>4. p \in 1 .. Len(t) + 1 /\ p - 1 = a /\ p \in 1 .. Len(all) + 1
    BY <1>3
  <1>5. Holds(all, 0, t)
    OBVIOUS
  <1>6. CASE k = n
    <2>1. a = Len(all)
      BY <1>6 DEF File
    <2> HIDE DEF a, all
    <2>2. p = Len(t) + 1
      BY <2>1, <1>3
    <2> HIDE DEF p
    <2>3. ReadLine(t, p).ok /\ ReadLine(t, p).next = 0
      BY <2>2, ReadNothing
    <2> QED BY <2>3, <1>6 DEF NextIs, p, a, n
  <1>7. CASE k < n
    <2> DEFINE i == k + 1
               line == lines[i]
               b == a + Len(line)
    <2>1. i \in 1 .. n /\ i - 1 = k /\ i \in 1 .. Len(rows)
      BY <1>1, <1>7
    <2>2. PICK es \in Seq(Text) : line = JoinFields(es) /\ Encoded(es, rows[i])
      <3> HIDE DEF i
      <3> QED BY <2>1 DEF Coded
    <2>3. rows[i] \in Seq(Text)
      <3> HIDE DEF i
      <3> QED BY <2>1, <1>1 DEF Rows
    <2>4. LineAt(all, a, line) /\ all[b + 1] = Newline /\ Len(UpTo(lines, i)) = b + 1
      <3>1. LET c == Len(UpTo(lines, i - 1))
                d == c + Len(lines[i])
            IN  /\ LineAt(File(lines), c, lines[i]) /\ File(lines)[d + 1] = Newline
                /\ Len(UpTo(lines, i)) = d + 1
        <4> HIDE DEF i
        <4> QED BY <1>1, <2>1, LinePlace
      <3> HIDE DEF i
      <3> QED BY <3>1, <2>1
    <2>5. line \in Text /\ Len(line) \in Nat
      BY <1>1, <2>1 DEF Text
    <2> DEFINE r == rows[i]
    <2>6. /\ Encoded(es, r) /\ r \in Seq(Text) /\ line = JoinFields(es)
          /\ LineAt(all, p - 1, JoinFields(es))
      BY <2>2, <2>3, <2>4, <1>4
    <2> HIDE DEF a, p, all, n, i, line, r
    <2>7. CASE b + 1 <= Len(t)
      <3>1. a + Len(line) < Len(t)
        BY <2>5, <2>7, <1>3
      <3>2. LineAt(t, a, line) /\ t[a + Len(line) + 1] = all[a + Len(line) + 1]
        BY <3>1, <1>2, <1>3, <1>5, <2>4, <2>5, LineKept
      <3> DEFINE e == p + Len(JoinFields(es))
      <3>3. e = b + 1 /\ e = p + Len(JoinFields(es)) /\ e + 1 = 1 + (b + 1)
        BY <2>5, <2>6, <1>3 DEF p
      <3>4. t[e] = Newline /\ LineAt(t, p - 1, JoinFields(es))
        BY <3>2, <3>3, <2>4, <2>6, <1>4
      <3> HIDE DEF e, b
      <3>5. /\ ReadLine(t, p).ok /\ ReadLine(t, p).line = JoinFields(es)
            /\ ReadLine(t, p).next = e + 1
        BY <1>4, <2>6, <3>3, <3>4, ReadWhole
      <3>6. ReadLine(t, p).next = 1 + Len(UpTo(lines, i))
        BY <3>3, <3>5, <2>4
      <3> QED BY <3>5, <3>6, <2>6, <1>7 DEF NextIs, p, a, n, i, line
    <2>8. CASE ~(b + 1 <= Len(t))
      <3>1. Len(t) <= b /\ b = p - 1 + Len(JoinFields(es))
        BY <2>5, <2>6, <2>8, <1>3, <1>4
      <3> HIDE DEF b
      <3>2. ReadLine(t, p).next = 0
        BY <3>1, <1>2, <1>4, <1>5, <2>6, ReadCutLine
      <3>3. t # all
        <4>1. a + Len(line) < Len(all)
          BY <2>4 DEF LineAt
        <4> QED BY <4>1, <3>1, <1>3 DEF b
      <3> QED BY <3>2, <3>3 DEF NextIs, p, a, all
    <2> QED BY <2>7, <2>8
  <1> QED BY <1>1, <1>6, <1>7

\* What is in the lines that it reads.
LEMMA LineOfFile ==
    ASSUME NEW lines, NEW rows, Coded(lines, rows), NEW i \in 1 .. Len(lines)
    PROVE  /\ Reported(lines[i]) <=> Len(lines[i]) > MaxLine
           /\ DOMAIN Fields(lines[i]) = 1 .. NumberOfFields
           /\ \A f \in 1 .. NumberOfFields :
                 Fields(lines[i])[f] = [ok |-> TRUE, text |-> rows[i][f]]
  <1>1. i \in 1 .. Len(rows) /\ rows[i] \in Rows
    BY DEF Coded
  <1>2. PICK es \in Seq(Text) : lines[i] = JoinFields(es) /\ Encoded(es, rows[i])
    BY <1>1 DEF Coded
  <1> DEFINE r == rows[i]
  <1>3. r \in Rows /\ Encoded(es, r)
    BY <1>1, <1>2
  <1> HIDE DEF r
  <1>4. /\ Reported(JoinFields(es)) <=> Len(JoinFields(es)) > MaxLine
        /\ DOMAIN Fields(JoinFields(es)) = 1 .. NumberOfFields
        /\ \A f \in 1 .. NumberOfFields : Fields(JoinFields(es))[f] = [ok |-> TRUE, text |-> r[f]]
    BY <1>3, LineBack
  <1> QED BY <1>2, <1>4 DEF r

-----------------------------------------------------------------------------
(***************************************************************************)
(* Long lines and short ones.                                               *)
(***************************************************************************)
Sift(t, s, lines, short, i) ==
    IF (Len(lines[i]) <= MaxLine) = short THEN Append(t, s[i]) ELSE t

LEMMA SiftedIs ==
    ASSUME NEW S, NEW s \in Seq(S), NEW lines, NEW short
    PROVE  /\ Sifted(s, lines, short) \in [0 .. Len(s) -> Seq(S)]
           /\ Sifted(s, lines, short)[0] = <<>>
           /\ \A i \in 1 .. Len(s) : Sifted(s, lines, short)[i]
                                     = Sift(Sifted(s, lines, short)[i - 1], s, lines, short, i)
  <1> DEFINE n == Len(s)
             F == Sifted(s, lines, short)
             step == [i \in 0 + 1 .. n |-> [t \in Seq(S) |-> Sift(t, s, lines, short, i)]]
  <1>1. n \in Nat /\ 0 \in Nat /\ 0 <= n /\ 0 + 1 = 1 /\ \A i \in 1 .. n : s[i] \in S
    OBVIOUS
  <1>2. <<>> \in Seq(S)
    OBVIOUS
  <1>3. ASSUME NEW i \in 1 .. n, NEW t \in Seq(S) PROVE Sift(t, s, lines, short, i) \in Seq(S)
    BY <1>1 DEF Sift
  <1>4. step \in Steps(0, n, Seq(S))
    BY <1>1, <1>3 DEF Steps
  <1>5. \A i \in 1 .. n : \A t \in Seq(S) : step[i][t] = Sift(t, s, lines, short, i)
    BY <1>1
  <1>6. F = CHOOSE g : g = [i \in 0 .. n |->
                              IF i = 0 THEN <<>> ELSE Sift(g[i - 1], s, lines, short, i)]
    BY DEF Sifted, Sift
  <1> HIDE DEF n, step, F
  <1>7. PICK f : Recurs(f, 0, n, Seq(S), <<>>, step)
    BY <1>1, <1>2, <1>4, Recursion
  <1>8. \A i \in 1 .. n : f[i] = Sift(f[i - 1], s, lines, short, i)
    <2> SUFFICES ASSUME NEW i \in 1 .. n PROVE f[i] = Sift(f[i - 1], s, lines, short, i)
      OBVIOUS
    <2>1. i - 1 \in 0 .. n /\ i \in 0 + 1 .. n
      BY <1>1
    <2>2. f[i - 1] \in Seq(S)
      BY <2>1, <1>7 DEF Recurs
    <2>3. f[i] = step[i][f[i - 1]]
      BY <2>1, <1>7 DEF Recurs
    <2> QED BY <2>2, <2>3, <1>5
  <1>9. f = [i \in 0 .. n |-> IF i = 0 THEN <<>> ELSE Sift(f[i - 1], s, lines, short, i)]
    BY <1>1, <1>7, <1>8 DEF Recurs
  <1>10. F = [i \in 0 .. n |-> IF i = 0 THEN <<>> ELSE Sift(F[i - 1], s, lines, short, i)]
    BY <1>6, <1>9
  <1>11. F[0] = <<>> /\ \A i \in 1 .. n : F[i] = Sift(F[i - 1], s, lines, short, i)
    BY <1>1, <1>10
  <1>12. \A i \in 0 .. n : F[i] \in Seq(S)
    <2> DEFINE T == {i \in 0 .. n : F[i] \in Seq(S)}
    <2>1. 0 \in T
      <3>1. F[0] \in Seq(S)
        BY <1>2, <1>11
      <3> QED BY <3>1, <1>1
    <2>2. \A i \in 0 .. n - 1 : i \in T => i + 1 \in T
      <3> SUFFICES ASSUME NEW i \in 0 .. n - 1, i \in T PROVE i + 1 \in T
        OBVIOUS
      <3> DEFINE k == i + 1
      <3>1. k \in 1 .. n /\ k - 1 = i /\ k \in 0 .. n /\ i \in 0 .. n
        BY <1>1
      <3>2. F[i] \in Seq(S)
        OBVIOUS
      <3> HIDE DEF k, T
      <3>3. F[k] = Sift(F[i], s, lines, short, k)
        BY <3>1, <1>11
      <3>4. F[k] \in Seq(S)
        BY <3>1, <3>2, <3>3, <1>3
      <3> QED BY <3>1, <3>4 DEF T, k
    <2> HIDE DEF T
    <2>3. \A i \in 0 .. n : i \in T
      BY <1>1, <2>1, <2>2, Upwards
    <2> QED BY <2>3 DEF T
  <1>13. F \in [0 .. n -> Seq(S)]
    BY <1>10, <1>12
  <1> QED BY <1>11, <1>13 DEF F, n

\* The same for the two values of short.
LEMMA SiftedBoth ==
    ASSUME NEW S, NEW s \in Seq(S), NEW lines
    PROVE  \A short : LET F == Sifted(s, lines, short)
                      IN  /\ F \in [0 .. Len(s) -> Seq(S)] /\ F[0] = <<>>
                          /\ \A i \in 1 .. Len(s) : F[i] = Sift(F[i - 1], s, lines, short, i)
  BY SiftedIs

LEMMA PrefixGrows ==
    ASSUME NEW S, NEW s \in Seq(S), NEW t \in Seq(S), NEW x \in S, IsPrefix(s, t)
    PROVE  IsPrefix(s, Append(t, x))
  <1>1. Append(t, x) \in Seq(S) /\ Len(Append(t, x)) = Len(t) + 1
        /\ \A j \in 1 .. Len(t) : Append(t, x)[j] = t[j]
    OBVIOUS
  <1>2. Len(s) <= Len(t) /\ SubSeq(s, 1, Len(s)) = SubSeq(t, 1, Len(s))
    BY DEF IsPrefix
  <1> DEFINE u == Append(t, x)
  <1> HIDE DEF u
  <1>3. SubSeq(u, 1, Len(s)) = SubSeq(t, 1, Len(s))
    BY <1>1, <1>2 DEF u
  <1>4. Len(s) <= Len(u)
    BY <1>1, <1>2 DEF u
  <1> QED BY <1>2, <1>3, <1>4 DEF IsPrefix, u

LEMMA SiftedGrows ==
    ASSUME NEW S, NEW s \in Seq(S), NEW lines, NEW short, NEW k \in 0 .. Len(s)
    PROVE  IsPrefix(Sifted(s, lines, short)[k], Sifted(s, lines, short)[Len(s)])
  <1> DEFINE n == Len(s)
             F == Sifted(s, lines, short)
             T == {i \in k .. n : IsPrefix(F[k], F[i])}
  <1>1. /\ n \in Nat /\ k \in Nat /\ k <= n /\ F \in [0 .. n -> Seq(S)]
        /\ \A i \in 1 .. n : s[i] \in S /\ F[i] = Sift(F[i - 1], s, lines, short, i)
    BY SiftedIs
  <1> HIDE DEF F, T, n
  <1>2. k \in T
    <2>1. F[k] \in Seq(S)
      BY <1>1
    <2> QED BY <2>1, <1>1, PrefixOf DEF T
  <1>3. \A i \in k .. n - 1 : i \in T => i + 1 \in T
    <2> SUFFICES ASSUME NEW i \in k .. n - 1, i \in T PROVE i + 1 \in T
      OBVIOUS
    <2> DEFINE j == i + 1
    <2>1. j \in 1 .. n /\ j - 1 = i /\ j \in k .. n /\ i \in 0 .. n /\ k \in 0 .. n
      BY <1>1
    <2>2. F[i] \in Seq(S) /\ F[k] \in Seq(S) /\ IsPrefix(F[k], F[i])
      BY <1>1, <2>1 DEF T
    <2> HIDE DEF j
    <2>3. F[j] = Sift(F[i], s, lines, short, j) /\ s[j] \in S
      BY <1>1, <2>1
    <2>4. IsPrefix(F[k], Append(F[i], s[j]))
      BY <2>2, <2>3, PrefixGrows
    <2>5. IsPrefix(F[k], F[j])
      BY <2>2, <2>3, <2>4 DEF Sift
    <2> QED BY <2>1, <2>5 DEF T, j
  <1>4. \A i \in k .. n : i \in T
    BY <1>1, <1>2, <1>3, Upwards
  <1>5. n \in T
    BY <1>1, <1>4
  <1> QED BY <1>5 DEF T, F, n

LEMMA MaxLineIs == MaxLine \in Nat
  <1> DEFINE k == NumberOfFields * FieldSize
  <1>1. k \in Nat
    BY NumberPositive, TablesAssumption
  <1>2. MaxLine = k + NumberOfFields - 1
    BY DEF MaxLine
  <1> HIDE DEF k
  <1> QED BY <1>1, <1>2, NumberPositive

\* Only lines that are too long are among the long ones.
LEMMA SiftedLong ==
    ASSUME NEW lines \in Seq(Text), NEW k \in 0 .. Len(lines)
    PROVE  LET long == Sifted(lines, lines, FALSE)[k]
           IN  \A i \in DOMAIN long : Len(long[i]) > MaxLine
  <1> DEFINE n == Len(lines)
             F == Sifted(lines, lines, FALSE)
             Long(t) == \A i \in DOMAIN t : Len(t[i]) > MaxLine
             T == {i \in 0 .. n : Long(F[i])}
  <1>0. /\ F \in [0 .. Len(lines) -> Seq(Text)] /\ F[0] = <<>>
        /\ \A i \in 1 .. Len(lines) : F[i] = Sift(F[i - 1], lines, lines, FALSE, i)
    <2>1. \A short : LET H == Sifted(lines, lines, short)
                     IN  /\ H \in [0 .. Len(lines) -> Seq(Text)] /\ H[0] = <<>>
                         /\ \A i \in 1 .. Len(lines) : H[i] = Sift(H[i - 1], lines, lines, short, i)
      BY SiftedBoth
    <2> QED BY <2>1, Zenon
  <1> HIDE DEF F
  <1>1. /\ n \in Nat /\ 0 \in Nat /\ F \in [0 .. n -> Seq(Text)] /\ F[0] = <<>>
        /\ \A i \in 1 .. n : /\ lines[i] \in Text
                             /\ F[i] = Sift(F[i - 1], lines, lines, FALSE, i)
    <2>1. \A i \in 1 .. n : lines[i] \in Text
      OBVIOUS
    <2>2. n \in Nat /\ 0 \in Nat
      OBVIOUS
    <2> QED BY <1>0, <2>1, <2>2
  <1>2. ASSUME NEW t \in Seq(Text), NEW line \in Text, Long(t), Len(line) > MaxLine
        PROVE  Long(Append(t, line))
    <2>1. DOMAIN Append(t, line) = 1 .. Len(t) + 1
          /\ \A i \in 1 .. Len(t) + 1 : Append(t, line)[i] = IF i = Len(t) + 1 THEN line ELSE t[i]
      OBVIOUS
    <2>2. DOMAIN t = 1 .. Len(t) /\ Len(t) \in Nat
      OBVIOUS
    <2>3. ASSUME NEW i \in 1 .. Len(t) + 1 PROVE Len(Append(t, line)[i]) > MaxLine
      <3>1. CASE i = Len(t) + 1
        <4>1. Append(t, line)[i] = line
          BY <2>1, <3>1
        <4> QED BY <4>1, <1>2
      <3>2. CASE i # Len(t) + 1
        <4>1. i \in DOMAIN t
          BY <2>2, <3>2
        <4>2. Append(t, line)[i] = t[i]
          BY <2>1, <3>2
        <4> QED BY <4>1, <4>2, <1>2
      <3> QED BY <3>1, <3>2
    <2> QED BY <2>1, <2>3
  <1>3. Long(F[0])
    <2>1. DOMAIN <<>> = {}
      OBVIOUS
    <2> QED BY <1>1, <2>1
  <1> HIDE DEF T, n, Long
  <1>4. 0 \in T
    BY <1>1, <1>3 DEF T
  <1>5. \A i \in 0 .. n - 1 : i \in T => i + 1 \in T
    <2> SUFFICES ASSUME NEW i \in 0 .. n - 1, i \in T PROVE i + 1 \in T
      OBVIOUS
    <2> DEFINE j == i + 1
    <2>1. j \in 1 .. n /\ j - 1 = i /\ j \in 0 .. n /\ i \in 0 .. n
      BY <1>1
    <2>2. F[i] \in Seq(Text) /\ Long(F[i])
      BY <1>1, <2>1 DEF T
    <2> HIDE DEF j
    <2> DEFINE line == lines[j]
    <2>3. F[j] = Sift(F[i], lines, lines, FALSE, j) /\ line \in Text
      BY <1>1, <2>1
    <2>4. CASE Len(line) <= MaxLine
      <3>1. F[j] = F[i]
        BY <2>3, <2>4 DEF Sift
      <3> QED BY <3>1, <2>1, <2>2 DEF T, j
    <2>5. CASE ~(Len(line) <= MaxLine)
      <3>1. F[j] = Append(F[i], line)
        BY <2>3, <2>5 DEF Sift
      <3>2. Len(line) > MaxLine
        <4>1. Len(line) \in Nat
          BY <2>3 DEF Text
        <4> HIDE DEF line
        <4> QED BY <4>1, <2>5, MaxLineIs
      <3> HIDE DEF line
      <3>3. Long(Append(F[i], line))
        BY <2>2, <2>3, <3>2, <1>2
      <3> QED BY <3>1, <3>3, <2>1 DEF T, j
    <2> QED BY <2>4, <2>5
  <1>6. \A i \in 0 .. n : i \in T
    BY <1>1, <1>4, <1>5, Upwards
  <1>7. k \in T
    BY <1>6 DEF n
  <1> QED BY <1>7 DEF T, F, Long

-----------------------------------------------------------------------------
(***************************************************************************)
(* What the writers write.                                                  *)
(***************************************************************************)
WrittenLines == [i \in DOMAIN Written |-> GetLine(Written[i])]

OtherLines(always) == [i \in DOMAIN src |-> JoinFields(QuotedFields(src[i], always))]

LEMMA HoldsAll == ASSUME NEW S, NEW t \in Seq(S) PROVE Holds(t, 0, t)
  BY DEF Holds

\* A record of the file is the header or one of src.
LEMMA WrittenTyped ==
    src \in Tables =>
        /\ Written \in Seq(Rows) /\ DOMAIN Written = 1 .. Len(Written)
        /\ Written \in Seq({Header} \cup {src[j] : j \in DOMAIN src})
  <1> SUFFICES ASSUME src \in Tables
               PROVE  /\ Written \in Seq(Rows) /\ DOMAIN Written = 1 .. Len(Written)
                      /\ Written \in Seq({Header} \cup {src[j] : j \in DOMAIN src})
    OBVIOUS
  <1> DEFINE S == {Header} \cup {src[j] : j \in DOMAIN src}
  <1>1. src \in Seq(Rows) /\ Header \in Rows
    BY SourceRows, HeaderRow
  <1>2. S \subseteq Rows
    BY <1>1
  <1>3. src \in Seq(S) /\ <<Header>> \in Seq(S)
    BY <1>1
  <1> HIDE DEF S
  <1>4. <<Header>> \o src \in Seq(S)
    BY <1>3
  <1>5. Written \in Seq(S)
    BY <1>3, <1>4 DEF Written
  <1>6. Written \in Seq(Rows) /\ DOMAIN Written = 1 .. Len(Written)
    BY <1>2, <1>5
  <1> QED BY <1>5, <1>6 DEF S

LEMMA LinesTyped ==
    src \in Tables =>
        /\ WrittenLines \in Seq(Text) /\ Len(WrittenLines) = Len(Written)
        /\ \A i \in 1 .. Len(Written) : /\ WrittenLines[i] = GetLine(Written[i])
                                        /\ Written[i] \in Rows
  <1> SUFFICES ASSUME src \in Tables
               PROVE  /\ WrittenLines \in Seq(Text) /\ Len(WrittenLines) = Len(Written)
                      /\ \A i \in 1 .. Len(Written) : /\ WrittenLines[i] = GetLine(Written[i])
                                                      /\ Written[i] \in Rows
    OBVIOUS
  <1>1. Written \in Seq(Rows) /\ DOMAIN Written = 1 .. Len(Written)
    BY WrittenTyped
  <1>2. ASSUME NEW i \in 1 .. Len(Written) PROVE Written[i] \in Rows /\ GetLine(Written[i]) \in Text
    <2>1. Written[i] \in Rows
      BY <1>1
    <2>2. Written[i] \in Seq(Text)
      BY <2>1 DEF Rows
    <2> QED BY <2>1, <2>2, GetLineTyped
  <1> DEFINE n == Len(Written)
  <1>3. n \in Nat
    BY <1>1
  <1>4. WrittenLines = [i \in 1 .. n |-> GetLine(Written[i])]
    BY <1>1 DEF WrittenLines
  <1>5. \A i \in 1 .. n : Written[i] \in Rows /\ GetLine(Written[i]) \in Text
    BY <1>2
  <1> HIDE DEF n
  <1>6. WrittenLines \in Seq(Text) /\ Len(WrittenLines) = n
    BY <1>3, <1>4, <1>5
  <1> QED BY <1>4, <1>5, <1>6 DEF n

LEMMA WrittenCoded ==
    ASSUME src \in Tables, NoLeadingQuote
    PROVE  Coded(WrittenLines, Written)
  <1>1. ASSUME NEW i \in 1 .. Len(Written)
        PROVE  \E es \in Seq(Text) : WrittenLines[i] = JoinFields(es) /\ Encoded(es, Written[i])
    <2> DEFINE r == Written[i]
    <2>1. r \in Rows /\ WrittenLines[i] = GetLine(r)
      BY LinesTyped
    <2>2. r \in {Header} \cup {src[j] : j \in DOMAIN src}
      BY WrittenTyped
    <2>3. \A f \in DOMAIN r : r[f] # <<>> => r[f][1] # Quote
      BY <2>2, HeaderAssumption DEF NoLeadingQuote
    <2> HIDE DEF r
    <2>4. Escaped(r) \in Seq(Text) /\ Encoded(Escaped(r), r) /\ GetLine(r) = JoinFields(Escaped(r))
      BY <2>1, <2>3, RecordEncoded
    <2> QED BY <2>1, <2>4 DEF r
  <1> QED BY <1>1, LinesTyped, WrittenTyped DEF Coded

LEMMA OtherCoded ==
    ASSUME src \in Tables, \A i \in DOMAIN src : ~BlankThenQuote(src[i]), NEW always \in BOOLEAN
    PROVE  /\ Coded(OtherLines(always), src)
           /\ FlattenSeq([i \in DOMAIN src |-> QuotedLine(src[i], always)]) = File(OtherLines(always))
  <1> DEFINE n == Len(src)
             lines == OtherLines(always)
             E(i) == QuotedFields(src[i], always)
  <1>1. src \in Seq(Rows) /\ n \in Nat /\ DOMAIN src = 1 .. n
    BY SourceRows
  <1>2. ASSUME NEW i \in 1 .. n
        PROVE  /\ E(i) \in Seq(Text) /\ Encoded(E(i), src[i]) /\ JoinFields(E(i)) \in Text
               /\ QuotedLine(src[i], always) = Append(JoinFields(E(i)), Newline)
    <2> DEFINE r == src[i]
    <2>1. r \in Rows /\ ~BlankThenQuote(r)
      BY <1>1
    <2> HIDE DEF r
    <2>2. /\ QuotedFields(r, always) \in Seq(Text) /\ Encoded(QuotedFields(r, always), r)
          /\ QuotedLine(r, always) = Append(JoinFields(QuotedFields(r, always)), Newline)
      BY <2>1, QuotedEncoded
    <2>3. JoinFields(QuotedFields(r, always)) \in Text
      BY <2>2, JoinFieldsTyped
    <2> QED BY <2>2, <2>3 DEF r
  <1>3. lines = [i \in 1 .. n |-> JoinFields(E(i))]
    BY <1>1 DEF OtherLines
  <1> HIDE DEF n, lines, E
  <1>4. lines \in Seq(Text) /\ Len(lines) = n /\ DOMAIN lines = 1 .. n
    BY <1>1, <1>2, <1>3
  <1>5. \A i \in 1 .. n : lines[i] = JoinFields(E(i))
    BY <1>3
  <1>6. Coded(lines, src)
    <2>1. \A i \in 1 .. n : \E es \in Seq(Text) : lines[i] = JoinFields(es) /\ Encoded(es, src[i])
      BY <1>2, <1>5
    <2> QED BY <1>1, <1>4, <2>1 DEF Coded, n
  <1>7. [i \in DOMAIN src |-> QuotedLine(src[i], always)] = Ended(lines)
    BY <1>1, <1>2, <1>4, <1>5 DEF Ended
  <1>8. FlattenSeq(Ended(lines)) = File(lines)
    <2>1. Ended(lines) \in Seq(Seq(Chars)) /\ Len(Ended(lines)) = Len(lines)
      BY <1>4, EndedTyped
    <2> QED BY <2>1, FlattenIs DEF File, UpTo
  <1> QED BY <1>6, <1>7, <1>8 DEF lines

-----------------------------------------------------------------------------
(***************************************************************************)
(* yapet2csv.                                                               *)
(***************************************************************************)
\* As long as the disk is not full the file holds the lines up to one, and the
\* records behind it are still to be written.
Exported == \E k \in 0 .. Len(Written) :
                csv = UpTo(WrittenLines, k) /\ todo = SubSeq(Written, k + 1, Len(Written))

\* What there is of the file is the beginning of what is to be written, all of
\* it unless the disk was full.
ExportInv ==
    /\ writer \in {"nobody", "other"} => ~full
    /\ status = "exports" => writer \in {"nobody", "other"}
    /\ status = "export" => writer = "yapet2csv"
    /\ writer = "yapet2csv" => /\ Holds(File(WrittenLines), 0, csv)
                               /\ ~full => Exported
                               /\ status # "export" => todo = <<>>
    /\ writer = "other" => \E always \in BOOLEAN :
           csv = FlattenSeq([i \in DOMAIN src |-> QuotedLine(src[i], always)])

\* A line, or the part of it that fitted on the disk.
LEMMA LineWritten ==
    ASSUME NEW lines \in Seq(Text), NEW k \in 1 .. Len(lines),
           NEW m \in 0 .. Len(Append(lines[k], Newline))
    PROVE  LET t == Joined(UpTo(lines, k - 1), SubSeq(Append(lines[k], Newline), 1, m))
           IN  /\ Holds(File(lines), 0, t)
               /\ m = Len(Append(lines[k], Newline)) => t = UpTo(lines, k)
  <1> DEFINE a == UpTo(lines, k - 1)
             u == Append(lines[k], Newline)
             all == UpTo(lines, k)
             w == SubSeq(u, 1, m)
             t == Joined(a, w)
             end == File(lines)
  <1>1. k - 1 \in 0 .. Len(lines) /\ k \in 0 .. Len(lines) /\ lines[k] \in Seq(Chars)
    BY DEF Text
  <1>2. a \in Seq(Chars) /\ all \in Seq(Chars) /\ Holds(end, 0, all)
    BY <1>1, UpToTyped DEF Text
  <1>3. u \in Seq(Chars)
    BY <1>1, SpecialChars
  <1>4. all = Joined(a, u)
    BY UpToNext
  <1>5. m \in 0 .. Len(u)
    OBVIOUS
  <1> HIDE DEF a, u, all, end
  <1>6. w \in Seq(Chars) /\ Len(w) = m /\ \A j \in 1 .. m : w[j] = u[j]
    BY <1>3, <1>5
  <1>7. m = Len(u) => w = u
    BY <1>3, <1>5
  <1> HIDE DEF w
  <1>8. t \in Seq(Chars) /\ Len(t) = Len(a) + m /\ Len(all) = Len(a) + Len(u)
    BY <1>2, <1>3, <1>4, <1>6, JoinTyped
  <1>9. \A j \in 1 .. Len(a) : t[j] = a[j] /\ all[j] = a[j]
    BY <1>2, <1>3, <1>4, <1>6, JoinFirst
  <1>10. \A j \in 1 .. m : t[Len(a) + j] = w[j] /\ all[Len(a) + j] = u[j]
    <2>0. w \in Seq(Chars) /\ a \in Seq(Chars)
      BY <1>2, <1>6
    <2>1. \A j \in 1 .. Len(w) : Joined(a, w)[Len(a) + j] = w[j]
      BY <2>0, JoinSecond
    <2>2. \A j \in 1 .. Len(u) : Joined(a, u)[Len(a) + j] = u[j]
      BY <1>2, <1>3, JoinSecond
    <2>3. Len(u) \in Nat
      BY <1>3
    <2>4. \A j \in 1 .. m : j \in 1 .. Len(u)
      BY <2>3, <1>5
    <2> QED BY <2>1, <2>2, <2>4, <1>4, <1>6
  <1>11. m = Len(u) => t = all
    BY <1>4, <1>7
  <1> DEFINE x == Len(a)
             y == Len(u)
  <1>12. x \in Nat /\ y \in Nat /\ m \in 0 .. y
    BY <1>2, <1>3, <1>5
  <1> HIDE DEF t, x, y
  <1>13. Holds(all, 0, t)
    <2>1. ASSUME NEW j \in 1 .. x + m PROVE all[0 + j] = t[j]
      <3>1. 0 + j = j
        OBVIOUS
      <3>2. CASE j <= x
        <4>1. j \in 1 .. x
          BY <3>2, <1>12
        <4> QED BY <3>1, <4>1, <1>9 DEF x
      <3>3. CASE ~(j <= x)
        <4> DEFINE i == j - x
        <4>1. i \in 1 .. m /\ x + i = j
          BY <3>3, <1>12
        <4> HIDE DEF i
        <4>2. t[x + i] = w[i] /\ all[x + i] = u[i] /\ w[i] = u[i]
          BY <4>1, <1>6, <1>10 DEF x
        <4> QED BY <3>1, <4>1, <4>2
      <3> QED BY <3>2, <3>3
    <2>2. Len(t) = x + m /\ Len(all) = x + y
      BY <1>8 DEF x, y
    <2>3. 0 + Len(t) <= Len(all)
      BY <2>2, <1>12
    <2>4. \A j \in 1 .. Len(t) : all[0 + j] = t[j]
      BY <2>1, <2>2
    <2> QED BY <2>3, <2>4 DEF Holds
  <1>14. Holds(end, 0, t)
    <2>1. end \in Seq(Chars)
      <3>1. Len(lines) \in 0 .. Len(lines)
        OBVIOUS
      <3> QED BY <3>1, UpToTyped DEF File, Text, end
    <2> QED BY <2>1, <1>2, <1>8, <1>13, BeginsOn
  <1> QED BY <1>11, <1>14 DEF t, w, u, a, all, end

LEMMA ExportInit == Init => ExportInv
  BY DEF Init, ExportInv

\* What does not write the file.
LEMMA ExportFrame ==
    ASSUME ExportInv, UNCHANGED <<src, writer, header, csv, todo, full>>,
           status' = "exports" => status = "exports" \/ writer = "nobody",
           status' = "export" => status = "export",
           status = "export" => status' = "export" \/ todo = <<>>
    PROVE  ExportInv'
  <1>1. Written' = Written
    BY DEF Written
  <1>2. WrittenLines' = WrittenLines
    BY <1>1 DEF WrittenLines
  <1>3. Exported' = Exported
    BY <1>1, <1>2 DEF Exported
  <1>4. writer = "yapet2csv" => Holds(File(WrittenLines'), 0, csv')
    BY <1>2 DEF ExportInv
  <1>5. writer = "other" => \E always \in BOOLEAN :
           csv' = FlattenSeq([k \in DOMAIN src' |-> QuotedLine(src'[k], always)])
    BY DEF ExportInv
  <1> QED BY <1>3, <1>4, <1>5 DEF ExportInv

LEMMA ExportMain ==
    ASSUME ExportInv, Usage \/ AskPassword \/ Mismatch \/ AskExportPassword \/ OtherFile
    PROVE  ExportInv'
  BY ExportFrame DEF Usage, AskPassword, Mismatch, AskExportPassword, OtherFile, exporting

LEMMA ExportImport ==
    ASSUME ExportInv, Refuse \/ CreateFails \/ Import \/ ImportLine \/ Over \/ UNCHANGED vars
    PROVE  ExportInv'
  BY ExportFrame DEF Refuse, Ends, CreateFails, Import, ImportLine, Abort, Save, ReportLine,
         AddRecord, Over, vars, exporting

LEMMA ExportOther ==
    ASSUME TypeInv, ExportInv, OtherProgram
    PROVE  ExportInv'
  BY DEF ExportInv, OtherProgram, importing

LEMMA ExportEnds ==
    ASSUME ExportInv, ExportFails \/ ExportDone
    PROVE  ExportInv'
  <1>1. CASE ExportDone
    BY <1>1, ExportFrame DEF ExportDone, exporting
  <1>2. CASE ExportFails
    BY <1>2 DEF ExportFails, ExportInv
  <1> QED BY <1>1, <1>2

LEMMA ExportBegins ==
    ASSUME TypeInv, ExportInv, Export
    PROVE  ExportInv'
  <1>1. csv' = <<>> /\ todo' = Written' /\ src' \in Tables /\ full' = FALSE
        /\ writer' = "yapet2csv" /\ status' = "export"
    BY DEF Export, Written, ExportInv, TypeInv
  <1>0. (src \in Tables)'
    BY <1>1
  <1>2. (Written \in Seq(Rows))'
    BY <1>0, WrittenTyped, PTL
  <1>3. (WrittenLines \in Seq(Text))'
    BY <1>0, LinesTyped, PTL
  <1>4. UpTo(WrittenLines', 0) = <<>>
    BY <1>3, UpToFirst
  <1>5. 0 \in 0 .. Len(WrittenLines')
    BY <1>3
  <1>6. Holds(File(WrittenLines'), 0, UpTo(WrittenLines', 0))
    BY <1>3, <1>5, UpToTyped
  <1>7. SubSeq(Written', 0 + 1, Len(Written')) = Written'
    BY <1>2
  <1>8. 0 \in 0 .. Len(Written')
    BY <1>2
  <1>9. Exported'
    BY <1>1, <1>4, <1>7, <1>8 DEF Exported
  <1> QED BY <1>1, <1>4, <1>6, <1>9 DEF ExportInv

LEMMA RestOf ==
    ASSUME NEW S, NEW s \in Seq(S), NEW k \in 0 .. Len(s), SubSeq(s, k + 1, Len(s)) # <<>>
    PROVE  /\ k + 1 \in 1 .. Len(s) /\ Head(SubSeq(s, k + 1, Len(s))) = s[k + 1]
           /\ Tail(SubSeq(s, k + 1, Len(s))) = SubSeq(s, k + 1 + 1, Len(s))
  <1> DEFINE n == Len(s)
             t == SubSeq(s, k + 1, n)
             u == SubSeq(s, k + 1 + 1, n)
  <1>1. n \in Nat /\ k \in 0 .. n
    OBVIOUS
  <1>2. k + 1 \in 1 .. n
    <2> SUFFICES ASSUME ~(k + 1 \in 1 .. n) PROVE FALSE
      OBVIOUS
    <2>1. k = n
      BY <1>1
    <2>2. SubSeq(s, n + 1, n) = <<>>
      OBVIOUS
    <2> QED BY <2>1, <2>2
  <1>3. t \in Seq(S) /\ Len(t) = n - k /\ \A j \in 1 .. n - k : t[j] = s[k + j]
    BY <1>2
  <1>4. u \in Seq(S) /\ Len(u) = n - k - 1 /\ \A j \in 1 .. n - k - 1 : u[j] = s[k + 1 + j]
    BY <1>2
  <1> HIDE DEF n, t, u
  <1>5. Head(t) = s[k + 1]
    BY <1>1, <1>2, <1>3
  <1>6. Tail(t) = u
    <2>1. Tail(t) \in Seq(S) /\ Len(Tail(t)) = n - k - 1
          /\ \A j \in 1 .. n - k - 1 : Tail(t)[j] = t[j + 1]
      BY <1>1, <1>2, <1>3
    <2>2. ASSUME NEW j \in 1 .. n - k - 1 PROVE Tail(t)[j] = u[j]
      <3>1. j + 1 \in 1 .. n - k /\ k + (j + 1) = k + 1 + j
        BY <1>1
      <3> QED BY <3>1, <2>1, <1>3, <1>4
    <2> QED BY <2>1, <2>2, <1>4
  <1> QED BY <1>2, <1>5, <1>6 DEF n, t, u

\* What the disk takes of a line follows what is there.
LEMMA ExportLine ==
    ASSUME TypeInv, ExportInv, ExportRecord
    PROVE  ExportInv'
  <1>1. /\ UNCHANGED <<src, writer, header, status>> /\ status = "export"
        /\ writer = "yapet2csv" /\ todo # <<>> /\ todo' = Tail(todo)
    BY DEF ExportRecord, ExportInv
  <1>2. Written' = Written
    BY <1>1 DEF Written
  <1>3. WrittenLines' = WrittenLines
    BY <1>2 DEF WrittenLines
  <1>4. src \in Tables /\ csv \in Seq(Chars)
    BY DEF TypeInv, Text
  <1> DEFINE line == Append(GetLine(Head(todo)), Newline)
             end == File(WrittenLines)
  <1>5. PICK n \in IF full THEN {0} ELSE 0 .. Len(line) :
            csv' = csv \o SubSeq(line, 1, n) /\ full' = (n < Len(line))
    BY DEF ExportRecord
  <1>6. Head(todo) \in Seq(Text)
    <2>1. todo \in Seq({Header} \cup {src[j] : j \in DOMAIN src})
      BY DEF TypeInv
    <2>2. src \in Seq(Rows) /\ Header \in Rows
      BY <1>4, SourceRows, HeaderRow
    <2>3. {Header} \cup {src[j] : j \in DOMAIN src} \subseteq Seq(Text)
      BY <2>2 DEF Rows
    <2> HIDE DEF Rows
    <2>4. Head(todo) \in {Header} \cup {src[j] : j \in DOMAIN src}
      BY <2>1, <1>1
    <2> QED BY <2>3, <2>4
  <1>7. line \in Seq(Chars) /\ Len(line) \in Nat /\ 0 < Len(line)
    <2>1. GetLine(Head(todo)) \in Seq(Chars)
      BY <1>6, GetLineTyped DEF Text
    <2> QED BY <2>1, SpecialChars
  <1>8. Holds(end, 0, csv) /\ (~full => Exported)
    BY <1>1 DEF ExportInv
  <1>9. Holds(end, 0, csv') /\ (~full' => Exported')
    <2>1. CASE full
      <3>1. n = 0
        BY <2>1
      <3> HIDE DEF line
      <3>2. csv' = csv
        BY <3>1, <1>4, <1>5, <1>7
      <3>3. full'
        BY <3>1, <1>5, <1>7
      <3> QED BY <3>2, <3>3, <1>8
    <2>2. CASE ~full
      <3>1. PICK k \in 0 .. Len(Written) :
                csv = UpTo(WrittenLines, k) /\ todo = SubSeq(Written, k + 1, Len(Written))
        BY <2>2, <1>8 DEF Exported
      <3>2. Written \in Seq(Rows) /\ WrittenLines \in Seq(Text) /\ Len(WrittenLines) = Len(Written)
            /\ \A i \in 1 .. Len(Written) : WrittenLines[i] = GetLine(Written[i])
        BY <1>4, WrittenTyped, LinesTyped
      <3>3. k + 1 \in 1 .. Len(Written) /\ Head(todo) = Written[k + 1]
            /\ Tail(todo) = SubSeq(Written, k + 1 + 1, Len(Written))
        BY <3>1, <3>2, <1>1, RestOf
      <3> DEFINE i == k + 1
      <3>4. i \in 1 .. Len(WrittenLines) /\ i - 1 = k /\ i \in 0 .. Len(Written)
        BY <3>2, <3>3
      <3>5. line = Append(WrittenLines[i], Newline)
        BY <3>2, <3>3
      <3>6. n \in 0 .. Len(line)
        BY <2>2
      <3> HIDE DEF i, line
      <3>7. csv' = Joined(UpTo(WrittenLines, i - 1), SubSeq(line, 1, n))
        BY <3>1, <3>4, <1>5 DEF Joined
      <3>8. Holds(end, 0, csv') /\ (n = Len(line) => csv' = UpTo(WrittenLines, i))
        BY <3>2, <3>4, <3>5, <3>6, <3>7, LineWritten
      <3>9. ASSUME ~full' PROVE Exported'
        <4>5. ~(n < Len(line))
          BY <3>9, <1>5
        <4>1. n = Len(line)
          BY <4>5, <3>6, <1>7
        <4>2. csv' = UpTo(WrittenLines', i)
          BY <4>1, <3>8, <1>3
        <4>3. todo' = SubSeq(Written', i + 1, Len(Written'))
          BY <1>1, <1>2, <3>3 DEF i
        <4>4. i \in 0 .. Len(Written')
          BY <1>2, <3>4
        <4> QED BY <4>2, <4>3, <4>4 DEF Exported
      <3> QED BY <3>8, <3>9
    <2> QED BY <2>1, <2>2
  <1>10. Holds(File(WrittenLines'), 0, csv')
    BY <1>3, <1>9
  <1> QED BY <1>1, <1>9, <1>10 DEF ExportInv

LEMMA ExportNext == TypeInv /\ ExportInv /\ [Next]_vars => ExportInv'
  BY ExportMain, ExportImport, ExportOther, ExportEnds, ExportBegins, ExportLine DEF Next

-----------------------------------------------------------------------------
(***************************************************************************)
(* csv2yapet.                                                               *)
(***************************************************************************)
\* It has read as far as a line, and has collected and reported what was there.
Imported(rows, lines) ==
    \E k \in 0 .. Len(rows) :
        /\ list = Sifted(rows, lines, TRUE)[k] /\ log = Sifted(lines, lines, FALSE)[k]
        /\ status = "import" => pos = 1 + Len(UpTo(lines, k))
        /\ status = "ok" => dst = list /\ (csv = File(lines) => k = Len(rows))

Fit(rows) == \A i \in 1 .. Len(rows) : \A f \in DOMAIN rows[i] : Len(rows[i][f]) <= FieldSize

\* Whatever records the file is the beginning of.
ReadsInv == \A rows, lines :
    Coded(lines, rows) /\ Fit(rows) /\ Holds(File(lines), 0, csv) => Imported(rows, lines)

LEMMA SiftedFirst ==
    ASSUME NEW rows, NEW lines, Coded(lines, rows)
    PROVE  Sifted(rows, lines, TRUE)[0] = <<>> /\ Sifted(lines, lines, FALSE)[0] = <<>>
           /\ 0 \in 0 .. Len(rows) /\ UpTo(lines, 0) = <<>>
  <1>1. rows \in Seq(Rows) /\ lines \in Seq(Text)
    BY DEF Coded
  <1>2. \A short : Sifted(rows, lines, short)[0] = <<>> /\ Sifted(lines, lines, short)[0] = <<>>
    BY <1>1, SiftedBoth
  <1>3. Sifted(rows, lines, TRUE)[0] = <<>> /\ Sifted(lines, lines, FALSE)[0] = <<>>
    BY <1>2, Zenon
  <1>4. 0 \in 0 .. Len(rows)
    BY <1>1
  <1> QED BY <1>1, <1>3, <1>4, UpToFirst

LEMMA ReadsBefore == list = <<>> /\ log = <<>> /\ pos = 1 /\ status # "ok" => ReadsInv
  <1> SUFFICES ASSUME list = <<>>, log = <<>>, pos = 1, status # "ok",
                      NEW rows, NEW lines, Coded(lines, rows)
               PROVE  Imported(rows, lines)
    BY DEF ReadsInv
  <1>1. Sifted(rows, lines, TRUE)[0] = <<>> /\ Sifted(lines, lines, FALSE)[0] = <<>>
        /\ 0 \in 0 .. Len(rows) /\ UpTo(lines, 0) = <<>>
    BY SiftedFirst
  <1>2. 1 + Len(UpTo(lines, 0)) = 1
    BY <1>1
  <1> QED BY <1>1, <1>2 DEF Imported

LEMMA ReadsKept ==
    ASSUME ReadsInv, UNCHANGED <<csv, list, log>>,
           status' = "import" => status = "import" /\ pos' = pos,
           status' = "ok" => status = "ok" /\ dst' = dst
    PROVE  ReadsInv'
  <1> SUFFICES ASSUME NEW rows, NEW lines, Coded(lines, rows), Fit(rows),
                      Holds(File(lines), 0, csv')
               PROVE  Imported(rows, lines)'
    BY DEF ReadsInv
  <1>1. Imported(rows, lines)
    BY DEF ReadsInv
  <1> QED BY <1>1 DEF Imported

\* One line more.
SiftsOn(rows, lines, i) ==
    LET G == Sifted(rows, lines, TRUE)
        F == Sifted(lines, lines, FALSE)
    IN  /\ Len(lines[i]) <= MaxLine => G[i] = Append(G[i - 1], rows[i]) /\ F[i] = F[i - 1]
        /\ ~(Len(lines[i]) <= MaxLine) => G[i] = G[i - 1] /\ F[i] = Append(F[i - 1], lines[i])

LEMMA SiftedStep ==
    ASSUME NEW rows, NEW lines, Coded(lines, rows), NEW i \in 1 .. Len(rows)
    PROVE  SiftsOn(rows, lines, i)
  <1>1. rows \in Seq(Rows) /\ lines \in Seq(Text) /\ Len(lines) = Len(rows)
    BY DEF Coded
  <1>2. \A short : /\ Sifted(rows, lines, short)[i]
                       = Sift(Sifted(rows, lines, short)[i - 1], rows, lines, short, i)
                   /\ Sifted(lines, lines, short)[i]
                       = Sift(Sifted(lines, lines, short)[i - 1], lines, lines, short, i)
    BY <1>1, SiftedBoth
  <1> DEFINE G == Sifted(rows, lines, TRUE)
             F == Sifted(lines, lines, FALSE)
  <1>3. G[i] = Sift(G[i - 1], rows, lines, TRUE, i) /\ F[i] = Sift(F[i - 1], lines, lines, FALSE, i)
    BY <1>2, Zenon
  <1> HIDE DEF F, G
  <1>4. CASE Len(lines[i]) <= MaxLine
    <2>1. (Len(lines[i]) <= MaxLine) = TRUE
      BY <1>4
    <2>2. G[i] = Append(G[i - 1], rows[i]) /\ F[i] = F[i - 1]
      BY <1>3, <2>1 DEF Sift
    <2> QED BY <2>2, <1>4 DEF SiftsOn, F, G
  <1>5. CASE ~(Len(lines[i]) <= MaxLine)
    <2>1. (Len(lines[i]) <= MaxLine) = FALSE
      BY <1>5
    <2>2. G[i] = G[i - 1] /\ F[i] = Append(F[i - 1], lines[i])
      BY <1>3, <2>1 DEF Sift
    <2> QED BY <2>2, <1>5 DEF SiftsOn, F, G
  <1> QED BY <1>4, <1>5

\* PasswordRecord keeps all of a field that fits.
LEMMA KeptAll ==
    ASSUME NEW s \in Text, Len(s) <= FieldSize
    PROVE  Kept(s) = s
  <1>1. s \in Seq(Chars) /\ Len(s) \in Nat
    BY DEF Text
  <1>2. Kept(s) = SubSeq(s, 1, Len(s))
    BY <1>1, TablesAssumption DEF Kept
  <1> QED BY <1>1, <1>2

LEMMA AddedIs ==
    ASSUME NEW rows, NEW lines, Coded(lines, rows), Fit(rows), NEW i \in 1 .. Len(rows)
    PROVE  LET fields == Fields(lines[i])
           IN  Readable(fields) /\ [f \in DOMAIN fields |-> Kept(fields[f].text)] = rows[i]
  <1> DEFINE fields == Fields(lines[i])
             r == rows[i]
  <1>1. r \in Rows /\ i \in 1 .. Len(lines)
    BY DEF Coded
  <1>2. r \in Seq(Text) /\ DOMAIN r = 1 .. NumberOfFields
        /\ \A f \in 1 .. NumberOfFields : r[f] \in Text
    <2>1. Len(r) = NumberOfFields
      BY <1>1 DEF Rows
    <2> HIDE DEF r
    <2> QED BY <1>1, <2>1, RowNotEmpty
  <1>3. DOMAIN fields = 1 .. NumberOfFields
        /\ \A f \in 1 .. NumberOfFields : fields[f] = [ok |-> TRUE, text |-> r[f]]
    BY <1>1, LineOfFile
  <1>4. \A f \in 1 .. NumberOfFields : Len(r[f]) <= FieldSize
    BY <1>2 DEF Fit
  <1> HIDE DEF fields, r
  <1>5. ASSUME NEW f \in 1 .. NumberOfFields
        PROVE  fields[f].ok /\ Kept(fields[f].text) = r[f]
    <2>1. fields[f].ok = TRUE /\ fields[f].text = r[f]
      BY <1>3
    <2>2. r[f] \in Text
      BY <1>2
    <2>3. Kept(r[f]) = r[f]
      BY <2>2, <1>4, KeptAll
    <2> QED BY <2>1, <2>3
  <1>6. Readable(fields)
    BY <1>3, <1>5 DEF Readable
  <1>7. [f \in DOMAIN fields |-> Kept(fields[f].text)] = r
    <2>1. r = [f \in 1 .. NumberOfFields |-> r[f]]
      <3>1. r \in [1 .. Len(r) -> Text]
        BY <1>2
      <3>2. r = [f \in DOMAIN r |-> r[f]]
        BY <3>1
      <3> QED BY <3>2, <1>2
    <2> QED BY <2>1, <1>3, <1>5
  <1> QED BY <1>6, <1>7 DEF fields, r

\* Where csv2yapet is in the file.
LEMMA ReadsFrom ==
    ASSUME NEW rows, NEW lines, Coded(lines, rows), Holds(File(lines), 0, csv), TypeInv,
           NEW k \in 0 .. Len(rows), pos = 1 + Len(UpTo(lines, k))
    PROVE  LET read == ReadLine(csv, pos)
           IN  \/ /\ k < Len(rows) /\ read.ok /\ read.line = lines[k + 1]
                  /\ read.next = 1 + Len(UpTo(lines, k + 1)) /\ read.next # 0
               \/ /\ read.next = 0
                  /\ csv = File(lines) => read.ok /\ k = Len(rows)
  <1>1. lines \in Seq(Text) /\ Len(lines) = Len(rows)
    BY DEF Coded
  <1>2. csv \in Text /\ pos \in 1 .. Len(csv) + 1 /\ Len(csv) \in Nat
    BY DEF TypeInv, Text
  <1>3. UpTo(lines, k) \in Text
    BY <1>1, UpToTyped
  <1> DEFINE a == Len(UpTo(lines, k))
  <1>4. a \in Nat
    BY <1>3 DEF Text
  <1>5. pos = 1 + a
    OBVIOUS
  <1> HIDE DEF a
  <1>6. a <= Len(csv)
    BY <1>2, <1>4, <1>5
  <1>7. NextIs(csv, lines, k)
    BY <1>1, <1>2, <1>6, NextLine DEF a
  <1>8. ASSUME k < Len(rows) PROVE 1 + Len(UpTo(lines, k + 1)) # 0
    <2>1. k + 1 \in 0 .. Len(lines)
      BY <1>1, <1>8
    <2>2. UpTo(lines, k + 1) \in Seq(Chars)
      BY <2>1, <1>1, UpToTyped DEF Text
    <2> HIDE DEF UpTo
    <2>3. Len(UpTo(lines, k + 1)) \in Nat
      BY <2>2
    <2> QED BY <2>3
  <1> QED BY <1>1, <1>5, <1>7, <1>8 DEF NextIs, a

\* A line is collected or reported, and that is as far as it has read then.
LEMMA ReadsLine ==
    ASSUME TypeInv, ReadsInv, ImportLine
    PROVE  ReadsInv'
  <1> SUFFICES ASSUME NEW rows, NEW lines, Coded(lines, rows), Fit(rows),
                      Holds(File(lines), 0, csv')
               PROVE  Imported(rows, lines)'
    BY DEF ReadsInv
  <1> DEFINE read == ReadLine(csv, pos)
             G == Sifted(rows, lines, TRUE)
             F == Sifted(lines, lines, FALSE)
  <1>0. \A j \in 1 .. Len(rows) :
            /\ Len(lines[j]) <= MaxLine => G[j] = Append(G[j - 1], rows[j]) /\ F[j] = F[j - 1]
            /\ ~(Len(lines[j]) <= MaxLine) => G[j] = G[j - 1] /\ F[j] = Append(F[j - 1], lines[j])
    <2>1. \A j \in 1 .. Len(rows) : SiftsOn(rows, lines, j)
      BY SiftedStep
    <2> QED BY <2>1 DEF SiftsOn
  <1>1. csv' = csv /\ status = "import"
    BY DEF ImportLine
  <1>2. Imported(rows, lines)
    BY <1>1 DEF ReadsInv
  <1>3. PICK k \in 0 .. Len(rows) :
            list = G[k] /\ log = F[k] /\ pos = 1 + Len(UpTo(lines, k))
    BY <1>1, <1>2 DEF Imported
  <1>4. \/ /\ k < Len(rows) /\ read.ok /\ read.line = lines[k + 1]
           /\ read.next = 1 + Len(UpTo(lines, k + 1)) /\ read.next # 0
        \/ /\ read.next = 0
           /\ csv = File(lines) => read.ok /\ k = Len(rows)
    BY <1>1, <1>3, ReadsFrom
  <1>5. CASE Abort
    BY <1>1, <1>3, <1>5 DEF Abort, Imported
  <1>6. CASE read.next = 0 /\ Save
    <2>1. list' = list /\ log' = log /\ status' # "import" /\ (status' = "ok" => dst' = list')
      BY <1>6 DEF Save
    <2>2. csv' = File(lines) => k = Len(rows)
      BY <1>1, <1>4, <1>6
    <2> QED BY <2>1, <2>2, <1>3 DEF Imported
  <1> DEFINE i == k + 1
  <1>7. ASSUME read.next # 0
        PROVE  /\ i \in 1 .. Len(rows) /\ i - 1 = k /\ read.line = lines[i]
               /\ pos' = 1 + Len(UpTo(lines, i))
    <2>1. k < Len(rows) /\ read.line = lines[i] /\ read.next = 1 + Len(UpTo(lines, i))
      BY <1>4, <1>7
    <2>2. Len(rows) \in Nat
      BY DEF Coded
    <2>3. pos' = read.next
      BY <1>7 DEF ImportLine
    <2> HIDE DEF read
    <2>4. i \in 1 .. Len(rows) /\ i - 1 = k
      BY <2>1, <2>2
    <2> QED BY <2>1, <2>3, <2>4
  <1>8. ASSUME read.next # 0
        PROVE  /\ Len(lines[i]) <= MaxLine => G[i] = Append(list, rows[i]) /\ F[i] = log
               /\ ~(Len(lines[i]) <= MaxLine) => G[i] = list /\ F[i] = Append(log, lines[i])
               /\ Reported(lines[i]) <=> Len(lines[i]) > MaxLine
               /\ Len(lines[i]) \in Nat
    <2>1. i \in 1 .. Len(rows) /\ i - 1 = k
      BY <1>7, <1>8
    <2> HIDE DEF i, read
    <2>2. /\ Len(lines[i]) <= MaxLine => G[i] = Append(G[i - 1], rows[i]) /\ F[i] = F[i - 1]
          /\ ~(Len(lines[i]) <= MaxLine) => G[i] = G[i - 1] /\ F[i] = Append(F[i - 1], lines[i])
      BY <2>1, <1>0
    <2>3. i \in 1 .. Len(lines) /\ lines \in Seq(Seq(Chars))
      BY <2>1 DEF Coded, Text
    <2>4. Reported(lines[i]) <=> Len(lines[i]) > MaxLine
      BY <2>3, LineOfFile
    <2>5. lines[i] \in Seq(Chars)
      BY <2>3
    <2>6. Len(lines[i]) \in Nat
      BY <2>5
    <2> HIDE DEF F, G
    <2> QED BY <2>1, <2>2, <2>4, <2>6, <1>3
  <1>9. CASE read.next # 0 /\ ReportLine(read.line)
    <2>1. Reported(lines[i]) /\ log' = Append(log, lines[i]) /\ list' = list /\ status' = "import"
      BY <1>1, <1>7, <1>9 DEF ReportLine
    <2>2. ~(Len(lines[i]) <= MaxLine)
      <3>1. Len(lines[i]) > MaxLine
        BY <2>1, <1>8, <1>9
      <3>2. Len(lines[i]) \in Nat
        BY <1>8, <1>9
      <3> HIDE DEF i
      <3> QED BY <3>1, <3>2, MaxLineIs
    <2>3. list' = G[i] /\ log' = F[i]
      BY <2>1, <2>2, <1>8, <1>9
    <2>4. i \in 0 .. Len(rows) /\ pos' = 1 + Len(UpTo(lines, i))
      BY <1>7, <1>9
    <2> HIDE DEF i, read
    <2> QED BY <2>1, <2>3, <2>4 DEF Imported
  <1>10. CASE read.next # 0 /\ ~Reported(read.line) /\ AddRecord(Fields(read.line))
    <2>0. i \in 1 .. Len(rows) /\ read.line = lines[i] /\ pos' = 1 + Len(UpTo(lines, i))
      BY <1>7, <1>10
    <2>1. ~Reported(lines[i]) /\ AddRecord(Fields(lines[i]))
      BY <2>0, <1>10
    <2>2. Len(lines[i]) <= MaxLine
      <3>1. ~(Len(lines[i]) > MaxLine)
        BY <2>1, <1>8, <1>10
      <3>2. Len(lines[i]) \in Nat
        BY <1>8, <1>10
      <3> HIDE DEF i
      <3> QED BY <3>1, <3>2, MaxLineIs
    <2> DEFINE fields == Fields(lines[i])
    <2>3. list' = Append(list, [f \in DOMAIN fields |-> Kept(fields[f].text)])
          /\ log' = log /\ status' = "import"
      BY <2>1, <1>1 DEF AddRecord
    <2> HIDE DEF i
    <2>4. [f \in DOMAIN fields |-> Kept(fields[f].text)] = rows[i]
      BY <2>0, AddedIs
    <2> HIDE DEF fields
    <2>5. list' = G[i] /\ log' = F[i]
      BY <2>2, <2>3, <2>4, <1>8, <1>10
    <2>6. i \in 0 .. Len(rows)
      BY <2>0
    <2> QED BY <2>0, <2>3, <2>5, <2>6 DEF Imported
  <1> QED BY <1>5, <1>6, <1>9, <1>10 DEF ImportLine

LEMMA ReadsNext == TypeInv /\ ReadsInv /\ [Next]_vars => ReadsInv'
  <1> SUFFICES ASSUME TypeInv, ReadsInv, [Next]_vars PROVE ReadsInv'
    OBVIOUS
  <1>1. CASE Usage \/ AskPassword \/ Mismatch \/ AskExportPassword \/ OtherFile
    BY <1>1, ReadsKept DEF Usage, AskPassword, Mismatch, AskExportPassword, OtherFile, importing
  <1>2. CASE ExportFails \/ ExportDone
    BY <1>2, ReadsKept DEF ExportFails, ExportDone, importing
  <1>3. CASE Refuse \/ CreateFails \/ Over \/ UNCHANGED vars
    BY <1>3, ReadsKept DEF Refuse, CreateFails, Ends, Over, importing, vars
  <1>4. CASE Export \/ ExportRecord \/ OtherProgram \/ Import
    <2>1. (list = <<>> /\ log = <<>> /\ pos = 1 /\ status # "ok")'
      BY <1>4 DEF TypeInv, Before, Export, ExportRecord, OtherProgram, Import, importing
    <2> QED BY <2>1, ReadsBefore, PTL
  <1>5. CASE ImportLine
    BY <1>5, ReadsLine
  <1> QED BY <1>1, <1>2, <1>3, <1>4, <1>5 DEF Next

LEMMA ReadsInit == Init => ReadsInv
  BY ReadsBefore DEF Init

-----------------------------------------------------------------------------
LEMMA SourceFits == ASSUME src \in Tables PROVE Fit(src) /\ Fit(Written)
  <1> DEFINE S == {Header} \cup {src[j] : j \in DOMAIN src}
  <1>1. src \in Seq(Rows)
    BY SourceRows
  <1>2. ASSUME NEW r \in S, NEW f \in DOMAIN r PROVE Len(r[f]) <= FieldSize
    BY <1>2, HeaderAssumption, TablesAssumption
  <1>3. Written \in Seq(S)
    BY WrittenTyped
  <1>4. \A j \in 1 .. Len(src) : src[j] \in S
    BY <1>1
  <1> HIDE DEF S
  <1>5. \A i \in 1 .. Len(Written) : Written[i] \in S
    BY <1>3
  <1> QED BY <1>2, <1>4, <1>5 DEF Fit

\* What it collects is a prefix of the records whose lines are short enough, and
\* all of these in the end.
LEMMA CollectedIs ==
    ASSUME NEW rows, NEW lines, Coded(lines, rows), Imported(rows, lines), status = "ok"
    PROVE  /\ IsPrefix(dst, Sifted(rows, lines, TRUE)[Len(rows)])
           /\ csv = File(lines) => /\ dst = Sifted(rows, lines, TRUE)[Len(rows)]
                                   /\ log = Sifted(lines, lines, FALSE)[Len(rows)]
  <1>1. rows \in Seq(Rows)
    BY DEF Coded
  <1>2. \A short : \A k \in 0 .. Len(rows) :
            IsPrefix(Sifted(rows, lines, short)[k], Sifted(rows, lines, short)[Len(rows)])
    BY <1>1, SiftedGrows
  <1> DEFINE G == Sifted(rows, lines, TRUE)
             F == Sifted(lines, lines, FALSE)
  <1>3. \A k \in 0 .. Len(rows) : IsPrefix(G[k], G[Len(rows)])
    BY <1>2, Zenon
  <1>4. PICK k \in 0 .. Len(rows) : /\ dst = G[k] /\ log = F[k]
                                    /\ csv = File(lines) => k = Len(rows)
    BY DEF Imported
  <1> HIDE DEF F, G
  <1>5. IsPrefix(dst, G[Len(rows)])
    BY <1>3, <1>4
  <1>6. csv = File(lines) => dst = G[Len(rows)] /\ log = F[Len(rows)]
    BY <1>4
  <1> QED BY <1>5, <1>6 DEF F, G

LEMMA RoundTripHolds == TypeInv /\ ExportInv /\ ReadsInv => RoundTrip
  <1> DEFINE lines == [i \in DOMAIN Written |-> GetLine(Written[i])]
             good == Sifted(Written, lines, TRUE)[Len(Written)]
             long == Sifted(lines, lines, FALSE)[Len(Written)]
  <1> SUFFICES ASSUME TypeInv, ExportInv, ReadsInv,
                      status = "ok", writer = "yapet2csv", NoLeadingQuote
               PROVE  IsPrefix(dst, good) /\ (~full => dst = good /\ log = long)
    BY DEF RoundTrip
  <1>1. lines = WrittenLines
    BY DEF WrittenLines
  <1>2. src \in Tables /\ todo = <<>> /\ (~full => Exported) /\ Holds(File(WrittenLines), 0, csv)
    BY DEF TypeInv, ExportInv
  <1>3. Coded(WrittenLines, Written) /\ Fit(Written)
    BY <1>2, WrittenCoded, SourceFits
  <1>4. Imported(Written, WrittenLines)
    BY <1>2, <1>3 DEF ReadsInv
  <1>5. ASSUME ~full PROVE csv = File(WrittenLines)
    <2>1. PICK k \in 0 .. Len(Written) :
              csv = UpTo(WrittenLines, k) /\ todo = SubSeq(Written, k + 1, Len(Written))
      BY <1>2, <1>5 DEF Exported
    <2>2. Written \in Seq(Rows) /\ Len(WrittenLines) = Len(Written)
      BY <1>2, WrittenTyped, LinesTyped
    <2>3. k = Len(Written)
      <3> DEFINE n == Len(Written)
      <3>1. n \in Nat /\ k \in 0 .. n
        BY <2>2
      <3>2. ASSUME k # n PROVE Len(SubSeq(Written, k + 1, n)) # 0
        <4>1. k + 1 \in 1 .. n
          BY <3>1, <3>2
        <4>2. Len(SubSeq(Written, k + 1, n)) = n - k
          BY <4>1, <2>2
        <4> QED BY <4>2, <3>1, <3>2
      <3>3. Len(SubSeq(Written, k + 1, n)) = 0
        <4>1. SubSeq(Written, k + 1, n) = <<>>
          BY <2>1, <1>2, Zenon
        <4>2. Len(<<>>) = 0
          OBVIOUS
        <4> QED BY <4>1, <4>2, Zenon
      <3> QED BY <3>2, <3>3
    <2> QED BY <2>1, <2>2, <2>3 DEF File
  <1> DEFINE G == Sifted(Written, WrittenLines, TRUE)[Len(Written)]
             F == Sifted(WrittenLines, WrittenLines, FALSE)[Len(Written)]
  <1>6. /\ IsPrefix(dst, G)
        /\ csv = File(WrittenLines) => dst = G /\ log = F
    BY <1>3, <1>4, CollectedIs
  <1>7. good = G /\ long = F
    BY <1>1
  <1> HIDE DEF F, G, good, long
  <1> QED BY <1>5, <1>6, <1>7

LEMMA ReportedLong ==
    ASSUME NEW rows, NEW lines, Coded(lines, rows), Imported(rows, lines)
    PROVE  \A i \in DOMAIN log : Len(log[i]) > MaxLine
  <1>1. lines \in Seq(Text) /\ Len(lines) = Len(rows)
    BY DEF Coded
  <1>2. PICK k \in 0 .. Len(rows) : log = Sifted(lines, lines, FALSE)[k]
    BY DEF Imported
  <1> QED BY <1>1, <1>2, SiftedLong

LEMMA ReadsQuotedHolds == TypeInv /\ ExportInv /\ ReadsInv => ReadsQuoted
  <1> DEFINE read == ReadLine(csv, pos)
             Lines(always) == [i \in DOMAIN src |->
                                  JoinFields([f \in DOMAIN src[i] |-> Quoted(src[i][f], always)])]
             Wrote(always) == csv = FlattenSeq([i \in DOMAIN src |-> QuotedLine(src[i], always)])
  <1> SUFFICES ASSUME TypeInv, ExportInv, ReadsInv,
                      writer = "other", \A i \in DOMAIN src : ~BlankThenQuote(src[i])
               PROVE  /\ status = "import" =>
                            /\ read.ok
                            /\ read.next # 0 => Reported(read.line) \/ Readable(Fields(read.line))
                      /\ \A i \in DOMAIN log : Len(log[i]) > MaxLine
                      /\ status = "ok" => \E always \in BOOLEAN :
                            /\ Wrote(always)
                            /\ dst = Sifted(src, Lines(always), TRUE)[Len(src)]
                            /\ log = Sifted(Lines(always), Lines(always), FALSE)[Len(src)]
    BY DEF ReadsQuoted
  <1>1. src \in Tables /\ src \in Seq(Rows)
    BY SourceRows DEF TypeInv
  <1>2. PICK always \in BOOLEAN : Wrote(always)
    BY DEF ExportInv
  <1> DEFINE lines == OtherLines(always)
  <1>3. Coded(lines, src) /\ csv = File(lines)
    BY <1>1, <1>2, OtherCoded
  <1>9. Lines(always) = lines
    BY DEF OtherLines, QuotedFields
  <1> HIDE DEF lines, Lines, Wrote
  <1>4. Holds(File(lines), 0, csv)
    BY <1>3, HoldsAll DEF TypeInv, Text
  <1>5. Imported(src, lines) /\ Fit(src)
    BY <1>1, <1>3, <1>4, SourceFits DEF ReadsInv
  <1>6. ASSUME status = "import"
        PROVE  read.ok /\ (read.next # 0 => Reported(read.line) \/ Readable(Fields(read.line)))
    <2>1. PICK k \in 0 .. Len(src) : pos = 1 + Len(UpTo(lines, k))
      BY <1>5, <1>6 DEF Imported
    <2>2. \/ k < Len(src) /\ read.ok /\ read.line = lines[k + 1]
          \/ read.next = 0 /\ read.ok
      BY <1>3, <1>4, <2>1, ReadsFrom
    <2> HIDE DEF read
    <2>3. CASE k < Len(src) /\ read.ok /\ read.line = lines[k + 1]
      <3> DEFINE i == k + 1
      <3>1. i \in 1 .. Len(src)
        BY <1>1, <2>3
      <3> HIDE DEF i
      <3>2. Readable(Fields(lines[i]))
        BY <3>1, <1>3, <1>5, AddedIs
      <3> QED BY <2>3, <3>2 DEF i
    <2> QED BY <2>2, <2>3
  <1>7. \A i \in DOMAIN log : Len(log[i]) > MaxLine
    BY <1>3, <1>5, ReportedLong
  <1>8. ASSUME status = "ok"
        PROVE  /\ dst = Sifted(src, Lines(always), TRUE)[Len(src)]
               /\ log = Sifted(Lines(always), Lines(always), FALSE)[Len(src)]
    <2> DEFINE G == Sifted(src, lines, TRUE)[Len(src)]
               F == Sifted(lines, lines, FALSE)[Len(src)]
    <2>1. dst = G /\ log = F
      BY <1>3, <1>5, <1>8, CollectedIs
    <2> QED BY <2>1, <1>9
  <1> HIDE DEF read
  <1> QED BY <1>2, <1>6, <1>7, <1>8

ConvertersInv == TypeInv /\ ExportInv /\ ReadsInv

LEMMA ConvertersInvariant == Spec => []ConvertersInv
  <1>1. Init => ConvertersInv
    BY TypesInit, ExportInit, ReadsInit DEF ConvertersInv
  <1>2. ConvertersInv /\ [Next]_vars => ConvertersInv'
    BY TypesNext, ExportNext, ReadsNext DEF ConvertersInv
  <1> QED BY <1>1, <1>2, PTL DEF Spec

\* csv2yapet reads what yapet2csv writes, for every table, every line and every
\* moment at which the disk is full: the same records in the same order but for
\* the lines that are too long, which are reported (csvimport.cc, csvexport.cc).
THEOREM ConvertersRoundTrip == Spec => []RoundTrip
  <1>1. ConvertersInv => RoundTrip
    BY RoundTripHolds DEF ConvertersInv
  <1> QED BY <1>1, ConvertersInvariant, PTL

\* csv2yapet reads what another program quotes, for tables and texts of every
\* length, without the lines that are too long, which it reports; excepted are the
\* tables with a line whose first field is blank while another begins with a quote.
THEOREM ConvertersReadQuoted == Spec => []ReadsQuoted
  <1>1. ConvertersInv => ReadsQuoted
    BY ReadsQuotedHolds DEF ConvertersInv
  <1> QED BY <1>1, ConvertersInvariant, PTL

-----------------------------------------------------------------------------
(***************************************************************************)
(* What others wrote.                                                       *)
(***************************************************************************)
\* What a main function has found out stays true while it prompts and converts,
\* unless somebody else is quicker.
KeepsInv ==
    /\ status = "asks" /\ ~raced => maker # "other"
    /\ status = "exports" /\ ~raced => writer # "other"
    /\ status = "import" => maker = "csv2yapet"
    /\ status = "export" => writer = "yapet2csv"

LEMMA KeepsInit == Init => KeepsInv
  BY DEF Init, KeepsInv

\* The main functions; the destination is looked for under its full name.
LEMMA KeepsMain ==
    ASSUME KeepsInv, Usage \/ AskPassword \/ Mismatch \/ AskExportPassword \/ OtherFile
    PROVE  KeepsInv'
  <1>1. CASE Usage
    BY <1>1 DEF Usage, KeepsInv, exporting, importing
  <1>2. CASE AskPassword
    BY <1>2 DEF AskPassword, Checked, Suffixed, Exists, KeepsInv, exporting
  <1>3. CASE Mismatch
    BY <1>3 DEF Mismatch, KeepsInv, exporting, importing
  <1>4. CASE AskExportPassword
    BY <1>4 DEF AskExportPassword, KeepsInv, exporting, importing
  <1>5. CASE OtherFile
    BY <1>5 DEF OtherFile, KeepsInv, exporting
  <1> QED BY <1>1, <1>2, <1>3, <1>4, <1>5

LEMMA KeepsExport ==
    ASSUME KeepsInv, Export \/ ExportFails \/ ExportRecord \/ ExportDone \/ OtherProgram
    PROVE  KeepsInv'
  <1>1. CASE Export
    BY <1>1 DEF Export, KeepsInv, importing
  <1>2. CASE ExportFails
    BY <1>2 DEF ExportFails, KeepsInv, importing
  <1>3. CASE ExportRecord
    BY <1>3 DEF ExportRecord, KeepsInv, importing
  <1>4. CASE ExportDone
    BY <1>4 DEF ExportDone, KeepsInv, exporting, importing
  <1>5. CASE OtherProgram
    BY <1>5 DEF OtherProgram, KeepsInv, importing
  <1> QED BY <1>1, <1>2, <1>3, <1>4, <1>5

\* A line that is read leaves the maker, and the status or ends the program.
LEMMA ImportLineEffect ==
    ASSUME ImportLine
    PROVE  /\ status = "import" /\ status' \in {"import", "ok", "failed"}
           /\ UNCHANGED <<csv, raced, maker, writer>>
  BY DEF ImportLine, Abort, Save, ReportLine, AddRecord, exporting

LEMMA KeepsImport ==
    ASSUME KeepsInv, Refuse \/ CreateFails \/ Import \/ ImportLine \/ Over
    PROVE  KeepsInv'
  <1>1. CASE Refuse
    BY <1>1 DEF Refuse, Ends, KeepsInv, exporting, importing
  <1>2. CASE CreateFails
    BY <1>2 DEF CreateFails, KeepsInv, exporting
  <1>3. CASE Import
    BY <1>3 DEF Import, KeepsInv, exporting
  <1>4. CASE ImportLine
    BY <1>4, ImportLineEffect DEF KeepsInv
  <1>5. CASE Over
    BY <1>5 DEF Over, KeepsInv, vars
  <1> QED BY <1>1, <1>2, <1>3, <1>4, <1>5

LEMMA KeepsNext == KeepsInv /\ [Next]_vars => KeepsInv'
  <1> SUFFICES ASSUME KeepsInv, [Next]_vars PROVE KeepsInv'
    OBVIOUS
  <1>1. CASE Next
    BY <1>1, KeepsMain, KeepsExport, KeepsImport DEF Next
  <1>2. CASE UNCHANGED vars
    BY <1>2 DEF vars, KeepsInv
  <1> QED BY <1>1, <1>2

-----------------------------------------------------------------------------
Kept1 == /\ writer = "other" /\ ~raced => csv' = csv
         /\ maker = "other" /\ ~raced => dst' = dst

\* Only the openings of the destinations and the steps after them write.
LEMMA KeepsStep == KeepsInv /\ [Next]_vars => Kept1
  <1> SUFFICES ASSUME KeepsInv, [Next]_vars PROVE Kept1
    OBVIOUS
  <1>1. CASE Usage \/ AskPassword \/ Mismatch \/ AskExportPassword
    BY <1>1 DEF Usage, AskPassword, Mismatch, AskExportPassword, importing, Kept1
  <1>2. CASE OtherFile
    BY <1>2 DEF OtherFile, Kept1
  <1>3. CASE Export \/ ExportRecord
    BY <1>3 DEF Export, ExportRecord, importing, KeepsInv, Kept1
  <1>4. CASE ExportFails \/ ExportDone
    BY <1>4 DEF ExportFails, ExportDone, importing, Kept1
  <1>5. CASE OtherProgram
    BY <1>5 DEF OtherProgram, importing, Kept1
  <1>6. CASE Refuse \/ Over
    BY <1>6 DEF Refuse, Over, Ends, importing, vars, Kept1
  <1>7. CASE CreateFails \/ Import
    BY <1>7 DEF CreateFails, Import, KeepsInv, Kept1
  <1>8. CASE ImportLine
    BY <1>8, ImportLineEffect DEF KeepsInv, Kept1
  <1>9. CASE UNCHANGED vars
    BY <1>9 DEF vars, Kept1
  <1> QED BY <1>1, <1>2, <1>3, <1>4, <1>5, <1>6, <1>7, <1>8, <1>9 DEF Next

\* A converter never writes over a file that was there when it looked: the one
\* it looks for is the one it opens (csv2yapet/main.cc:237, yapet2csv/main.cc:244).
THEOREM ConvertersKeep == Spec => KeepsOthers
  <1>1. Init => KeepsInv
    BY KeepsInit
  <1>2. KeepsInv /\ [Next]_vars => KeepsInv'
    BY KeepsNext
  <1>3. KeepsInv /\ [Next]_vars => [Kept1]_vars
    BY KeepsStep
  <1>4. [][Kept1]_vars => KeepsOthers
    BY PTL DEF Kept1, KeepsOthers
  <1> QED BY <1>1, <1>2, <1>3, <1>4, PTL DEF Spec
=============================================================================
