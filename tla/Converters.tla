----------------------------- MODULE Converters -----------------------------
(***************************************************************************)
(* The converters: yapet2csv writes the records of a password file into a  *)
(* CSV file (CSVExport), csv2yapet makes a password file out of a CSV file *)
(* (CSVImport).  Both run once, one after the other, over one CSV file;    *)
(* the CSV file may also come from another program that quotes the way the *)
(* manual of csv2yapet asks for.                                           *)
(*                                                                         *)
(* Their main functions look at the command line and at the destination,   *)
(* prompt for a password, and only then open the destination: while they   *)
(* prompt, somebody else may make a file of that name.                     *)
(*                                                                         *)
(* The password files are the sequences of records they hold; opening,     *)
(* creating and saving them is PetFile's subject and only succeeds or      *)
(* fails here.                                                             *)
(***************************************************************************)
EXTENDS Csv

CONSTANTS
    Tables,         \* the record lists a password file may hold
    FieldSize,      \* the length of the longest field
    Header          \* the header line of yapet2csv -H, a record

NumberOfFields == Len(Header)

\* No quotes are accounted for.
MaxLine == NumberOfFields * FieldSize + NumberOfFields - 1

\* Nor does the header begin with a quote.
ASSUME HeaderAssumption ==
    /\ Header \in Seq(Text) /\ Header # <<>>
    /\ \A f \in DOMAIN Header : /\ Len(Header[f]) <= FieldSize
                                /\ Header[f] # <<>> => Header[f][1] # Quote

ASSUME TablesAssumption ==
    /\ FieldSize \in Nat
    /\ \A t \in Tables :
          /\ t \in Seq(Seq(Text))
          /\ \A i \in DOMAIN t : /\ Len(t[i]) = NumberOfFields
                                 /\ \A f \in DOMAIN t[i] : Len(t[i][f]) <= FieldSize

VARIABLES
    src,        \* the password file that is exported, or what somebody else writes as CSV
    writer,     \* who wrote the CSV file: "yapet2csv", or its failed run,
                \* another program, or nobody: there is no file
    header,     \* with the header line
    csv,        \* the CSV file
    todo,       \* the records the writer still has to write
    full,       \* the disk was full: the rest of the output is lost
    pos,        \* how far csv2yapet has read
    list,       \* the records it has collected
    log,        \* the lines it has reported
    dst,        \* the password file it makes
    maker,      \* who made that one: "csv2yapet", another program, or nobody
    raced,      \* history: the destination was made by somebody else meanwhile
    status      \* what runs, or how csv2yapet ended

vars == <<src, writer, header, csv, todo, full, pos, list, log, dst, maker, raced, status>>

exporting == <<src, writer, header, todo, full>>
importing == <<pos, list, log, dst, maker>>

Init == /\ src \in Tables
        /\ writer = "nobody" /\ header = FALSE
        /\ csv = <<>> /\ todo = <<>> /\ full = FALSE
        /\ pos = 1 /\ list = <<>> /\ log = <<>> /\ dst = <<>>
        /\ maker = "nobody" /\ raced = FALSE
        /\ status = "idle"

-----------------------------------------------------------------------------
(***************************************************************************)
(* The main functions, up to the conversion.                               *)
(***************************************************************************)
\* Help, or an argument that is missing or unknown; once is enough.
Usage == /\ status = "idle" /\ writer = "nobody"
         /\ status' \in {"shown", "cmdline"}
         /\ UNCHANGED <<csv, raced>> /\ UNCHANGED exporting /\ UNCHANGED importing

\* csv2yapet appends the suffix before it looks whether the file exists.
Suffixed(name) == "dst.pet"

\* Mutant: it looks for the file as it was named.
CheckedAsNamed(name) == name

Checked(name) == Suffixed(name)

\* dst is the file dst.pet.
Exists(name) == name = "dst.pet" /\ maker # "nobody"

AskPassword ==
    /\ status = "idle"
    /\ \E name \in {"dst", "dst.pet"} :
          status' = IF Exists(Checked(name)) THEN "refused" ELSE "asks"
    /\ UNCHANGED <<csv, raced, pos, list, log, dst, maker>> /\ UNCHANGED exporting

\* The password was typed differently the second time.
Mismatch == /\ status = "asks" /\ status' = "mismatch"
            /\ UNCHANGED <<csv, raced>> /\ UNCHANGED exporting /\ UNCHANGED importing

\* yapet2csv asks once.
AskExportPassword ==
    /\ status = "idle"
    /\ status' = IF writer # "nobody" THEN "refused" ELSE "exports"
    /\ UNCHANGED <<csv, raced>> /\ UNCHANGED exporting /\ UNCHANGED importing

\* Somebody else makes a password file of the name of the destination, while
\* csv2yapet asks, or earlier together with the CSV file.
OtherFile == /\ status = "asks" \/ (status = "idle" /\ writer = "other")
             /\ maker = "nobody"
             /\ dst' = src /\ maker' = "other" /\ raced' = (status = "asks")
             /\ UNCHANGED <<csv, status, pos, list, log>> /\ UNCHANGED exporting

-----------------------------------------------------------------------------
(***************************************************************************)
(* yapet2csv.  The CSV file is created before the password is tried.       *)
(***************************************************************************)
Export == /\ status = "exports"
          /\ csv' = <<>> /\ raced' = FALSE
          /\ \E h \in BOOLEAN : /\ header' = h
                                /\ todo' = IF h /\ src # <<>> THEN <<Header>> \o src ELSE src
          /\ writer' = "yapet2csv" /\ status' = "export"
          /\ UNCHANGED <<src, full>> /\ UNCHANGED importing

\* Wrong password, unreadable file, a record that does not decrypt.
ExportFails == /\ status = "export" /\ (csv = <<>> \/ todo # <<>>)
               /\ status' = "idle" /\ todo' = <<>> /\ writer' = "failed"
               /\ UNCHANGED <<src, header, csv, full, raced>> /\ UNCHANGED importing

\* Nobody asks the stream whether the output went well: once the disk is full,
\* the rest is lost, from somewhere in a line.
ExportRecord ==
    /\ status = "export" /\ todo # <<>>
    /\ LET line == Append(GetLine(Head(todo)), Newline)
       IN \E n \in IF full THEN {0} ELSE 0 .. Len(line) :
             /\ csv' = csv \o SubSeq(line, 1, n)
             /\ full' = (n < Len(line))
    /\ todo' = Tail(todo)
    /\ UNCHANGED <<src, writer, header, status, raced>> /\ UNCHANGED importing

ExportDone == /\ status = "export" /\ todo = <<>>
              /\ status' = "idle"
              /\ UNCHANGED <<csv, raced>> /\ UNCHANGED exporting /\ UNCHANGED importing

\* Another program: quotes where the manual asks for them, or around every field.
Quoted(s, always) ==
    IF always \/ \E i \in DOMAIN s : s[i] \in {Separator, Quote, Newline}
    THEN <<Quote>> \o Doubled(s) \o <<Quote>> ELSE s

QuotedLine(r, always) == Append(JoinFields([f \in DOMAIN r |-> Quoted(r[f], always)]), Newline)

OtherProgram == /\ status \in {"idle", "exports"} /\ writer = "nobody"
                /\ \E always \in BOOLEAN :
                      csv' = FlattenSeq([i \in DOMAIN src |-> QuotedLine(src[i], always)])
                /\ writer' = "other" /\ raced' = (status = "exports")
                /\ UNCHANGED <<src, header, todo, full, status>> /\ UNCHANGED importing

-----------------------------------------------------------------------------
(***************************************************************************)
(* csv2yapet.  The password file is created before the first line is read. *)
(***************************************************************************)
Ends(how) == /\ status' = how
             /\ UNCHANGED <<csv, raced>> /\ UNCHANGED exporting

\* A second run, after one that failed.
Refuse == /\ status = "failed" /\ maker # "nobody"
          /\ Ends("refused") /\ UNCHANGED importing

\* No CSV file, no key, no password file, or one that could not be filled.
CreateFails ==
    /\ status = "asks"
    /\ \/ UNCHANGED <<dst, maker>>
       \/ writer # "nobody" /\ dst' = <<>> /\ maker' = "csv2yapet"
    /\ status' = "failed" /\ raced' = FALSE
    /\ UNCHANGED <<csv, pos, list, log>> /\ UNCHANGED exporting

\* What exists by now is replaced.
Import == /\ status = "asks" /\ writer # "nobody"
          /\ dst' = <<>> /\ maker' = "csv2yapet"
          /\ raced' = FALSE /\ status' = "import"
          /\ UNCHANGED <<csv, pos, list, log>> /\ UNCHANGED exporting

\* A line that is reported, and the fields of one that is not.
Reported(line) == Len(line) > MaxLine \/ ~ParseLine(line, NumberOfFields).ok

Fields(line) == LET parsed == ParseLine(line, NumberOfFields).fields
                IN [f \in DOMAIN parsed |-> Unescape(parsed[f])]

Readable(fields) == \A f \in DOMAIN fields : fields[f].ok

\* What PasswordRecord keeps of a field.
Kept(s) == SubSeq(s, 1, IF Len(s) < FieldSize THEN Len(s) ELSE FieldSize)

ReportLine(line) == /\ Reported(line)
                    /\ log' = Append(log, line)
                    /\ UNCHANGED <<list, dst, status>>

AddRecord(fields) == /\ Readable(fields)
                     /\ list' = Append(list, [f \in DOMAIN fields |-> Kept(fields[f].text)])
                     /\ UNCHANGED <<log, dst, status>>

\* A quote that does not end, or quotes inside a field that are no pairs, end
\* the program and leave a password file without records.
Abort == status' = "failed" /\ UNCHANGED <<list, log, dst>>

\* The end of the file; a save that fails leaves the records written so far.
Save == /\ \/ dst' = list /\ status' = "ok"
           \/ /\ \E n \in 0 .. Len(list) : dst' = SubSeq(list, 1, n)
              /\ status' = "failed"
        /\ UNCHANGED <<list, log>>

ImportLine ==
    /\ status = "import"
    /\ LET read == ReadLine(csv, pos)
       IN /\ pos' = IF read.next = 0 THEN pos ELSE read.next
          /\ \/ ~read.ok /\ Abort
             \/ read.ok /\ read.next = 0 /\ Save
             \/ /\ read.next # 0
                /\ \/ ReportLine(read.line)
                   \/ /\ ~Reported(read.line)
                      /\ LET fields == Fields(read.line)
                         IN AddRecord(fields) \/ (~Readable(fields) /\ Abort)
    /\ UNCHANGED <<csv, raced, maker>> /\ UNCHANGED exporting

Over == status \in {"shown", "cmdline", "mismatch", "ok", "refused", "failed"} /\ UNCHANGED vars

Next == \/ Usage \/ AskPassword \/ Mismatch \/ AskExportPassword \/ OtherFile
        \/ Export \/ ExportFails \/ ExportRecord \/ ExportDone \/ OtherProgram
        \/ Refuse \/ CreateFails \/ Import
        \/ ImportLine \/ Over

Spec == Init /\ [][Next]_vars

-----------------------------------------------------------------------------
TypeOK == /\ src \in Tables
          /\ writer \in {"nobody", "yapet2csv", "failed", "other"}
          /\ header \in BOOLEAN /\ full \in BOOLEAN
          /\ csv \in Text
          /\ \A i \in DOMAIN todo : todo[i] \in {Header} \cup {src[j] : j \in DOMAIN src}
          /\ pos \in 1 .. Len(csv) + 1
          /\ \A i \in DOMAIN list : Len(list[i]) = NumberOfFields
          /\ maker = "csv2yapet" => IsPrefix(dst, list)
          /\ maker \in {"nobody", "csv2yapet", "other"}
          /\ raced \in BOOLEAN
          /\ status \in {"idle", "asks", "exports", "export", "import", "shown", "cmdline",
                         "mismatch", "ok", "refused", "failed"}

Written == IF header /\ src # <<>> THEN <<Header>> \o src ELSE src

NoLeadingQuote == \A i \in DOMAIN src : \A f \in DOMAIN src[i] :
                      src[i][f] # <<>> => src[i][f][1] # Quote

\* The members of s, as far as i, whose line is short enough, or is not.
Sifted(s, lines, short) ==
    LET upTo[i \in 0 .. Len(s)] ==
            IF i = 0 THEN <<>>
            ELSE IF (Len(lines[i]) <= MaxLine) = short THEN Append(upTo[i - 1], s[i])
                                                       ELSE upTo[i - 1]
    IN upTo

\* csv2yapet reads what yapet2csv writes: the same records in the same order,
\* but for those whose line the quotes made too long, and the lines of these
\* are reported.  If the disk was full, it reads the first of these records,
\* never half a record.  Fields that begin with a quote are excepted: they
\* pass for quoted fields.
RoundTrip ==
    LET lines == [i \in DOMAIN Written |-> GetLine(Written[i])]
        good  == Sifted(Written, lines, TRUE)[Len(Written)]
        long  == Sifted(lines, lines, FALSE)[Len(Written)]
    IN status = "ok" /\ writer = "yapet2csv" /\ NoLeadingQuote =>
           /\ IsPrefix(dst, good)
           /\ ~full => dst = good /\ log = long

\* A blank first field leaves startOfLine set (csvimport.cc:191), which matters
\* only if a field behind it begins with a quote.
BlankThenQuote(r) == r[1] = <<>> /\ \E f \in DOMAIN r : r[f] # <<>> /\ r[f][1] = Quote

\* csv2yapet reads what another program quotes, everywhere or where it must: it
\* does not abort, and the records in the password file are those the other
\* program wrote, in their order, but for the ones whose line is longer than
\* MaxLine, quotes included, and these lines are reported.  That is less than
\* the manual promises, which limits the fields and not the line, and lets a
\* field be blank: excepted are tables with a line whose first field is blank
\* while another one begins with a quote.
ReadsQuoted ==
    writer = "other" /\ (\A i \in DOMAIN src : ~BlankThenQuote(src[i])) =>
        /\ status = "import" =>
              LET read == ReadLine(csv, pos)
              IN read.ok /\ (read.next # 0 => Reported(read.line) \/ Readable(Fields(read.line)))
        /\ \A i \in DOMAIN log : Len(log[i]) > MaxLine
        /\ status = "ok" =>
              \E always \in BOOLEAN :
                 LET lines == [i \in DOMAIN src |->
                                  JoinFields([f \in DOMAIN src[i] |-> Quoted(src[i][f], always)])]
                 IN /\ csv = FlattenSeq([i \in DOMAIN src |-> QuotedLine(src[i], always)])
                    /\ dst = Sifted(src, lines, TRUE)[Len(src)]
                    /\ log = Sifted(lines, lines, FALSE)[Len(src)]

\* What another program wrote stays as it is, the CSV file as well as the
\* password file and however the latter was named on the command line: the
\* converters stop when their destination exists.  The exception is a file that
\* appears while they wait for the password: nobody looks again.
KeepsOthers == [][/\ writer = "other" /\ ~raced => csv' = csv
                  /\ maker = "other" /\ ~raced => dst' = dst]_vars
=============================================================================
