------------------------------- MODULE BatchCsv -------------------------------
(***************************************************************************)
(* The parser of a batch file, one step per character: fields, quotes,     *)
(* the three line endings, and the line of the file each record begins on. *)
(* Beside it stands what a CSV file is: a text cut at the line ends and    *)
(* commas that have an even number of quotes before them.                  *)
(***************************************************************************)
EXTENDS FilteredLists

CONSTANT Contents     \* the texts that are parsed

Quote == "quote"
Comma == "comma"
LF    == "LF"
CR    == "CR"
Blank == "blank"

\* The characters the parser tells apart; "other" stands for the rest.
Chars == {Quote, Comma, LF, CR, Blank, "other"}

BatchCsvAssumption == Contents \subseteq Seq(Chars)

VARIABLES
  \* the text, the next character of it, and what was read
  content, index, records, sourceLines,
  \* the line that is read, the line the record began on, the record and field so far
  sourceLine, recordStartLine, row, field, inQuotes, fieldStartedWithQuote,
  \* the answer
  error, done

answer == <<records, sourceLines>>
lines  == <<sourceLine, recordStartLine>>
state  == <<inQuotes, fieldStartedWithQuote>>
rest   == <<content, error, done>>
vars   == <<answer, lines, state, rest, index, row, field>>

char     == content[index]
nextChar == IF index < Len(content) THEN content[index + 1] ELSE "none"
Quoted   == ~done /\ index <= Len(content) /\ inQuotes
Unquoted == ~done /\ index <= Len(content) /\ ~inQuotes

Fail(message) ==
  /\ error' = message /\ done' = TRUE
  /\ UNCHANGED <<answer, lines, state, content, index, row, field>>

-----------------------------------------------------------------------------
(* Inside quotes                                                           *)

\* Two quotes are one.
EscapedQuote ==
  /\ Quoted /\ char = Quote /\ nextChar = Quote
  /\ field' = Append(field, Quote) /\ index' = index + 2
  /\ UNCHANGED <<answer, lines, state, rest, row>>

CloseQuote ==
  /\ Quoted /\ char = Quote /\ nextChar # Quote
  /\ inQuotes' = FALSE /\ index' = index + 1
  /\ UNCHANGED <<answer, lines, rest, row, field, fieldStartedWithQuote>>

\* A line end belongs to the field, and is counted: CR LF once.
QuotedChar ==
  /\ Quoted /\ char # Quote
  /\ sourceLine' = IF char = LF \/ (char = CR /\ nextChar # LF) THEN sourceLine + 1 ELSE sourceLine
  /\ field' = Append(field, char) /\ index' = index + 1
  /\ UNCHANGED <<answer, state, rest, row, recordStartLine>>

-----------------------------------------------------------------------------
(* Outside quotes                                                          *)

OpenQuote ==
  /\ Unquoted /\ char = Quote /\ field = << >>
  /\ inQuotes' = TRUE /\ fieldStartedWithQuote' = TRUE /\ index' = index + 1
  /\ UNCHANGED <<answer, lines, rest, row, field>>

StrayQuote == Unquoted /\ char = Quote /\ field # << >> /\ Fail("invalid quote")

ClosedField == Unquoted /\ char \notin {Quote, Comma, LF, CR} /\ fieldStartedWithQuote

\* Blanks between a closing quote and the separator are skipped; nothing else may be there.
SkipBlank ==
  /\ ClosedField /\ char = Blank /\ index' = index + 1
  /\ UNCHANGED <<answer, lines, state, rest, row, field>>

AfterClosedField == ClosedField /\ char # Blank /\ Fail("characters after a closed field")

EndField ==
  /\ Unquoted /\ char = Comma
  /\ row' = Append(row, field) /\ field' = << >> /\ fieldStartedWithQuote' = FALSE
  /\ index' = index + 1
  /\ UNCHANGED <<answer, lines, rest, inQuotes>>

\* LF, CR or CR LF.
EndRecord ==
  /\ Unquoted /\ char \in {LF, CR}
  /\ records' = Append(records, Append(row, field))
  /\ sourceLines' = Append(sourceLines, recordStartLine)
  /\ sourceLine' = sourceLine + 1 /\ recordStartLine' = sourceLine + 1
  /\ row' = << >> /\ field' = << >> /\ fieldStartedWithQuote' = FALSE
  /\ index' = IF char = CR /\ nextChar = LF THEN index + 2 ELSE index + 1
  /\ UNCHANGED <<rest, inQuotes>>

PlainChar ==
  /\ Unquoted /\ char \notin {Quote, Comma, LF, CR} /\ ~fieldStartedWithQuote
  /\ field' = Append(field, char) /\ index' = index + 1
  /\ UNCHANGED <<answer, lines, state, rest, row>>

\* Mutant: the last record counts only when a line end follows or a field has begun.
EndOfFileEmptyField ==
  /\ ~done /\ index > Len(content) /\ done' = TRUE
  /\ error' = IF inQuotes THEN "unclosed quote" ELSE error
  /\ IF ~inQuotes /\ field # << >>
     THEN /\ records' = Append(records, Append(row, field))
          /\ sourceLines' = Append(sourceLines, recordStartLine)
     ELSE UNCHANGED answer
  /\ UNCHANGED <<lines, state, content, index, row, field>>

\* The end of the text ends the last record, unless there is nothing of it.
EndOfFile ==
  /\ ~done /\ index > Len(content) /\ done' = TRUE
  /\ error' = IF inQuotes THEN "unclosed quote" ELSE error
  /\ IF ~inQuotes /\ (field # << >> \/ row # << >>)
     THEN /\ records' = Append(records, Append(row, field))
          /\ sourceLines' = Append(sourceLines, recordStartLine)
     ELSE UNCHANGED answer
  /\ UNCHANGED <<lines, state, content, index, row, field>>

Init ==
  /\ content \in Contents /\ index = 1 /\ records = << >> /\ sourceLines = << >>
  /\ sourceLine = 1 /\ recordStartLine = 1 /\ row = << >> /\ field = << >>
  /\ inQuotes = FALSE /\ fieldStartedWithQuote = FALSE /\ error = "" /\ done = FALSE

Next ==
  \/ EscapedQuote \/ CloseQuote \/ QuotedChar
  \/ OpenQuote \/ StrayQuote \/ SkipBlank \/ AfterClosedField
  \/ EndField \/ EndRecord \/ PlainChar \/ EndOfFile

Spec == Init /\ [][Next]_vars

-----------------------------------------------------------------------------
(* What a CSV text says, without a parser                                  *)

\* A place is outside of quotes if the quotes before it are paired.
Quotes     == {i \in DOMAIN content : content[i] = Quote}
Outside(i) == Cardinality({j \in Quotes : j < i}) % 2 = 0

\* The line ends of the text, those that end a record, and the commas that end a field; CR LF counts
\* where it ends.
LineEnds   == {i \in DOMAIN content : content[i] = LF
                                   \/ (content[i] = CR /\ (i = Len(content) \/ content[i + 1] # LF))}
RecordEnds == {i \in LineEnds : Outside(i)}
Commas     == {i \in DOMAIN content : content[i] = Comma /\ Outside(i)}

\* The record a place is in and its commas, which of its fields, and the places of a field's text.
RecordOf(i)  == 1 + Cardinality({j \in RecordEnds : j < i})
CommasOf(k)  == {i \in Commas : RecordOf(i) = k}
FieldOf(i)   == 1 + Cardinality({j \in CommasOf(RecordOf(i)) : j < i})
TextOf(k, f) == {i \in DOMAIN content : /\ RecordOf(i) = k /\ FieldOf(i) = f
                                        /\ Outside(i) => content[i] \notin {Comma, LF, CR}}
AllRecords   == 1..(1 + Cardinality(RecordEnds))
FieldsOf(k)  == 1..(1 + Cardinality(CommasOf(k)))

\* A field has no quotes, or is a text in quotes, its quotes doubled, and blanks after it.
QuotesOf(text) == text \cap Quotes
WellFormed(text) ==
  \/ QuotesOf(text) = {}
  \/ \E first, last \in QuotesOf(text) :
       /\ first < last /\ \A i \in text : first <= i /\ (i > last => content[i] = Blank)
       /\ \A i \in QuotesOf(text) \ {first, last} : ~Outside(i) => i + 1 \in QuotesOf(text) \ {last}

\* The value of a field: what stands between its quotes, of two quotes one.
ValueOf(text) ==
  ItemsAt(content, IF QuotesOf(text) = {} THEN text
                   ELSE {i \in text : /\ \E a, b \in QuotesOf(text) : a < i /\ i < b
                                      /\ content[i] # Quote \/ ~Outside(i)})

\* An empty quoted field that goes on after a blank.
Reopened(text) ==
  \E i, j \in QuotesOf(text) : /\ i + 2 < j /\ content[i + 1] = Quote /\ content[i + 2] = Blank
                               /\ \A k \in text : i <= k

AllWellFormed  == \A k \in AllRecords : \A f \in FieldsOf(k) : WellFormed(TextOf(k, f))
NoneReopened   == \A k \in AllRecords : \A f \in FieldsOf(k) : ~Reopened(TextOf(k, f))

Record(k) == [f \in FieldsOf(k) |-> ValueOf(TextOf(k, f))]
Line(k)   == 1 + Cardinality({i \in LineEnds : RecordOf(i) < k})

-----------------------------------------------------------------------------
\* The parser's state keeps its types, and every record has its line.
CsvTypeOK ==
  /\ index \in 1..(Len(content) + 1) /\ Len(records) = Len(sourceLines)
  /\ \A k \in DOMAIN records : records[k] # << >>
  /\ inQuotes \in BOOLEAN /\ fieldStartedWithQuote \in BOOLEAN /\ done \in BOOLEAN
  /\ inQuotes => fieldStartedWithQuote
  /\ recordStartLine \in 1..sourceLine /\ sourceLine <= 1 + Len(content)

\* A file is refused exactly when one of its fields is not well formed; but for a field that is
\* opened again behind an empty pair of quotes and blanks, which parseCsv accepts.
RefusedIfMalformed == done /\ NoneReopened => (error = "" <=> AllWellFormed)

\* Of a file that is accepted every record is there, in order, its fields without their quotes; the
\* last one may be missing if there is nothing in it.
RecordsOfTheFile ==
  done /\ error = "" /\ AllWellFormed =>
    /\ \A k \in DOMAIN records : k \in AllRecords /\ records[k] = Record(k)
    /\ \A k \in AllRecords \ DOMAIN records : Record(k) = << << >> >>

\* The line a record is reported at is the line of the file it begins on, whatever the line
\* ends, the empty lines and the quoted line ends before it.
LinesOfTheFile == done => \A k \in DOMAIN records : sourceLines[k] = Line(k)

\* What parseCsv reads of a file is what the file says: refused only if it is no CSV, and of any
\* other every record, with its fields and its line (parseCsv and its caller).
ParsedAsWritten == CsvTypeOK /\ RefusedIfMalformed /\ RecordsOfTheFile /\ LinesOfTheFile
=============================================================================
