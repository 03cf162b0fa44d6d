----------------------------- MODULE MCBatchFiles -----------------------------
(***************************************************************************)
(* The batch files in three parts, of which a behaviour shows one.  The    *)
(* parser: every text of up to six characters.  The upload: files at the   *)
(* ends of every rule, two to three rows, two on a page.  The overview:    *)
(* five files, two on a page, three queries.                               *)
(***************************************************************************)
EXTENDS Integers, Sequences, TLC

CONSTANTS
  Null,
  Contents,
  UploadFiles, BATCH_MIN_ROWS, BATCH_MAX_ROWS, BATCH_MAX_FILE_SIZE_BYTES, BATCH_REVIEW_PAGE_SIZE,
  Searches, MaxSelections,
  ListedFiles, FirstQuery, Queries, BATCH_HISTORY_PAGE_SIZE, MaxChanges, MaxFailures

VARIABLES
  part,                      \* "csv" | "upload" | "overview"
  content, index, records, sourceLines, sourceLine, recordStartLine, row, field,
  inQuotes, fieldStartedWithQuote, error, done,
  upload, generation, reads, site, review, chosen,
  pagination, finished, requests, query, state, pageState, changes, failures

Chars == {"quote", "comma", "LF", "CR", "blank", "other"}
MCContents == UNION {[1..n -> Chars] : n \in 0..6}

Header == [line |-> 1, columns |-> 4, header |-> TRUE, account |-> -1, iban |-> 7, plain |-> FALSE,
           amount |-> "text", cents |-> 0, reference |-> 9]
Row(n, account, iban, plain, cents, reference) ==
  [line |-> n, columns |-> 4, header |-> FALSE, account |-> account, iban |-> iban, plain |-> plain,
   amount |-> "number", cents |-> cents, reference |-> reference]
Good(n)  == Row(n, 999999999, 34, TRUE, 1, 100)
Blank(n) == [Good(n) EXCEPT !.columns = 0, !.account = -1, !.iban = 0, !.amount = "none",
                            !.cents = 0, !.reference = 0]
Short(n) == [Blank(n) EXCEPT !.columns = 1, !.account = 1]

File(rows) == [csv |-> TRUE, size |-> 10, malformed |-> FALSE, records |-> rows]
TwoRows == File(<<Header, Blank(2), Good(3), Row(4, 1, 1, TRUE, 250, 0)>>)

MCUploadFiles == {
  TwoRows,
  File(<<Header, Row(2, 1, 24, TRUE, 0, 0), Good(3), Row(4, 0, 35, FALSE, -1, 101)>>),
  File(<<Header, Good(2), Row(3, 1000000000, 10, TRUE, 5, 0), Short(4), Good(5)>>),
  File(<<Header, [Good(2) EXCEPT !.amount = "text", !.cents = 0], Header>>),
  File(<<Header, Good(2), Row(3, 1, 24, TRUE, 0, 0)>>),
  File(<<Header, Good(2)>>),
  File(<<Good(1), Good(2), Good(3)>>),
  File(<<Blank(1)>>),
  [TwoRows EXCEPT !.malformed = TRUE, !.size = 9],
  [TwoRows EXCEPT !.csv = FALSE],
  [TwoRows EXCEPT !.size = 11],
  [File(<< >>) EXCEPT !.size = 0] }

ListedFile(id, status, size, words) == [id |-> id, status |-> status, size |-> size, words |-> words]
MCListedFiles == {
  ListedFile(1, "processing", 2, {}), ListedFile(2, "completed", 5, {"seb"}),
  ListedFile(3, "processing", 5, {"seb"}), ListedFile(4, "failed", 1, {"seb"}),
  ListedFile(5, "processing", 9, {}) }

Query(search, status, sort) == [search |-> search, status |-> status, sort |-> sort]
MCFirstQuery == Query("", "all", "created-desc")
MCQueries == {MCFirstQuery, Query("", "processing", "size"), Query("seb", "all", "created-asc")}

Csv      == INSTANCE BatchCsv
Upload   == INSTANCE BatchUpload WITH Files <- UploadFiles
Overview == INSTANCE BatchHistory WITH Files <- ListedFiles

ASSUME CsvParameters      == Csv!BatchCsvAssumption
ASSUME UploadParameters   == Upload!BatchUploadAssumption
ASSUME OverviewParameters == Overview!BatchHistoryAssumption

csvVars      == <<content, index, records, sourceLines, sourceLine, recordStartLine, row, field,
                  inQuotes, fieldStartedWithQuote, error, done>>
uploadVars   == <<upload, generation, reads, site, review, chosen>>
overviewVars == <<pagination, finished, requests, query, state, pageState, changes, failures>>
vars         == <<part, csvVars, uploadVars, overviewVars>>

\* The parts that rest start from one state each.
Init ==
  /\ part \in {"csv", "upload", "overview"}
  /\ IF part = "csv" THEN Csv!Init ELSE Csv!Init /\ content = << >>
  /\ Upload!Init /\ Overview!Init
  /\ part # "overview" => pagination = "client"

InCsv      == part = "csv" /\ UNCHANGED <<part, uploadVars, overviewVars>>
InUpload   == part = "upload" /\ UNCHANGED <<part, csvVars, overviewVars>>
InOverview == part = "overview" /\ UNCHANGED <<part, csvVars, uploadVars>>

Next ==
  \/ InCsv /\ Csv!Next
  \/ InUpload /\ Upload!Next
  \/ InOverview /\ Overview!Next

\* The browser ends the last read, and the source answers the request that counts.
Answers ==
  \/ InUpload /\ Upload!LastReadEnds
  \/ InOverview /\ Overview!CurrentAnswered
Spec == Init /\ [][Next]_vars /\ WF_vars(Answers)

-----------------------------------------------------------------------------
\* BatchCsv: what is read is what the file says.
ParsedAsWritten == part = "csv" => Csv!ParsedAsWritten

\* BatchUpload: what is shown is of the file chosen last and of the page shown.
UploadTruthful == part = "upload" => Upload!UploadTruthful

\* BatchUpload: a file that is called valid can be paid.
ValidMeansPayable == part = "upload" => Upload!ValidMeansPayable

\* BatchHistory: the list, its path and its buttons belong to the query that is set.
BatchListConsistent == part = "overview" => Overview!BatchListConsistent

\* Neither the reading of a file nor the loading of the overview lasts, whatever replaces it.
Waiting ==
  \/ part = "upload" /\ upload.phase = "reading"
  \/ part = "overview" /\ Overview!loading
BatchPagesSettle == []<>~Waiting
=============================================================================
