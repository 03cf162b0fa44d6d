------------------------------ MODULE BatchUpload ------------------------------
(***************************************************************************)
(* The page where a batch file is chosen, read and checked in the browser, *)
(* and the review of its rows.  Reading is asynchronous: a file may be     *)
(* replaced or cleared while it is read.  The parser is module BatchCsv;   *)
(* here a text is the records it yields, or its error.                     *)
(***************************************************************************)
EXTENDS PageNumbers, FiniteSets

CONSTANTS
  Files,                     \* the files the user may choose
  Null,                      \* no file, no result
  BATCH_MIN_ROWS, BATCH_MAX_ROWS, BATCH_MAX_FILE_SIZE_BYTES, BATCH_REVIEW_PAGE_SIZE,
  Searches,                  \* what the user looks for among the rows: parts of error texts
  MaxSelections              \* bound: files chosen and cleared on one visit

\* A record: the line it begins on, its columns (0 of a blank one), whether it says what the header
\* should, and of its cells what the rules look at; -1 is an account that is not all digits.
Records == [line : Nat, columns : Nat, header : BOOLEAN, account : Nat \cup {-1}, iban : Nat,
            plain : BOOLEAN, amount : {"none", "text", "number"}, cents : Int, reference : Nat]

\* A cell of the header is no account number.
BatchUploadAssumption ==
  /\ \A f \in Files :
       /\ f \in [csv : BOOLEAN, size : Nat, malformed : BOOLEAN, records : Seq(Records)]
       /\ \A i \in DOMAIN f.records : f.records[i].header => f.records[i].account = -1
  /\ BATCH_MIN_ROWS \in Nat /\ BATCH_MAX_ROWS \in Nat /\ BATCH_REVIEW_PAGE_SIZE \in Nat \ {0}
  /\ Null \notin Files /\ MaxSelections \in Nat

VARIABLES
  \* useBatchUpload and the reads under way; which page is shown; the review's controls
  upload, generation, reads, site, review,
  \* history: the file chosen last
  chosen

vars == <<upload, generation, reads, site, review, chosen>>

-----------------------------------------------------------------------------
(* The rules                                                               *)

validateHeader(record) == IF record.columns = 4 /\ record.header THEN {} ELSE {"header"}

HighestAccount == 999999999

When(condition, error) == IF condition THEN {error} ELSE {}

\* Mutant: an amount of nothing is an amount.
validateRowAtLeast(record) ==
  UNION { When(record.columns # 4, "columns"),
          When(record.account = -1, "account is not a number"),
          When(record.account = 0, "account is not positive"),
          When(record.account > HighestAccount, "account is too large"),
          When(record.iban = 0, "IBAN is missing"),
          When(record.iban > 34, "IBAN is too long"),
          When(record.iban > 0 /\ ~record.plain, "IBAN has other characters"),
          When(record.amount = "none", "amount is missing"),
          When(record.amount = "text", "amount is not a number"),
          When(record.amount = "number" /\ record.cents < 0, "amount is not positive"),
          When(record.reference > 100, "reference is too long") }

validateRow(record) ==
  UNION { When(record.columns # 4, "columns"),
          When(record.account = -1, "account is not a number"),
          When(record.account = 0, "account is not positive"),
          When(record.account > HighestAccount, "account is too large"),
          When(record.iban = 0, "IBAN is missing"),
          When(record.iban > 34, "IBAN is too long"),
          When(record.iban > 0 /\ ~record.plain, "IBAN has other characters"),
          When(record.amount = "none", "amount is missing"),
          When(record.amount = "text", "amount is not a number"),
          When(record.amount = "number" /\ record.cents <= 0, "amount is not positive"),
          When(record.reference > 100, "reference is too long") }

Sum(amounts) == FoldSeq(+, 0, amounts)

createSummary(rows) ==
  LET valid == ItemsAt(rows, {k \in DOMAIN rows : rows[k].errors = {}})
  IN  [totalRows |-> Len(rows), validRows |-> Len(valid), invalidRows |-> Len(rows) - Len(valid),
       totalAmount |-> Sum([k \in DOMAIN valid |-> valid[k].cents])]

\* Nothing is said of the rows: -1 stands for a number that is not shown.
createBlockedSummary(totalRows) ==
  [totalRows |-> totalRows, validRows |-> -1, invalidRows |-> -1, totalAmount |-> -1]

\* Blank records are none; the first that is left is the header.
validateBatchCsv(file) ==
  IF file.malformed
  THEN [isValid |-> FALSE, canValidateRows |-> FALSE, rows |-> << >>, fileErrors |-> {"malformed"},
        summary |-> createBlockedSummary(-1)]
  ELSE
    LET records == ItemsAt(file.records, {i \in DOMAIN file.records : file.records[i].columns > 0})
        data    == SubSeq(records, 2, Len(records))
        headerErrors == IF records = << >> THEN {"header"} ELSE validateHeader(records[1])
        fileErrors   == headerErrors \cup When(Len(data) < BATCH_MIN_ROWS, "too few rows")
                                     \cup When(Len(data) > BATCH_MAX_ROWS, "too many rows")
        rows == IF headerErrors # {} THEN << >>
                ELSE [k \in DOMAIN data |-> [rowNumber |-> data[k].line, recordNumber |-> k,
                                             cents |-> data[k].cents, errors |-> validateRow(data[k])]]
        summary == IF headerErrors # {} THEN createBlockedSummary(Len(data)) ELSE createSummary(rows)
    IN  [isValid |-> fileErrors = {} /\ summary.invalidRows = 0, canValidateRows |-> headerErrors = {},
         rows |-> rows, fileErrors |-> fileErrors, summary |-> summary]

-----------------------------------------------------------------------------
(* Choosing, reading and clearing                                          *)

EMPTY_UPLOAD == [phase |-> "empty", file |-> Null, result |-> Null]
FreshReview  == [filter |-> "all", search |-> "", page |-> 1, expanded |-> 0]

refused(file) == ~file.csv \/ file.size = 0 \/ file.size > BATCH_MAX_FILE_SIZE_BYTES

Uploading == site = "upload" /\ generation < MaxSelections /\ generation' = generation + 1

\* Mutant: the choice of another file does not end the reading of the one before.
selectFileKeepsRevision(file) ==
  /\ site = "upload" /\ Cardinality(reads) < 2
  /\ generation' = Larger(generation, 1) /\ chosen' = file
  /\ IF refused(file)
     THEN upload' = [phase |-> "error", file |-> file, result |-> Null] /\ UNCHANGED reads
     ELSE /\ upload' = [phase |-> "reading", file |-> file, result |-> Null]
          /\ reads' = reads \cup {[revision |-> generation', file |-> file]}
  /\ review' = FreshReview
  /\ UNCHANGED site

\* The name and the size are looked at before the file is read.
selectFile(file) ==
  /\ Uploading /\ chosen' = file
  /\ IF refused(file)
     THEN upload' = [phase |-> "error", file |-> file, result |-> Null] /\ UNCHANGED reads
     ELSE /\ upload' = [phase |-> "reading", file |-> file, result |-> Null]
          /\ reads' = reads \cup {[revision |-> generation', file |-> file]}
  /\ review' = FreshReview
  /\ UNCHANGED site

\* "Rensa" needs a file; the link on a file's details clears before the page opens.
reset ==
  /\ \/ Uploading /\ upload.phase # "empty" /\ UNCHANGED site
     \/ /\ site = "elsewhere" /\ site' = "upload"
        /\ generation < MaxSelections /\ generation' = generation + 1
  /\ upload' = EMPTY_UPLOAD /\ chosen' = Null /\ review' = FreshReview
  /\ UNCHANGED reads

\* A read that is not of the last choice changes nothing.
ReadArrives(read) ==
  /\ reads' = reads \ {read}
  /\ IF generation # read.revision THEN UNCHANGED <<upload, review>>
     ELSE /\ upload' = [phase |-> "ready", file |-> read.file, result |-> validateBatchCsv(read.file)]
          /\ review' = FreshReview
  /\ UNCHANGED <<generation, site, chosen>>

ReadFails(read) ==
  /\ reads' = reads \ {read}
  /\ upload' = IF generation # read.revision THEN upload
               ELSE [phase |-> "error", file |-> read.file, result |-> Null]
  /\ UNCHANGED <<generation, site, chosen, review>>

\* Another page about batch files and back: the upload stays, the review begins anew.
Visit ==
  /\ site' = IF site = "upload" THEN "elsewhere" ELSE "upload"
  /\ review' = FreshReview
  /\ UNCHANGED <<upload, generation, reads, chosen>>

\* Leaving the batch pages and coming back: what is still read finds nobody.
Leave ==
  /\ upload' = EMPTY_UPLOAD /\ generation' = 0 /\ reads' = {} /\ chosen' = Null
  /\ review' = FreshReview /\ site' = "upload"

-----------------------------------------------------------------------------
(* The review                                                              *)

rows == IF upload.result = Null THEN << >> ELSE upload.result.rows

filterBatchRows(all, status, search) ==
  ItemsAt(all, {k \in DOMAIN all : /\ status = "all" \/ (status = "valid") = (all[k].errors = {})
                                   /\ search = "" \/ search \in all[k].errors})

filtered   == filterBatchRows(rows, review.filter, review.search)
pagination == getBatchPagination(Len(filtered), review.page, BATCH_REVIEW_PAGE_SIZE)
shownRows  == SubSeq(filtered, pagination.start + 1, pagination.end)
Reviewing  == site = "upload" /\ upload.result # Null /\ upload.result.canValidateRows

Control(r) == Reviewing /\ review' = r /\ UNCHANGED <<upload, generation, reads, site, chosen>>

\* The three numbers of the summary and the menu choose the rows that are listed.
selectFilter(value) == Control([review EXCEPT !.filter = value, !.page = 1, !.expanded = 0])

searchRows(term) == Control([review EXCEPT !.search = term, !.page = 1, !.expanded = 0])

\* A page number other than the current one, or the page before or after.
onPage(page) ==
  /\ Control([review EXCEPT !.page = page, !.expanded = 0])
  /\ page \in (ToSet(pagination.slots) \ {Ellipsis, pagination.page}) \cup {pagination.page - 1, pagination.page + 1}
  /\ page \in 1..pagination.totalPages

\* The errors of one row are opened or closed.
expand(row) ==
  /\ row.errors # {}
  /\ Control([review EXCEPT !.expanded = IF @ = row.recordNumber THEN 0 ELSE row.recordNumber])

-----------------------------------------------------------------------------
Init ==
  /\ upload = EMPTY_UPLOAD /\ generation = 0 /\ reads = {} /\ chosen = Null
  /\ site = "upload" /\ review = FreshReview

Answers == \E read \in reads : ReadArrives(read) \/ ReadFails(read)

Review ==
  \/ \E value \in {"all", "valid", "invalid"} : selectFilter(value)
  \/ \E term \in Searches : searchRows(term)
  \/ \E page \in 1..pagination.totalPages : onPage(page)
  \/ \E k \in DOMAIN shownRows : expand(shownRows[k])

Next == (\E file \in Files : selectFile(file)) \/ reset \/ Answers \/ Visit \/ Leave \/ Review

Spec == Init /\ [][Next]_vars

\* The browser reads the file it was asked for last, or says that it cannot.
LastReadEnds == \E read \in reads : read.revision = generation /\ (ReadArrives(read) \/ ReadFails(read))
FairSpec     == Spec /\ WF_vars(LastReadEnds)

-----------------------------------------------------------------------------
\* The page's state keeps its types.
UploadTypeOK ==
  /\ upload.phase \in {"empty", "reading", "ready", "error"} /\ upload.file \in Files \cup {Null}
  /\ generation \in 0..MaxSelections /\ site \in {"upload", "elsewhere"}
  /\ \A read \in reads : read.revision \in 1..generation /\ read.file \in Files
  /\ review.page \in Nat \ {0} /\ review.expanded \in Nat

\* What is shown is of the file chosen last: no file, result or error of one that was replaced
\* or cleared meanwhile comes back.
OfTheFileChosenLast ==
  /\ upload.file = chosen
  /\ upload.phase = "ready" => upload.result = validateBatchCsv(chosen)

\* "Filen är validerad" is said of a file only if each of its records after the header is a
\* payment that can be made, and the amount shown is the sum of them all.
ValidMeansPayable ==
  LET records  == upload.file.records
      payments == ItemsAt(records, {i \in DOMAIN records : records[i].columns > 0 /\ ~records[i].header})
  IN  upload.phase = "ready" /\ upload.result.isValid =>
        /\ Len(payments) \in BATCH_MIN_ROWS..BATCH_MAX_ROWS
        /\ \A k \in DOMAIN payments :
             payments[k].account \in 1..HighestAccount /\ payments[k].iban \in 1..34 /\ payments[k].cents > 0
        /\ upload.result.summary.totalAmount = Sum([k \in DOMAIN payments |-> payments[k].cents])

\* The errors that are open are those of a row on the page that is shown.
ExpandedRowShown ==
  review.expanded # 0 => \E k \in DOMAIN shownRows :
    shownRows[k].recordNumber = review.expanded /\ shownRows[k].errors # {}

\* Nothing on the page is of another file than the one chosen last, nor of a row that is not on
\* the page: not after late reads, filters and page turns (useBatchUpload and the review).
UploadTruthful == UploadTypeOK /\ OfTheFileChosenLast /\ ExpandedRowShown
=============================================================================
