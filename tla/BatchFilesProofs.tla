--------------------------- MODULE BatchFilesProofs ---------------------------
(***************************************************************************)
(* The pages of the batch files: UploadTruthful and ValidMeansPayable of   *)
(* the upload for any files, bounds and order of choices, reads and        *)
(* controls, BatchListConsistent of the overview for any files, queries,   *)
(* length of a page and order of requests and answers, and ParsedAsWritten *)
(* of the parser for texts of any length.  Each part takes the steps of    *)
(* its page only, and has an invariant of its own.                         *)
(***************************************************************************)
EXTENDS MCBatchFiles, SharedLemmas

-----------------------------------------------------------------------------
(* The upload: the copies of the shared operators                          *)

LEMMA UploadItems == \A list, places : Upload!ItemsAt(list, places) = ItemsAt(list, places)
BY DEF Upload!ItemsAt, ItemsAt, Upload!Cardinality, Upload!IsFiniteSet, Cardinality, IsFiniteSet

LEMMA UploadSlots == \A total, current : Upload!pageSlots(total, current) = pageSlots(total, current)
BY DEF Upload!pageSlots, Upload!UpTo, Upload!Larger, Upload!Smaller, Upload!Ellipsis, pageSlots, UpTo, Larger, Smaller, Ellipsis

LEMMA UploadPages ==
  \A total, size, n : Upload!getPaymentPagination(total, size, n) = getPaymentPagination(total, size, n)
BY UploadSlots DEF Upload!getPaymentPagination, Upload!Ceiling, Upload!Smaller, getPaymentPagination, Ceiling, Smaller

LEMMA UploadPaged ==
  ASSUME NEW total \in Nat, NEW n \in Nat \ {0}
  PROVE  /\ Upload!getBatchPagination(total, n, BATCH_REVIEW_PAGE_SIZE).totalPages \in Nat
         /\ Upload!getBatchPagination(total, n, BATCH_REVIEW_PAGE_SIZE).start \in Nat
         /\ Upload!getBatchPagination(total, n, BATCH_REVIEW_PAGE_SIZE).end \in 0..total
<1> DEFINE p == getPaymentPagination(total, BATCH_REVIEW_PAGE_SIZE, n)
<1>1. BATCH_REVIEW_PAGE_SIZE \in Nat \ {0}
  BY UploadParameters DEF Upload!BatchUploadAssumption
<1> DEFINE s == p.startIndex
           e == p.endIndex
<1>2. /\ p.totalPages \in Nat
      /\ total = 0 => s = 0 /\ e = 0
      /\ total > 0 => s \in Nat /\ e = Smaller(s + BATCH_REVIEW_PAGE_SIZE, total) /\ s < e /\ e <= total
  BY <1>1, PageOf
<1>4. s \in Nat /\ e \in 0..total
  <2> HIDE DEF s, e
  <2>1. CASE total = 0
    BY <1>2, <2>1
  <2>2. CASE total > 0
    BY <1>1, <1>2, <2>2 DEF Smaller
  <2> QED BY <2>1, <2>2
<1>3. Upload!getPaymentPagination(total, BATCH_REVIEW_PAGE_SIZE, n) = p
  BY UploadPages
<1> HIDE DEF p
<1> QED BY <1>2, <1>3, <1>4 DEF Upload!getBatchPagination

-----------------------------------------------------------------------------
(* The upload: what the rules say of a file                                *)

\* The records of a file that are not blank, and those after the header.
NotBlank(f) == {i \in DOMAIN f.records : f.records[i].columns > 0}
Kept(f)     == ItemsAt(f.records, NotBlank(f))
Data(f)     == SubSeq(Kept(f), 2, Len(Kept(f)))

RowOf(k, r) == [rowNumber |-> r.line, recordNumber |-> k, cents |-> r.cents, errors |-> Upload!validateRow(r)]
Reviewed    == {RowOf(k, r) : k \in Nat, r \in Upload!Records}
RowsOf(f)   == [k \in DOMAIN Data(f) |-> RowOf(k, Data(f)[k])]

LEMMA FileParts ==
  ASSUME NEW f \in UploadFiles
  PROVE  /\ f.records \in Seq(Upload!Records) /\ NotBlank(f) \in SUBSET DOMAIN f.records
         /\ Kept(f) \in Seq(Upload!Records) /\ Len(Kept(f)) = Cardinality(NotBlank(f))
         /\ Data(f) \in Seq(Upload!Records)
         /\ \A i \in DOMAIN f.records : f.records[i].header => f.records[i].account = -1
<1>1. /\ f \in [csv : BOOLEAN, size : Nat, malformed : BOOLEAN, records : Seq(Upload!Records)]
      /\ \A i \in DOMAIN f.records : f.records[i].header => f.records[i].account = -1
  BY UploadParameters DEF Upload!BatchUploadAssumption
<1>2. f.records \in Seq(Upload!Records)
  BY <1>1
<1>3. NotBlank(f) \in SUBSET DOMAIN f.records
  BY DEF NotBlank
<1>4. Kept(f) \in Seq(Upload!Records) /\ Len(Kept(f)) = Cardinality(NotBlank(f))
  BY <1>2, <1>3, ItemsAtAre DEF Kept
<1>5. Data(f) \in Seq(Upload!Records)
  BY <1>4 DEF Data
<1> QED BY <1>1, <1>2, <1>3, <1>4, <1>5

LEMMA RowsOfType ==
  ASSUME NEW f \in UploadFiles
  PROVE  /\ RowsOf(f) \in Seq(Reviewed) /\ Len(RowsOf(f)) = Len(Data(f))
         /\ \A k \in 1..Len(Data(f)) : RowsOf(f)[k] = RowOf(k, Data(f)[k])
<1> DEFINE d == Data(f)
<1>1. d \in Seq(Upload!Records) /\ Len(d) \in Nat /\ DOMAIN d = 1..Len(d)
  BY FileParts
<1>2. RowsOf(f) = [k \in 1..Len(d) |-> RowOf(k, d[k])]
  BY <1>1 DEF RowsOf
<1> HIDE DEF d
<1>3. ASSUME NEW k \in 1..Len(d) PROVE RowOf(k, d[k]) \in Reviewed
  <2>1. d[k] \in Upload!Records /\ k \in Nat
    BY <1>1
  <2> QED BY <2>1 DEF Reviewed
<1>4. RowsOf(f) \in Seq(Reviewed) /\ Len(RowsOf(f)) = Len(d) /\ \A k \in 1..Len(d) : RowsOf(f)[k] = RowOf(k, d[k])
  BY <1>1, <1>2, <1>3
<1> QED BY <1>4 DEF d

\* The rows that are reviewed are those of the records, if the header is right.
LEMMA RowsAre ==
  ASSUME NEW f \in UploadFiles
  PROVE  Upload!validateBatchCsv(f).rows \in Seq(Reviewed)
<1> DEFINE v == Upload!validateBatchCsv(f)
<1>1. v.rows = << >> \/ v.rows = RowsOf(f)
  BY UploadItems DEF Upload!validateBatchCsv, RowsOf, RowOf, Data, Kept, NotBlank
<1>2. << >> \in Seq(Reviewed)
  OBVIOUS
<1> HIDE DEF v
<1>3. v.rows \in Seq(Reviewed)
  BY <1>1, <1>2, RowsOfType
<1> QED BY <1>3 DEF v

\* What a file that is called valid has passed.
LEMMA ValidIs ==
  ASSUME NEW f \in UploadFiles, Upload!validateBatchCsv(f).isValid
  PROVE  /\ Kept(f) # << >> /\ Kept(f)[1].header
         /\ ~(Len(Data(f)) < BATCH_MIN_ROWS) /\ ~(Len(Data(f)) > BATCH_MAX_ROWS)
         /\ Upload!validateBatchCsv(f).summary = Upload!createSummary(RowsOf(f))
         /\ Upload!createSummary(RowsOf(f)).invalidRows = 0
<1> DEFINE headerErrors == IF Kept(f) = << >> THEN {"header"} ELSE Upload!validateHeader(Kept(f)[1])
           fileErrors   == headerErrors \cup Upload!When(Len(Data(f)) < BATCH_MIN_ROWS, "too few rows")
                                        \cup Upload!When(Len(Data(f)) > BATCH_MAX_ROWS, "too many rows")
           rowsOf  == IF headerErrors # {} THEN << >> ELSE RowsOf(f)
           summary == IF headerErrors # {} THEN Upload!createBlockedSummary(Len(Data(f)))
                      ELSE Upload!createSummary(rowsOf)
           v == Upload!validateBatchCsv(f)
<1>1. ~f.malformed
  BY DEF Upload!validateBatchCsv
<1>2. v = [isValid |-> fileErrors = {} /\ summary.invalidRows = 0, canValidateRows |-> headerErrors = {},
           rows |-> rowsOf, fileErrors |-> fileErrors, summary |-> summary]
  BY <1>1, UploadItems DEF Upload!validateBatchCsv, RowsOf, RowOf, Data, Kept, NotBlank
<1> HIDE DEF summary, fileErrors, headerErrors, rowsOf
<1>3. fileErrors = {} /\ summary.invalidRows = 0 /\ v.summary = summary
  <2>1. v.isValid
    OBVIOUS
  <2> HIDE DEF v
  <2>2. v.isValid = (fileErrors = {} /\ summary.invalidRows = 0)
    BY <1>2
  <2> QED BY <1>2, <2>1, <2>2
<1>4. headerErrors = {}
  BY <1>3 DEF fileErrors
<1>5. Kept(f) # << >> /\ Kept(f)[1].header
  BY <1>4 DEF headerErrors, Upload!validateHeader
<1>6. ~(Len(Data(f)) < BATCH_MIN_ROWS) /\ ~(Len(Data(f)) > BATCH_MAX_ROWS)
  BY <1>3 DEF fileErrors, Upload!When
<1>7. rowsOf = RowsOf(f) /\ summary = Upload!createSummary(RowsOf(f))
  BY <1>4 DEF rowsOf, summary
<1> QED BY <1>3, <1>5, <1>6, <1>7

-----------------------------------------------------------------------------
(* The upload: a valid file can be paid                                    *)

\* The records that are no header, of a file that is valid: they are the payments.
Payments(f) == ItemsAt(f.records, {i \in DOMAIN f.records : f.records[i].columns > 0 /\ ~f.records[i].header})

\* A summary that counts no invalid row is of rows that are valid, each of them.
LEMMA AllRowsValid ==
  ASSUME NEW f \in UploadFiles, Upload!createSummary(RowsOf(f)).invalidRows = 0
  PROVE  /\ \A k \in 1..Len(Data(f)) : Upload!validateRow(Data(f)[k]) = {}
         /\ Upload!createSummary(RowsOf(f)).totalAmount
              = Upload!Sum([k \in DOMAIN Data(f) |-> Data(f)[k].cents])
<1> DEFINE r == RowsOf(f)
           places == {k \in DOMAIN r : r[k].errors = {}}
           valid == ItemsAt(r, places)
           n == Len(Data(f))
<1>1. r \in Seq(Reviewed) /\ Len(r) = n /\ n \in Nat /\ DOMAIN Data(f) = 1..n
      /\ \A k \in 1..n : r[k] = RowOf(k, Data(f)[k])
  <2>1. Data(f) \in Seq(Upload!Records)
    BY FileParts
  <2> QED BY <2>1, RowsOfType
<1>2. Upload!createSummary(r) =
        [totalRows |-> Len(r), validRows |-> Len(valid), invalidRows |-> Len(r) - Len(valid),
         totalAmount |-> Upload!Sum([k \in DOMAIN valid |-> valid[k].cents])]
  BY UploadItems DEF Upload!createSummary
<1> HIDE DEF r, n
<1>3. places \in SUBSET DOMAIN r /\ DOMAIN r = 1..n
  BY <1>1
<1>4. IsFiniteSet(places) /\ Cardinality(places) \in Nat /\ Len(valid) = Cardinality(places)
  <2> HIDE DEF places
  <2> QED BY <1>1, <1>3, ItemsAtAre
<1>5. Cardinality(places) = n
  <2>1. n - Len(valid) = 0
    BY <1>1, <1>2 DEF r
  <2> HIDE DEF places, valid
  <2> QED BY <1>1, <1>4, <2>1
<1>6. places = 1..n
  <2>1. IsFiniteSet(1..n) /\ Cardinality(1..n) = n
    <3>1. IsFiniteSet(1..n) /\ Cardinality(1..n) = IF 1 > n THEN 0 ELSE n - 1 + 1
      BY <1>1, FS_Interval
    <3>2. Cardinality(1..n) = n
      BY <1>1, <3>1
    <3> QED BY <3>1, <3>2
  <2>2. places \in SUBSET (1..n)
    BY <1>3
  <2> HIDE DEF places
  <2> QED BY <1>5, <2>1, <2>2, FS_Subset
<1>7. ASSUME NEW k \in 1..n PROVE Upload!validateRow(Data(f)[k]) = {} /\ r[k].cents = Data(f)[k].cents
  <2>1. k \in places
    BY <1>6
  <2>2. r[k].errors = {} /\ r[k] = RowOf(k, Data(f)[k])
    BY <1>1, <2>1
  <2> QED BY <2>2 DEF RowOf
<1>8. valid = r
  <2>1. places = DOMAIN r
    BY <1>3, <1>6
  <2> HIDE DEF places
  <2> QED BY <1>1, <2>1, ItemsAtAll
<1>9. [k \in DOMAIN valid |-> valid[k].cents] = [k \in DOMAIN Data(f) |-> Data(f)[k].cents]
  <2> HIDE DEF valid
  <2>1. DOMAIN valid = 1..n
    BY <1>3, <1>8
  <2>2. \A k \in 1..n : valid[k].cents = Data(f)[k].cents
    BY <1>7, <1>8
  <2> QED BY <1>1, <2>1, <2>2
<1>10. Upload!createSummary(r).totalAmount = Upload!Sum([k \in DOMAIN Data(f) |-> Data(f)[k].cents])
  <2> HIDE DEF valid
  <2> QED BY <1>2, <1>9
<1> QED BY <1>7, <1>10 DEF r, n

LEMMA HighestIs == Upload!HighestAccount \in Int
BY SMT DEF Upload!HighestAccount

LEMMA RowIsPayable ==
  ASSUME NEW d \in Upload!Records, Upload!validateRow(d) = {}
  PROVE  d.account \in 1..Upload!HighestAccount /\ d.iban \in 1..34 /\ d.cents > 0
<1> DEFINE tooLarge == d.account > Upload!HighestAccount
           notPositive == d.amount = "number" /\ d.cents <= 0
<1>1. /\ Upload!When(d.account = -1, "account is not a number") \subseteq Upload!validateRow(d)
      /\ Upload!When(d.account = 0, "account is not positive") \subseteq Upload!validateRow(d)
      /\ Upload!When(tooLarge, "account is too large") \subseteq Upload!validateRow(d)
      /\ Upload!When(d.iban = 0, "IBAN is missing") \subseteq Upload!validateRow(d)
      /\ Upload!When(d.iban > 34, "IBAN is too long") \subseteq Upload!validateRow(d)
      /\ Upload!When(d.amount = "none", "amount is missing") \subseteq Upload!validateRow(d)
      /\ Upload!When(d.amount = "text", "amount is not a number") \subseteq Upload!validateRow(d)
      /\ Upload!When(notPositive, "amount is not positive") \subseteq Upload!validateRow(d)
  <2> HIDE DEF tooLarge, notPositive
  <2>1. ASSUME NEW x, NEW S, x \in S PROVE x \subseteq UNION S
    BY <2>1
  <2> USE DEF tooLarge, notPositive
  <2> DEFINE all == { Upload!When(d.columns # 4, "columns"),
          Upload!When(d.account = -1, "account is not a number"),
          Upload!When(d.account = 0, "account is not positive"),
          Upload!When(d.account > Upload!HighestAccount, "account is too large"),
          Upload!When(d.iban = 0, "IBAN is missing"),
          Upload!When(d.iban > 34, "IBAN is too long"),
          Upload!When(d.iban > 0 /\ ~d.plain, "IBAN has other characters"),
          Upload!When(d.amount = "none", "amount is missing"),
          Upload!When(d.amount = "text", "amount is not a number"),
          Upload!When(d.amount = "number" /\ d.cents <= 0, "amount is not positive"),
          Upload!When(d.reference > 100, "reference is too long") }
  <2>2. Upload!validateRow(d) = UNION all
    BY ONLY SMT DEF Upload!validateRow, all
  <2>3. /\ Upload!When(d.account = -1, "account is not a number") \in all
        /\ Upload!When(d.account = 0, "account is not positive") \in all
        /\ Upload!When(tooLarge, "account is too large") \in all
        /\ Upload!When(d.iban = 0, "IBAN is missing") \in all
        /\ Upload!When(d.iban > 34, "IBAN is too long") \in all
        /\ Upload!When(d.amount = "none", "amount is missing") \in all
        /\ Upload!When(d.amount = "text", "amount is not a number") \in all
        /\ Upload!When(notPositive, "amount is not positive") \in all
    BY SMT
  <2> HIDE DEF all, tooLarge, notPositive
  <2>4. \A x \in all : x \subseteq Upload!validateRow(d)
    BY <2>1, <2>2
  <2> QED BY <2>3, <2>4
<1>2. \A c, e : Upload!When(c, e) \subseteq {} => ~c
  BY DEF Upload!When
<1>3. ~(d.account = -1) /\ ~(d.account = 0) /\ ~tooLarge /\ ~(d.iban = 0) /\ ~(d.iban > 34)
  <2> HIDE DEF tooLarge, notPositive
  <2> QED BY <1>1, <1>2
<1>4. ~(d.amount = "none") /\ ~(d.amount = "text") /\ ~notPositive
  <2> HIDE DEF tooLarge, notPositive
  <2> QED BY <1>1, <1>2
<1>5. d.account \in Nat \cup {-1} /\ d.iban \in Nat /\ d.cents \in Int /\ d.amount \in {"none", "text", "number"}
  BY DEF Upload!Records
<1>6. d.account \in 1..Upload!HighestAccount
  BY <1>3, <1>5, HighestIs
<1>7. d.iban \in 1..34
  BY <1>3, <1>5
<1>8. d.cents > 0
  BY <1>4, <1>5
<1> QED BY <1>6, <1>7, <1>8

\* The header is the first record that is kept; no other one is a header, or it would be no payment.
LEMMA PaymentsAreTheData ==
  ASSUME NEW f \in UploadFiles, Kept(f) # << >>, Kept(f)[1].header,
         \A k \in 1..Len(Data(f)) : Upload!validateRow(Data(f)[k]) = {}
  PROVE  Payments(f) = Data(f)
<1> DEFINE S == NotBlank(f)
           list == f.records
           n == Cardinality(S)
           P == {i \in DOMAIN list : list[i].columns > 0 /\ ~list[i].header}
<1>1. /\ list \in Seq(Upload!Records) /\ S \in SUBSET DOMAIN list /\ S \in SUBSET Nat /\ Len(list) \in Nat
      /\ Kept(f) = ItemsAt(list, S) /\ Kept(f) \in Seq(Upload!Records) /\ Len(Kept(f)) = n /\ n \in Nat
      /\ \A i \in DOMAIN list : list[i].header => list[i].account = -1
  <2>1. S \in SUBSET Nat
    BY FileParts
  <2> QED BY <2>1, FileParts DEF Kept
<1>2. S # {}
  <2>1. n # 0
    <3> HIDE DEF n
    <3> QED BY <1>1
  <2> QED BY <2>1, FS_EmptySet
<1>3. PICK m \in S : \A i \in S : m <= i
  BY <1>1, <1>2, Least
<1>4. /\ Cardinality(S \ {m}) = n - 1 /\ Kept(f)[1] = list[m]
      /\ ItemsAt(list, S \ {m}) = SubSeq(Kept(f), 2, n)
  <2> HIDE DEF S, list
  <2>1. list \in Seq(Upload!Records) /\ S \in SUBSET DOMAIN list /\ \A i \in S : m <= i
    BY <1>1, <1>3
  <2>2. /\ Cardinality(S \ {m}) = Cardinality(S) - 1 /\ ItemsAt(list, S)[1] = list[m]
        /\ ItemsAt(list, S \ {m}) = SubSeq(ItemsAt(list, S), 2, Cardinality(S))
    BY <1>3, <2>1, ItemsAtRest
  <2> QED BY <1>1, <2>2
<1>5. Data(f) = ItemsAt(list, S \ {m})
  BY <1>1, <1>4 DEF Data
<1>6. ASSUME NEW i \in S \ {m} PROVE ~list[i].header
  <2>1. S \ {m} \in SUBSET DOMAIN list
    BY <1>1
  <2> DEFINE R == S \ {m}
             k == Cardinality(Earlier(R, i)) + 1
  <2>2. Cardinality(Earlier(R, i)) \in 0..(Cardinality(R) - 1) /\ ItemsAt(list, R)[k] = list[i]
    <3> HIDE DEF R, list
    <3> QED BY <1>1, <1>6, <2>1, ItemAtRank DEF R
  <2>3. Len(Data(f)) = Cardinality(R) /\ Cardinality(R) \in Nat
    <3> HIDE DEF R, list
    <3> QED BY <1>1, <1>5, <2>1, ItemsAtAre DEF R
  <2>4. k \in 1..Len(Data(f)) /\ Data(f)[k] = list[i]
    <3> HIDE DEF R, list
    <3>1. Data(f) = ItemsAt(list, R)
      BY <1>5 DEF R
    <3> QED BY <2>2, <2>3, <3>1
  <2> HIDE DEF k, R, S, list
  <2>5. Data(f)[k] \in Upload!Records /\ Upload!validateRow(Data(f)[k]) = {}
    <3>1. Data(f) \in Seq(Upload!Records)
      BY FileParts
    <3>2. \A x \in 1..Len(Data(f)) : Data(f)[x] \in Upload!Records
      BY <3>1
    <3> QED BY <2>4, <3>2
  <2>6. list[i].account > 0
    BY <2>4, <2>5, RowIsPayable
  <2>7. i \in DOMAIN list
    BY <1>1, <1>6
  <2> QED BY <1>1, <2>6, <2>7
<1>7. list[m].header
  BY <1>4
<1>8. P = S \ {m}
  <2>1. S = {i \in DOMAIN list : list[i].columns > 0}
    BY DEF NotBlank
  <2>2. ASSUME NEW i \in DOMAIN list PROVE i \in P <=> i \in S \ {m}
    <3>1. i \in S <=> list[i].columns > 0
      BY <2>1
    <3> HIDE DEF S, list
    <3> QED BY <1>6, <1>7, <3>1
  <2> HIDE DEF list
  <2> QED BY <1>1, <2>2
<1> QED BY <1>5, <1>8 DEF Payments

LEMMA ValidPayable ==
  ASSUME NEW f \in UploadFiles, Upload!validateBatchCsv(f).isValid
  PROVE  /\ Len(Payments(f)) \in BATCH_MIN_ROWS..BATCH_MAX_ROWS
         /\ \A k \in DOMAIN Payments(f) :
              /\ Payments(f)[k].account \in 1..Upload!HighestAccount /\ Payments(f)[k].iban \in 1..34 /\ Payments(f)[k].cents > 0
         /\ Upload!validateBatchCsv(f).summary.totalAmount
              = Upload!Sum([k \in DOMAIN Payments(f) |-> Payments(f)[k].cents])
<1>1. /\ Kept(f) # << >> /\ Kept(f)[1].header
      /\ ~(Len(Data(f)) < BATCH_MIN_ROWS) /\ ~(Len(Data(f)) > BATCH_MAX_ROWS)
      /\ Upload!validateBatchCsv(f).summary = Upload!createSummary(RowsOf(f))
      /\ Upload!createSummary(RowsOf(f)).invalidRows = 0
  BY ValidIs
<1>2. /\ \A k \in 1..Len(Data(f)) : Upload!validateRow(Data(f)[k]) = {}
      /\ Upload!createSummary(RowsOf(f)).totalAmount
           = Upload!Sum([k \in DOMAIN Data(f) |-> Data(f)[k].cents])
  BY <1>1, AllRowsValid
<1>3. Payments(f) = Data(f)
  BY <1>1, <1>2, PaymentsAreTheData
<1>4. Data(f) \in Seq(Upload!Records)
  BY FileParts
<1>5. Len(Data(f)) \in BATCH_MIN_ROWS..BATCH_MAX_ROWS
  <2>1. BATCH_MIN_ROWS \in Nat /\ BATCH_MAX_ROWS \in Nat /\ Len(Data(f)) \in Nat
    BY <1>4, UploadParameters DEF Upload!BatchUploadAssumption
  <2> QED BY <1>1, <2>1
<1>6. ASSUME NEW k \in DOMAIN Data(f)
      PROVE  /\ Data(f)[k].account \in 1..Upload!HighestAccount /\ Data(f)[k].iban \in 1..34 /\ Data(f)[k].cents > 0
  <2>1. k \in 1..Len(Data(f)) /\ Data(f)[k] \in Upload!Records
    BY <1>4, <1>6
  <2>2. Upload!validateRow(Data(f)[k]) = {}
    BY <1>2, <2>1
  <2> DEFINE d == Data(f)[k]
  <2> HIDE DEF d
  <2>3. d \in Upload!Records /\ Upload!validateRow(d) = {}
    BY <2>1, <2>2 DEF d
  <2>4. d.account \in 1..Upload!HighestAccount /\ d.iban \in 1..34 /\ d.cents > 0
    BY <2>3, RowIsPayable
  <2> QED BY <2>4 DEF d
<1> QED BY <1>1, <1>2, <1>3, <1>5, <1>6

-----------------------------------------------------------------------------
(* The upload: the steps                                                   *)

Reviews == [filter : {"all", "valid", "invalid"}, search : Searches \cup {""}, page : Nat \ {0}, expanded : Nat]

\* What is shown is of the file chosen last; the read that counts, if there is one, is of that
\* file, and the page waits for it.
UploadInv ==
  /\ upload.phase \in {"empty", "reading", "ready", "error"}
  /\ chosen \in UploadFiles \cup {Null} /\ upload.file = chosen
  /\ IF upload.phase = "ready" THEN chosen # Null /\ upload.result = Upload!validateBatchCsv(chosen)
     ELSE upload.result = Null
  /\ generation \in 0..MaxSelections /\ site \in {"upload", "elsewhere"}
  /\ reads \subseteq [revision : Nat, file : UploadFiles]
  /\ \A read \in reads :
       /\ read.revision \in 1..generation
       /\ read.revision = generation => read.file = chosen /\ upload.phase = "reading"
  /\ review \in Reviews
  /\ Upload!ExpandedRowShown

LEMMA AReview ==
  ASSUME NEW f \in {"all", "valid", "invalid"}, NEW s \in Searches \cup {""}, NEW p \in Nat \ {0}, NEW e \in Nat
  PROVE  [filter |-> f, search |-> s, page |-> p, expanded |-> e] \in Reviews
BY DEF Reviews

LEMMA ReviewedRow == \A r \in Reviewed : r.recordNumber \in Nat
BY DEF Reviewed, RowOf

\* The rows on the page are rows of the file.
LEMMA ShownAre ==
  ASSUME UploadInv
  PROVE  Upload!pagination.totalPages \in Nat /\ Upload!shownRows \in Seq(Reviewed)
<1>1. Upload!rows \in Seq(Reviewed)
  <2>1. CASE upload.result = Null
    BY <2>1 DEF Upload!rows
  <2>2. CASE upload.result # Null
    <3>1. upload.result = Upload!validateBatchCsv(chosen) /\ chosen \in UploadFiles
      BY <2>2 DEF UploadInv
    <3> QED BY <2>2, <3>1, RowsAre DEF Upload!rows
  <2> QED BY <2>1, <2>2
<1>2. Upload!filtered \in Seq(Reviewed)
  <2> DEFINE all == Upload!rows
             places == {k \in DOMAIN all :
                          /\ review.filter = "all" \/ (review.filter = "valid") = (all[k].errors = {})
                          /\ review.search = "" \/ review.search \in all[k].errors}
  <2>1. Upload!filtered = ItemsAt(all, places)
    BY UploadItems DEF Upload!filtered, Upload!filterBatchRows
  <2>2. places \in SUBSET DOMAIN all
    OBVIOUS
  <2> HIDE DEF places
  <2> QED BY <1>1, <2>1, <2>2, ItemsAtAre
<1>3. Len(Upload!filtered) \in Nat /\ review.page \in Nat \ {0}
  <2>1. review \in Reviews
    BY DEF UploadInv
  <2>2. Len(Upload!filtered) \in Nat
    BY <1>2
  <2>3. review.page \in Nat \ {0}
    BY <2>1 DEF Reviews
  <2> QED BY <2>2, <2>3
<1>4. /\ Upload!pagination.totalPages \in Nat /\ Upload!pagination.start \in Nat
      /\ Upload!pagination.end \in 0..Len(Upload!filtered)
  BY <1>3, UploadPaged DEF Upload!pagination
<1>5. Upload!shownRows \in Seq(Reviewed)
  BY <1>2, <1>4 DEF Upload!shownRows
<1> QED BY <1>4, <1>5

\* No errors are open on a page that begins anew, and of no rows.
LEMMA NoneOpen == review.expanded' = 0 => Upload!ExpandedRowShown'
BY DEF Upload!ExpandedRowShown

LEMMA Fresh == Upload!FreshReview \in Reviews /\ Upload!FreshReview.expanded = 0
BY DEF Upload!FreshReview, Reviews

LEMMA FreshNow == review' = Upload!FreshReview => review' \in Reviews /\ Upload!ExpandedRowShown'
BY Fresh, NoneOpen

LEMMA RowsStay ==
  ASSUME UNCHANGED upload, review.filter' = review.filter, review.search' = review.search, review.page' = review.page
  PROVE  Upload!shownRows' = Upload!shownRows
<1>1. Upload!rows' = Upload!rows
  BY DEF Upload!rows
<1>2. Upload!filtered' = Upload!filtered
  BY <1>1 DEF Upload!filtered
<1>3. Upload!pagination' = Upload!pagination
  BY <1>2 DEF Upload!pagination
<1> QED BY <1>2, <1>3 DEF Upload!shownRows

LEMMA UploadStarts == Upload!Init => UploadInv
<1> SUFFICES ASSUME Upload!Init PROVE UploadInv
  OBVIOUS
<1>1. review \in Reviews /\ Upload!ExpandedRowShown
  BY Fresh DEF Upload!Init, Upload!ExpandedRowShown
<1>2. MaxSelections \in Nat
  BY UploadParameters DEF Upload!BatchUploadAssumption
<1> QED BY <1>1, <1>2 DEF Upload!Init, UploadInv, Upload!EMPTY_UPLOAD

LEMMA SelectStep ==
  ASSUME UploadInv, NEW file \in UploadFiles, Upload!selectFile(file)
  PROVE  UploadInv'
<1>1. review' \in Reviews /\ Upload!ExpandedRowShown'
  BY FreshNow DEF Upload!selectFile
<1>2. /\ generation \in Nat /\ generation' = generation + 1 /\ generation' \in 0..MaxSelections
      /\ chosen' = file /\ site' = site
  BY UploadParameters DEF Upload!selectFile, Upload!Uploading, UploadInv, Upload!BatchUploadAssumption
<1>3. /\ upload'.phase \in {"reading", "error"} /\ upload'.file = file /\ upload'.result = Null
      /\ reads' = reads \/ (upload'.phase = "reading" /\ reads' = reads \cup {[revision |-> generation', file |-> file]})
  BY DEF Upload!selectFile
<1>4. ASSUME NEW read \in reads'
      PROVE  /\ read \in [revision : Nat, file : UploadFiles] /\ read.revision \in 1..generation'
             /\ read.revision = generation' => read.file = chosen' /\ upload'.phase = "reading"
  <2>1. CASE read \in reads
    <3>1. read.revision \in 1..generation /\ read \in [revision : Nat, file : UploadFiles]
      BY <2>1 DEF UploadInv
    <3> QED BY <1>2, <3>1
  <2>2. CASE read \notin reads
    <3>1. read = [revision |-> generation', file |-> file] /\ upload'.phase = "reading"
      BY <1>3, <1>4, <2>2
    <3> QED BY <1>2, <3>1
  <2> QED BY <2>1, <2>2
<1> QED BY <1>1, <1>2, <1>3, <1>4 DEF UploadInv

LEMMA ResetStep == ASSUME UploadInv, Upload!reset PROVE UploadInv'
<1>1. review' \in Reviews /\ Upload!ExpandedRowShown'
  BY FreshNow DEF Upload!reset
<1>2. /\ generation \in Nat /\ generation' = generation + 1 /\ generation' \in 0..MaxSelections
      /\ site' \in {"upload", "elsewhere"} /\ chosen' = Null /\ upload' = Upload!EMPTY_UPLOAD /\ reads' = reads
  BY UploadParameters DEF Upload!reset, Upload!Uploading, UploadInv, Upload!BatchUploadAssumption
<1>3. upload'.phase = "empty" /\ upload'.file = Null /\ upload'.result = Null
  BY <1>2 DEF Upload!EMPTY_UPLOAD
<1>4. ASSUME NEW read \in reads'
      PROVE  read.revision \in 1..generation' /\ read.revision # generation'
  <2>1. read.revision \in 1..generation
    BY <1>2 DEF UploadInv
  <2> QED BY <1>2, <2>1
<1> QED BY <1>1, <1>2, <1>3, <1>4 DEF UploadInv

LEMMA LeaveStep == ASSUME UploadInv, Upload!Leave PROVE UploadInv'
<1>1. review' \in Reviews /\ Upload!ExpandedRowShown'
  BY FreshNow DEF Upload!Leave
<1>2. MaxSelections \in Nat
  BY UploadParameters DEF Upload!BatchUploadAssumption
<1> QED BY <1>1, <1>2 DEF Upload!Leave, UploadInv, Upload!EMPTY_UPLOAD

LEMMA VisitStep == ASSUME UploadInv, Upload!Visit PROVE UploadInv'
<1>1. review' \in Reviews /\ Upload!ExpandedRowShown'
  BY FreshNow DEF Upload!Visit
<1> QED BY <1>1 DEF Upload!Visit, UploadInv

LEMMA ArrivesStep ==
  ASSUME UploadInv, NEW read \in reads, Upload!ReadArrives(read)
  PROVE  UploadInv'
<1>1. reads' = reads \ {read} /\ UNCHANGED <<generation, site, chosen>>
  BY DEF Upload!ReadArrives
<1>2. CASE generation # read.revision
  <2>1. UNCHANGED <<upload, review>>
    BY <1>2 DEF Upload!ReadArrives
  <2>2. Upload!ExpandedRowShown'
    BY <2>1, RowsStay DEF UploadInv, Upload!ExpandedRowShown
  <2> QED BY <1>1, <2>1, <2>2 DEF UploadInv
<1>3. CASE generation = read.revision
  <2>1. /\ upload' = [phase |-> "ready", file |-> read.file, result |-> Upload!validateBatchCsv(read.file)]
        /\ review' = Upload!FreshReview
    BY <1>3 DEF Upload!ReadArrives
  <2>2. review' \in Reviews /\ Upload!ExpandedRowShown'
    BY <2>1, FreshNow
  <2>3. read \in [revision : Nat, file : UploadFiles] /\ read.file = chosen /\ chosen \in UploadFiles
    BY <1>3 DEF UploadInv
  <2>4. ASSUME NEW other \in reads' PROVE other.revision # generation
    <3>1. other \in [revision : Nat, file : UploadFiles] /\ other # read
      BY <1>1 DEF UploadInv
    <3>2. other.revision = generation => other.file = chosen
      BY <1>1 DEF UploadInv
    <3> QED BY <1>3, <2>3, <3>1, <3>2
  <2>5. chosen # Null
    BY <2>3, UploadParameters DEF Upload!BatchUploadAssumption
  <2> QED BY <1>1, <2>1, <2>2, <2>3, <2>4, <2>5 DEF UploadInv
<1> QED BY <1>2, <1>3

\* A read that fails leaves the review as it is: there were no rows yet.
LEMMA FailsStep ==
  ASSUME UploadInv, NEW read \in reads, Upload!ReadFails(read)
  PROVE  UploadInv'
<1>1. reads' = reads \ {read} /\ UNCHANGED <<generation, site, chosen, review>>
  BY DEF Upload!ReadFails
<1>2. CASE generation # read.revision
  <2>1. UNCHANGED upload
    BY <1>2 DEF Upload!ReadFails
  <2>2. Upload!ExpandedRowShown'
    BY <1>1, <2>1, RowsStay DEF UploadInv, Upload!ExpandedRowShown
  <2> QED BY <1>1, <2>1, <2>2 DEF UploadInv
<1>3. CASE generation = read.revision
  <2>1. upload' = [phase |-> "error", file |-> read.file, result |-> Null]
    BY <1>3 DEF Upload!ReadFails
  <2>2. read \in [revision : Nat, file : UploadFiles] /\ read.file = chosen /\ upload.phase = "reading"
    BY <1>3 DEF UploadInv
  <2>3. ASSUME NEW other \in reads' PROVE other.revision # generation
    <3>1. other \in [revision : Nat, file : UploadFiles] /\ other # read
      BY <1>1 DEF UploadInv
    <3>2. other.revision = generation => other.file = chosen
      BY <1>1 DEF UploadInv
    <3> QED BY <1>3, <2>2, <3>1, <3>2
  <2>4. upload.result = Null /\ upload'.result = Null
    BY <2>1, <2>2 DEF UploadInv
  <2>5. Upload!shownRows' = Upload!shownRows
    <3>1. Upload!rows' = Upload!rows
      BY <2>4 DEF Upload!rows
    <3>2. Upload!filtered' = Upload!filtered
      BY <1>1, <3>1 DEF Upload!filtered
    <3>3. Upload!pagination' = Upload!pagination
      BY <1>1, <3>2 DEF Upload!pagination
    <3> QED BY <3>2, <3>3 DEF Upload!shownRows
  <2>6. Upload!ExpandedRowShown'
    BY <1>1, <2>5 DEF UploadInv, Upload!ExpandedRowShown
  <2> QED BY <1>1, <2>1, <2>2, <2>3, <2>6 DEF UploadInv
<1> QED BY <1>2, <1>3

LEMMA ReviewStep ==
  ASSUME UploadInv, UNCHANGED <<upload, generation, reads, site, chosen>>,
         review' \in Reviews, Upload!ExpandedRowShown'
  PROVE  UploadInv'
BY DEF UploadInv

\* A filter, a term or a page closes what was open; the errors that are opened are of a row shown.
LEMMA ControlsStep == ASSUME UploadInv, Upload!Review PROVE UploadInv'
<1>0. review \in Reviews
  BY DEF UploadInv
<1>1. ASSUME NEW value \in {"all", "valid", "invalid"}, Upload!selectFilter(value) PROVE UploadInv'
  <2>1. /\ review' = [review EXCEPT !.filter = value, !.page = 1, !.expanded = 0]
        /\ UNCHANGED <<upload, generation, reads, site, chosen>>
    BY <1>1 DEF Upload!selectFilter, Upload!Control
  <2>2. review' = [filter |-> value, search |-> review.search, page |-> 1, expanded |-> 0]
    BY <1>0, <2>1 DEF Reviews
  <2>3. review' \in Reviews /\ review.expanded' = 0
    <3>1. review.filter \in {"all", "valid", "invalid"} /\ review.search \in Searches \cup {""}
      BY <1>0 DEF Reviews
    <3>2. 1 \in Nat \ {0} /\ 0 \in Nat
      OBVIOUS
    <3>3. review' \in Reviews
      BY <2>2, <3>1, <3>2, AReview
    <3>4. review.expanded' = 0
      BY <2>2
    <3> QED BY <3>3, <3>4
  <2> QED BY <2>1, <2>3, NoneOpen, ReviewStep
<1>2. ASSUME NEW term \in Searches, Upload!searchRows(term) PROVE UploadInv'
  <2>1. /\ review' = [review EXCEPT !.search = term, !.page = 1, !.expanded = 0]
        /\ UNCHANGED <<upload, generation, reads, site, chosen>>
    BY <1>2 DEF Upload!searchRows, Upload!Control
  <2>2. review' = [filter |-> review.filter, search |-> term, page |-> 1, expanded |-> 0]
    BY <1>0, <2>1 DEF Reviews
  <2>3. review' \in Reviews /\ review.expanded' = 0
    <3>1. review.filter \in {"all", "valid", "invalid"} /\ review.search \in Searches \cup {""}
      BY <1>0 DEF Reviews
    <3>2. 1 \in Nat \ {0} /\ 0 \in Nat
      OBVIOUS
    <3>3. review' \in Reviews
      BY <2>2, <3>1, <3>2, AReview
    <3>4. review.expanded' = 0
      BY <2>2
    <3> QED BY <3>3, <3>4
  <2> QED BY <2>1, <2>3, NoneOpen, ReviewStep
<1>3. ASSUME NEW page \in 1..Upload!pagination.totalPages, Upload!onPage(page) PROVE UploadInv'
  <2>1. /\ review' = [review EXCEPT !.page = page, !.expanded = 0]
        /\ UNCHANGED <<upload, generation, reads, site, chosen>>
    BY <1>3 DEF Upload!onPage, Upload!Control
  <2>2. page \in Nat \ {0}
    BY ShownAre
  <2>3. review' \in Reviews /\ review.expanded' = 0
    BY <1>0, <2>1, <2>2 DEF Reviews
  <2> QED BY <2>1, <2>3, NoneOpen, ReviewStep
<1>4. ASSUME NEW k \in DOMAIN Upload!shownRows, Upload!expand(Upload!shownRows[k]) PROVE UploadInv'
  <2> DEFINE r == Upload!shownRows[k]
             open == IF review.expanded = r.recordNumber THEN 0 ELSE r.recordNumber
  <2>1. /\ review' = [review EXCEPT !.expanded = open] /\ r.errors # {}
        /\ UNCHANGED <<upload, generation, reads, site, chosen>>
    BY <1>4 DEF Upload!expand, Upload!Control
  <2>2. r.recordNumber \in Nat
    <3>1. r \in Reviewed
      BY ShownAre
    <3> HIDE DEF r
    <3> QED BY <3>1, ReviewedRow
  <2>3. /\ review' \in Reviews /\ review.expanded' = open
        /\ review.filter' = review.filter /\ review.search' = review.search /\ review.page' = review.page
    <3>1. open \in Nat
      BY <2>2
    <3> HIDE DEF open
    <3> QED BY <1>0, <2>1, <3>1 DEF Reviews
  <2>4. Upload!shownRows' = Upload!shownRows
    BY <2>1, <2>3, RowsStay
  <2>5. open # 0 => Upload!shownRows[k].recordNumber = open /\ Upload!shownRows[k].errors # {}
    BY <2>1
  <2> HIDE DEF open
  <2>6. Upload!ExpandedRowShown'
    BY <2>3, <2>4, <2>5 DEF Upload!ExpandedRowShown
  <2> QED BY <2>1, <2>3, <2>6, ReviewStep
<1> QED BY <1>1, <1>2, <1>3, <1>4 DEF Upload!Review

LEMMA UploadNext == UploadInv /\ [Upload!Next]_(Upload!vars) => UploadInv'
<1> SUFFICES ASSUME UploadInv, [Upload!Next]_(Upload!vars) PROVE UploadInv'
  OBVIOUS
<1>1. CASE UNCHANGED Upload!vars
  <2>1. UNCHANGED <<upload, generation, reads, site, review, chosen>>
    BY <1>1 DEF Upload!vars
  <2>2. Upload!ExpandedRowShown'
    BY <2>1, RowsStay DEF UploadInv, Upload!ExpandedRowShown
  <2> QED BY <2>1, <2>2 DEF UploadInv
<1>2. CASE Upload!Next
  BY <1>2, SelectStep, ResetStep, ArrivesStep, FailsStep, VisitStep, LeaveStep, ControlsStep
  DEF Upload!Next, Upload!Answers
<1> QED BY <1>1, <1>2

LEMMA UploadAlways == Spec => []UploadInv
<1>1. Init => UploadInv
  BY UploadStarts DEF Init
<1>2. [Next]_vars => [Upload!Next]_(Upload!vars)
  BY DEF Next, InCsv, InUpload, InOverview, vars, uploadVars, Upload!vars
<1>3. UploadInv /\ [Next]_vars => UploadInv'
  BY <1>2, UploadNext
<1> QED BY <1>1, <1>3, PTL DEF Spec

\* Nothing on the page is of another file than the one chosen last, nor of a row that is not on the
\* page, for any files, bounds and order of choices, late reads and controls (useBatchUpload).
THEOREM UploadIsTruthful == Spec => []UploadTruthful
<1>1. UploadInv => Upload!UploadTypeOK
  BY DEF UploadInv, Upload!UploadTypeOK, Reviews
<1>2. UploadInv => Upload!OfTheFileChosenLast /\ Upload!ExpandedRowShown
  BY DEF UploadInv, Upload!OfTheFileChosenLast
<1>3. UploadInv => UploadTruthful
  BY <1>1, <1>2 DEF UploadTruthful, Upload!UploadTruthful
<1> QED BY <1>3, UploadAlways, PTL

\* Of a file that is called valid every record after the header is a payment that can be made, and
\* the total is their sum, for any files and bounds (validateBatchCsv and createSummary).
THEOREM ValidCanBePaid == Spec => []ValidMeansPayable
<1>1. UploadInv => Upload!ValidMeansPayable
  <2> SUFFICES ASSUME UploadInv, upload.phase = "ready", upload.result.isValid PROVE Upload!ValidMeansPayable
    BY DEF Upload!ValidMeansPayable
  <2>1. chosen \in UploadFiles /\ upload.file = chosen /\ upload.result = Upload!validateBatchCsv(chosen)
    BY DEF UploadInv
  <2>2. Upload!ItemsAt(chosen.records, {i \in DOMAIN chosen.records :
                                          chosen.records[i].columns > 0 /\ ~chosen.records[i].header}) = Payments(chosen)
    BY UploadItems DEF Payments
  <2> DEFINE p == Payments(chosen)
  <2>3. /\ Len(p) \in BATCH_MIN_ROWS..BATCH_MAX_ROWS
        /\ \A k \in DOMAIN p : /\ p[k].account \in 1..Upload!HighestAccount /\ p[k].iban \in 1..34 /\ p[k].cents > 0
        /\ upload.result.summary.totalAmount = Upload!Sum([k \in DOMAIN p |-> p[k].cents])
    BY <2>1, ValidPayable
  <2> HIDE DEF p
  <2>4. Upload!ItemsAt(upload.file.records, {i \in DOMAIN upload.file.records :
          upload.file.records[i].columns > 0 /\ ~upload.file.records[i].header}) = p
    BY <2>1, <2>2 DEF p
  <2> QED BY <2>3, <2>4 DEF Upload!ValidMeansPayable
<1>2. UploadInv => ValidMeansPayable
  BY <1>1 DEF ValidMeansPayable
<1> QED BY <1>2, UploadAlways, PTL

-----------------------------------------------------------------------------
(* The overview: the copies of the shared operators, and what is answered  *)

LEMMA OverviewCounts == \A S : Overview!Cardinality(S) = Cardinality(S) /\ Overview!IsFiniteSet(S) = IsFiniteSet(S)
BY DEF Overview!Cardinality, Overview!IsFiniteSet, Cardinality, IsFiniteSet

LEMMA OverviewSlots == \A total, current : Overview!pageSlots(total, current) = pageSlots(total, current)
BY DEF Overview!pageSlots, Overview!UpTo, Overview!Larger, Overview!Smaller, Overview!Ellipsis,
       pageSlots, UpTo, Larger, Smaller, Ellipsis

LEMMA OverviewPages ==
  \A total, size, n : Overview!getPaymentPagination(total, size, n) = getPaymentPagination(total, size, n)
BY OverviewSlots
DEF Overview!getPaymentPagination, Overview!Ceiling, Overview!Smaller, getPaymentPagination, Ceiling, Smaller

\* Files have their own numbers, so each of the orders tells any two of them apart.
LEMMA FilesOrdered ==
  ASSUME NEW order, NEW S \in SUBSET ListedFiles
  PROVE  Orders({p \in ListedFiles \X ListedFiles : Overview!Before(p[1], p[2], order)}, S)
<1> DEFINE R == {p \in ListedFiles \X ListedFiles : Overview!Before(p[1], p[2], order)}
<1>1. \A a, b \in ListedFiles : <<a, b>> \in R <=> Overview!Before(a, b, order)
  OBVIOUS
<1>2. \A f \in ListedFiles : f.id \in Nat /\ f.size \in Nat
  BY OverviewParameters DEF Overview!BatchHistoryAssumption
<1>3. \A f, g \in ListedFiles : f.id = g.id => f = g
  BY OverviewParameters DEF Overview!BatchHistoryAssumption
<1> HIDE DEF R
<1>4. SUFFICES Orders(R, S)
  BY DEF R
<1>5. CASE order = "size"
  <2>1. \A a, b \in ListedFiles : Overview!Before(a, b, order) <=> a.size > b.size \/ (a.size = b.size /\ a.id < b.id)
    BY <1>5 DEF Overview!Before
  <2> QED BY <1>1, <1>2, <1>3, <2>1 DEF Orders
<1>6. CASE order = "created-asc"
  <2>1. \A a, b \in ListedFiles : Overview!Before(a, b, order) <=> a.id > b.id
    BY <1>6 DEF Overview!Before
  <2> QED BY <1>1, <1>2, <1>3, <2>1 DEF Orders
<1>7. CASE ~(order = "size") /\ ~(order = "created-asc")
  <2>1. \A a, b \in ListedFiles : Overview!Before(a, b, order) <=> a.id < b.id
    BY <1>7 DEF Overview!Before
  <2> QED BY <1>1, <1>2, <1>3, <2>1 DEF Orders
<1> QED BY <1>5, <1>6, <1>7

LEMMA ListIs ==
  ASSUME NEW q
  PROVE  Overview!filterBatchHistory(q) \in Seq(ListedFiles)
<1> DEFINE M == {f \in ListedFiles : q.status \in {"all", Overview!Status(f)} /\ (q.search = "" \/ q.search \in f.words)}
           R == {p \in ListedFiles \X ListedFiles : Overview!Before(p[1], p[2], q.sort)}
           n == Cardinality(M)
           at(k) == CHOOSE f \in M : Cardinality({g \in M : Overview!Before(g, f, q.sort)}) = k - 1
<1>1. M \in SUBSET ListedFiles /\ IsFiniteSet(M)
  <2>1. IsFiniteSet(ListedFiles)
    BY OverviewParameters, OverviewCounts DEF Overview!BatchHistoryAssumption
  <2> QED BY <2>1, FS_Subset
<1>2. Overview!filterBatchHistory(q) = [k \in 1..n |-> at(k)]
  BY DEF Overview!filterBatchHistory, Overview!Cardinality, Overview!IsFiniteSet, Cardinality, IsFiniteSet
<1>3. \A f \in M : Below(M, R, f) = {g \in M : Overview!Before(g, f, q.sort)}
  <2>1. \A f, g \in M : <<g, f>> \in R <=> Overview!Before(g, f, q.sort)
    OBVIOUS
  <2> HIDE DEF M, R
  <2> QED BY <2>1 DEF Below
<1>4. Orders(R, M)
  <2> DEFINE s == q.sort
  <2>1. Orders({p \in ListedFiles \X ListedFiles : Overview!Before(p[1], p[2], s)}, M)
    <3> HIDE DEF M, s
    <3> QED BY <1>1, FilesOrdered
  <2> QED BY <2>1
<1>5. n \in Nat
  BY <1>1, FS_CardinalityType
<1>6. ASSUME NEW k \in 1..n PROVE at(k) \in ListedFiles
  <2>1. PICK f \in M : Cardinality(Below(M, R, f)) = k - 1
    <3> HIDE DEF M, R
    <3> QED BY <1>1, <1>4, EveryRank
  <2>2. \E g \in M : Cardinality({h \in M : Overview!Before(h, g, q.sort)}) = k - 1
    <3> HIDE DEF M, R
    <3> QED BY <1>3, <2>1
  <2>3. at(k) \in M
    BY <2>2
  <2> QED BY <1>1, <2>3
<1>7. [k \in 1..n |-> at(k)] \in Seq(ListedFiles)
  <2> HIDE DEF n, at
  <2> QED BY <1>5, <1>6
<1> QED BY <1>2, <1>7

-----------------------------------------------------------------------------
(* The overview: its invariant                                             *)

Answer  == [query : Queries, cursor : Nat \cup {Null}, items : Seq(ListedFiles), nextCursor : Nat \cup {Null}]
Path    == [cursors : Seq(Nat \cup {Null}), index : Nat]
State   == [key : Queries \cup {Null}, data : Answer \cup {Null}, error : BOOLEAN, loading : BOOLEAN,
            navigation : Path, failedPage : Nat \cup {Null}]
Request == [query : Queries, index : Nat \cup {Null}, cursor : Nat \cup {Null}, aborted : BOOLEAN]

OverviewTypes ==
  /\ pagination \in {"client", "cursor"} /\ query \in Queries /\ requests \subseteq Request
  /\ state \in State /\ pageState \in [key : Queries, page : Nat \ {0}]

\* The page that is shown is the one its path says, and a page of the path after it is the next one.
PathFits ==
  /\ state.navigation.index < Len(state.navigation.cursors)
  /\ \A i \in 2..Len(state.navigation.cursors) : state.navigation.cursors[i] # Null
  /\ IF state.data = Null THEN state.navigation = Overview!INITIAL_NAVIGATION
     ELSE /\ state.data.query = state.key
          /\ state.data.cursor = state.navigation.cursors[state.navigation.index + 1]
          /\ Len(state.navigation.cursors) > state.navigation.index + 1 =>
               state.navigation.cursors[state.navigation.index + 2] = state.data.nextCursor

\* A page the path can be followed to.
Leads(i) ==
  /\ state.data # Null /\ i # state.navigation.index
  /\ IF Overview!NextPage(i) THEN state.data.nextCursor # Null ELSE i < Len(state.navigation.cursors)

FailureFits == state.error => ~state.loading /\ (state.failedPage # Null => Leads(state.failedPage))

\* One request counts at most; it is of the query that is set, and if it is not for the first page
\* the page waits for it and the path leads where it goes.
RequestFits(r) ==
  /\ r.query = query
  /\ IF r.index = Null THEN r.cursor = Null
     ELSE state.key = query /\ state.loading /\ Leads(r.index) /\ r.cursor = Overview!CursorTo(r.index)

OneCounts == \A a, b \in requests : ~a.aborted /\ ~b.aborted => a = b

RequestsFit == OneCounts /\ \A r \in requests : ~r.aborted => RequestFits(r)

OverviewInv == OverviewTypes /\ PathFits /\ FailureFits /\ RequestsFit

\* An answer is of the request it answers.
LEMMA AnswerIs ==
  ASSUME NEW q \in Queries, NEW c \in Nat \cup {Null}
  PROVE  /\ Overview!readFixturePage(q, c) \in Answer /\ Overview!readFixturePage(q, c) # Null
         /\ Overview!readFixturePage(q, c).query = q /\ Overview!readFixturePage(q, c).cursor = c
<1> DEFINE all == Overview!filterBatchHistory(q)
           offset == IF c = Null THEN 0 ELSE c
           end == offset + BATCH_HISTORY_PAGE_SIZE
           shown == IF pagination = "client" THEN all ELSE SubSeq(all, offset + 1, Overview!Smaller(end, Len(all)))
           next == IF pagination = "cursor" /\ end < Len(all) THEN end ELSE Null
<1>1. all \in Seq(ListedFiles) /\ Len(all) \in Nat
  BY ListIs
<1>2. offset \in Nat /\ end \in Nat
  BY OverviewParameters DEF Overview!BatchHistoryAssumption
<1>3. Overview!readFixturePage(q, c) = [query |-> q, cursor |-> c, items |-> shown, nextCursor |-> next]
  BY DEF Overview!readFixturePage
<1> HIDE DEF all, offset, end
<1>4. Overview!Smaller(end, Len(all)) \in Nat /\ Overview!Smaller(end, Len(all)) <= Len(all)
  BY <1>1, <1>2 DEF Overview!Smaller
<1>5. shown \in Seq(ListedFiles)
  <2> DEFINE m == Overview!Smaller(end, Len(all))
  <2>1. m \in Nat /\ m <= Len(all) /\ offset + 1 \in Nat \ {0}
    BY <1>2, <1>4
  <2> HIDE DEF m
  <2>2. SubSeq(all, offset + 1, m) \in Seq(ListedFiles)
    BY <1>1, <2>1
  <2> QED BY <1>1, <2>2 DEF m
<1>6. next \in Nat \cup {Null}
  BY <1>2
<1> HIDE DEF shown, next
<1>7. [query |-> q, cursor |-> c, items |-> shown, nextCursor |-> next] \in Answer
  BY <1>5, <1>6 DEF Answer
<1>8. Null \notin Answer
  BY OverviewParameters DEF Overview!BatchHistoryAssumption, Answer
<1> QED BY <1>3, <1>7, <1>8

-----------------------------------------------------------------------------
(* The overview: the path of the pages                                     *)

\* A page of the path that has come, or the one after its end, is where its cursor is kept, and what
\* follows it is the page that comes next.
LEMMA PathCommitted ==
  ASSUME NEW history \in Path, history.index < Len(history.cursors),
         \A j \in 2..Len(history.cursors) : history.cursors[j] # Null,
         NEW i \in Nat, NEW cursor \in Nat \cup {Null}, NEW next \in Nat \cup {Null},
         IF i < Len(history.cursors) THEN history.cursors[i + 1] = cursor
         ELSE i = Len(history.cursors) /\ cursor # Null
  PROVE  LET h == Overview!commitBatchCursor(history, i, cursor, next)
         IN  /\ h \in Path /\ h.index = i /\ i < Len(h.cursors) /\ h.cursors[i + 1] = cursor
             /\ \A j \in 2..Len(h.cursors) : h.cursors[j] # Null
             /\ Len(h.cursors) > i + 1 => h.cursors[i + 2] = next
<1> DEFINE c == history.cursors
           d == IF i < Len(c) /\ c[i + 1] = cursor THEN c ELSE Append(SubSeq(c, 1, i), cursor)
           e == IF Len(d) > i + 1 /\ d[i + 2] = next THEN d ELSE SubSeq(d, 1, i + 1)
           h == Overview!commitBatchCursor(history, i, cursor, next)
<1>1. c \in Seq(Nat \cup {Null}) /\ Len(c) \in Nat /\ Len(c) >= 1
  BY DEF Path
<1>2. h = [cursors |-> e, index |-> i]
  BY DEF Overview!commitBatchCursor
<1>3. /\ d \in Seq(Nat \cup {Null}) /\ Len(d) \in Nat /\ i < Len(d) /\ d[i + 1] = cursor
      /\ \A j \in 2..Len(d) : d[j] # Null
  <2>1. CASE i < Len(c)
    <3>1. d = c
      BY <2>1
    <3> HIDE DEF d
    <3> QED BY <1>1, <2>1, <3>1
  <2>2. CASE ~(i < Len(c))
    <3>1. i = Len(c) /\ cursor # Null /\ d = Append(SubSeq(c, 1, i), cursor)
      BY <2>2
    <3>2. SubSeq(c, 1, i) = c
      <4> HIDE DEF c
      <4>1. SubSeq(c, 1, Len(c)) \in Seq(Nat \cup {Null}) /\ Len(SubSeq(c, 1, Len(c))) = Len(c)
            /\ \A j \in 1..Len(c) : SubSeq(c, 1, Len(c))[j] = c[j]
        BY <1>1
      <4>2. SubSeq(c, 1, Len(c)) = c
        BY <1>1, <4>1, SeqEqual
      <4> QED BY <3>1, <4>2
    <3>3. d = Append(c, cursor)
      BY <3>1, <3>2
    <3> HIDE DEF d
    <3>4. d \in Seq(Nat \cup {Null}) /\ Len(d) = Len(c) + 1 /\ d[Len(c) + 1] = cursor
          /\ \A j \in 1..Len(c) : d[j] = c[j]
      BY <1>1, <3>3
    <3>5. ASSUME NEW j \in 2..Len(d) PROVE d[j] # Null
      <4>1. CASE j = Len(c) + 1
        BY <3>1, <3>4, <4>1
      <4>2. CASE j # Len(c) + 1
        <5>1. j \in 2..Len(c) /\ j \in 1..Len(c)
          BY <1>1, <3>4, <4>2
        <5> QED BY <3>4, <5>1
      <4> QED BY <4>1, <4>2
    <3> QED BY <1>1, <3>1, <3>4, <3>5
  <2> QED BY <2>1, <2>2
<1> HIDE DEF d, c
<1>4. /\ e \in Seq(Nat \cup {Null}) /\ i < Len(e) /\ e[i + 1] = cursor
      /\ \A j \in 2..Len(e) : e[j] # Null
      /\ Len(e) > i + 1 => e[i + 2] = next
  <2>1. CASE Len(d) > i + 1 /\ d[i + 2] = next
    <3>1. e = d
      BY <2>1
    <3> HIDE DEF e
    <3> QED BY <1>3, <2>1, <3>1
  <2>2. CASE ~(Len(d) > i + 1 /\ d[i + 2] = next)
    <3>1. e = SubSeq(d, 1, i + 1)
      BY <2>2
    <3> HIDE DEF e
    <3>2. e \in Seq(Nat \cup {Null}) /\ Len(e) = i + 1 /\ \A j \in 1..(i + 1) : e[j] = d[j]
      BY <1>3, <3>1
    <3>3. i + 1 \in 1..(i + 1) /\ i < Len(e) /\ ~(Len(e) > i + 1)
      BY <3>2
    <3>4. \A j \in 2..Len(e) : j \in 2..Len(d) /\ e[j] = d[j]
      BY <1>3, <3>2
    <3> QED BY <1>3, <3>2, <3>3, <3>4
  <2> QED BY <2>1, <2>2
<1> HIDE DEF e, h
<1>5. /\ h \in Path /\ h.index = i /\ i < Len(h.cursors) /\ h.cursors[i + 1] = cursor
      /\ \A j \in 2..Len(h.cursors) : h.cursors[j] # Null
      /\ Len(h.cursors) > i + 1 => h.cursors[i + 2] = next
  BY <1>2, <1>4 DEF Path
<1> QED BY <1>5 DEF h

\* A cursor to follow is a place in the list, and is there.
LEMMA LeadsTo ==
  ASSUME OverviewTypes, PathFits, NEW i \in Nat, Leads(i)
  PROVE  /\ Overview!CursorTo(i) \in Nat \cup {Null}
         /\ IF i < Len(state.navigation.cursors) THEN state.navigation.cursors[i + 1] = Overview!CursorTo(i)
            ELSE i = Len(state.navigation.cursors) /\ Overview!CursorTo(i) # Null
<1> DEFINE n == state.navigation
           c == n.cursors
<1>1. /\ c \in Seq(Nat \cup {Null}) /\ Len(c) \in Nat /\ n.index \in Nat /\ n.index < Len(c)
      /\ state.data \in Answer /\ state.data.nextCursor \in Nat \cup {Null}
  BY DEF OverviewTypes, PathFits, Leads, State, Path, Answer
<1>2. CASE Overview!NextPage(i)
  <2>1. i = n.index + 1 /\ Overview!CursorTo(i) = state.data.nextCursor /\ state.data.nextCursor # Null
    BY <1>2 DEF Overview!NextPage, Overview!CursorTo, Leads
  <2>2. Len(c) > n.index + 1 => c[n.index + 2] = state.data.nextCursor
    BY DEF PathFits, Leads
  <2> HIDE DEF n, c
  <2> QED BY <1>1, <2>1, <2>2 DEF n, c
<1>3. CASE ~Overview!NextPage(i)
  <2>1. i < Len(c) /\ Overview!CursorTo(i) = c[i + 1]
    BY <1>3 DEF Overview!CursorTo, Leads
  <2> QED BY <1>1, <2>1
<1> QED BY <1>2, <1>3

-----------------------------------------------------------------------------
(* The overview: the steps                                                 *)

\* A new request is the one that counts: the others are aborted.
LEMMA Sent ==
  ASSUME requests \subseteq Request, NEW new \in Request, Overview!Send(new), RequestFits(new)'
  PROVE  requests' \subseteq Request /\ RequestsFit'
<1>1. PICK old \in SUBSET {[r EXCEPT !.aborted = TRUE] : r \in requests} : requests' = {new} \cup old
  BY DEF Overview!Send
<1>2. ASSUME NEW r \in requests' PROVE r \in Request /\ (r = new \/ r.aborted)
  <2>1. CASE r = new
    BY <2>1
  <2>2. CASE r # new
    <3>1. PICK o \in requests : r = [o EXCEPT !.aborted = TRUE]
      BY <1>1, <1>2, <2>2
    <3>2. o \in Request
      OBVIOUS
    <3> QED BY <3>1, <3>2 DEF Request
  <2> QED BY <2>1, <2>2
<1>3. OneCounts'
  BY <1>2 DEF OneCounts
<1>4. \A r \in requests' : ~r.aborted => RequestFits(r)'
  BY <1>2
<1>5. RequestsFit'
  BY <1>3, <1>4 DEF RequestsFit
<1> QED BY <1>2, <1>5

LEMMA FirstIs ==
  ASSUME NEW q \in Queries
  PROVE  /\ Overview!List(q, Null, Null) \in Request /\ ~Overview!List(q, Null, Null).aborted
         /\ Overview!List(q, Null, Null).query = q /\ Overview!List(q, Null, Null).index = Null
         /\ Overview!List(q, Null, Null).cursor = Null
BY DEF Overview!List, Request

LEMMA SentFirst ==
  ASSUME requests \subseteq Request, NEW q \in Queries, Overview!SendFirst(q), query' = q
  PROVE  requests' \subseteq Request /\ RequestsFit'
<1> PICK new : new = Overview!List(q, Null, Null)
  OBVIOUS
<1>1. new \in Request /\ new.query = q /\ new.index = Null /\ new.cursor = Null /\ Overview!Send(new)
  BY FirstIs DEF Overview!SendFirst
<1>2. RequestFits(new)'
  BY <1>1 DEF RequestFits
<1> QED BY <1>1, <1>2, Sent

LEMMA InitialIs ==
  /\ Overview!InitialState \in State /\ Overview!InitialState.key = Null /\ Overview!InitialState.data = Null
  /\ Overview!InitialState.error = FALSE /\ Overview!InitialState.navigation = Overview!INITIAL_NAVIGATION
  /\ Overview!INITIAL_NAVIGATION \in Path /\ Overview!INITIAL_NAVIGATION.index = 0
  /\ Overview!INITIAL_NAVIGATION.cursors = <<Null>>
<1>1. <<Null>> \in Seq(Nat \cup {Null})
  OBVIOUS
<1>2. /\ Overview!INITIAL_NAVIGATION \in Path /\ Overview!INITIAL_NAVIGATION.index = 0
      /\ Overview!INITIAL_NAVIGATION.cursors = <<Null>>
  BY <1>1 DEF Overview!INITIAL_NAVIGATION, Path
<1> QED BY <1>2 DEF Overview!InitialState, State

\* The path is the same while the page and what it shows are.
LEMMA PathStays ==
  ASSUME PathFits, state'.key = state.key, state'.data = state.data, state'.navigation = state.navigation
  PROVE  PathFits' /\ \A i : (Leads(i)' <=> Leads(i)) /\ Overview!CursorTo(i)' = Overview!CursorTo(i)
<1>1. PathFits'
  BY DEF PathFits, Overview!INITIAL_NAVIGATION
<1>2. ASSUME NEW i PROVE (Leads(i)' <=> Leads(i)) /\ Overview!CursorTo(i)' = Overview!CursorTo(i)
  BY DEF Leads, Overview!CursorTo, Overview!NextPage
<1> QED BY <1>1, <1>2

LEMMA RequestsStay ==
  ASSUME PathFits, RequestsFit, UNCHANGED <<query, state>>, requests' \subseteq requests
  PROVE  RequestsFit'
<1>1. ASSUME NEW r \in requests', ~r.aborted PROVE RequestFits(r)'
  <2>1. RequestFits(r)
    BY <1>1 DEF RequestsFit
  <2> QED BY <2>1, PathStays DEF RequestFits
<1>2. OneCounts'
  BY DEF RequestsFit, OneCounts
<1> QED BY <1>1, <1>2 DEF RequestsFit

LEMMA OverviewStarts == Overview!Init => OverviewInv
<1> SUFFICES ASSUME Overview!Init PROVE OverviewInv
  OBVIOUS
<1>1. FirstQuery \in Queries
  BY OverviewParameters DEF Overview!BatchHistoryAssumption
<1>2. OverviewTypes
  BY <1>1, InitialIs, FirstIs DEF Overview!Init, OverviewTypes
<1>3. PathFits /\ FailureFits
  <2>1. Len(<<Null>>) = 1
    OBVIOUS
  <2> QED BY <2>1, InitialIs DEF Overview!Init, PathFits, FailureFits
<1>4. RequestsFit
  BY <1>1, FirstIs DEF Overview!Init, RequestsFit, OneCounts, RequestFits
<1> QED BY <1>2, <1>3, <1>4 DEF OverviewInv

LEMMA UpdateStep == ASSUME OverviewInv, NEW q \in Queries, Overview!updateQuery(q) PROVE OverviewInv'
<1>1. /\ query' = q /\ Overview!SendFirst(q) /\ UNCHANGED <<pagination, state>>
      /\ pageState' = [key |-> query, page |-> 1] \/ pageState' = pageState
  BY DEF Overview!updateQuery, Overview!sourceVars
<1>2. requests' \subseteq Request /\ RequestsFit'
  BY <1>1, SentFirst DEF OverviewInv, OverviewTypes
<1>3. PathFits' /\ FailureFits'
  BY <1>1, PathStays DEF OverviewInv, FailureFits
<1>4. OverviewTypes'
  BY <1>1, <1>2 DEF OverviewInv, OverviewTypes
<1> QED BY <1>2, <1>3, <1>4 DEF OverviewInv

LEMMA RemountStep == ASSUME OverviewInv, Overview!Remount PROVE OverviewInv'
<1> PICK q : q = query
  OBVIOUS
<1>1. /\ query' = q /\ q \in Queries /\ Overview!SendFirst(q) /\ UNCHANGED pagination
      /\ state' = Overview!InitialState /\ pageState' = [key |-> q, page |-> 1]
  BY DEF Overview!Remount, Overview!sourceVars, OverviewInv, OverviewTypes
<1>2. requests' \subseteq Request /\ RequestsFit'
  BY <1>1, SentFirst DEF OverviewInv, OverviewTypes
<1>3. PathFits' /\ FailureFits'
  <2>1. Len(<<Null>>) = 1
    OBVIOUS
  <2> QED BY <1>1, <2>1, InitialIs DEF PathFits, FailureFits
<1>4. OverviewTypes'
  BY <1>1, <1>2, InitialIs DEF OverviewInv, OverviewTypes
<1> QED BY <1>2, <1>3, <1>4 DEF OverviewInv

LEMMA ReloadStep == ASSUME OverviewInv, Overview!reload PROVE OverviewInv'
<1> PICK q : q = query
  OBVIOUS
<1>1. /\ query' = q /\ q \in Queries /\ Overview!SendFirst(q) /\ UNCHANGED <<pagination, pageState>>
      /\ state' = [state EXCEPT !.loading = TRUE, !.error = FALSE]
  BY DEF Overview!reload, Overview!sourceVars, OverviewInv, OverviewTypes
<1>2. requests' \subseteq Request /\ RequestsFit'
  BY <1>1, SentFirst DEF OverviewInv, OverviewTypes
<1>3. state' = [key |-> state.key, data |-> state.data, error |-> FALSE, loading |-> TRUE,
                navigation |-> state.navigation, failedPage |-> state.failedPage]
  BY <1>1 DEF OverviewInv, OverviewTypes, State
<1>4. PathFits' /\ FailureFits'
  <2>1. state'.key = state.key /\ state'.data = state.data /\ state'.navigation = state.navigation /\ state'.error = FALSE
    BY <1>3
  <2> QED BY <2>1, PathStays DEF OverviewInv, FailureFits
<1>5. state' \in State
  BY <1>3 DEF OverviewInv, OverviewTypes, State
<1>6. OverviewTypes'
  BY <1>1, <1>2, <1>5 DEF OverviewInv, OverviewTypes
<1> QED BY <1>2, <1>4, <1>6 DEF OverviewInv

LEMMA GoStep == ASSUME OverviewInv, NEW i \in Int, Overview!goToCursor(i) PROVE OverviewInv'
<1> PICK new : new = Overview!List(query, i, Overview!CursorTo(i))
  OBVIOUS
<1>1. /\ Overview!CanGo(i) /\ Overview!Send(new) /\ UNCHANGED <<pagination, query, pageState>>
      /\ state' = [state EXCEPT !.loading = TRUE, !.error = FALSE, !.failedPage = Null]
  BY DEF Overview!goToCursor, Overview!sourceVars
<1>2. i \in Nat /\ Leads(i) /\ state.key = query
  BY <1>1 DEF Overview!CanGo, Leads
<1>3. state' = [key |-> state.key, data |-> state.data, error |-> FALSE, loading |-> TRUE,
                navigation |-> state.navigation, failedPage |-> Null]
  BY <1>1 DEF OverviewInv, OverviewTypes, State
<1>4. /\ state'.key = state.key /\ state'.data = state.data /\ state'.navigation = state.navigation
      /\ state'.error = FALSE /\ state'.loading = TRUE
  BY <1>3
<1>5. PathFits' /\ FailureFits' /\ Leads(i)' /\ Overview!CursorTo(i)' = Overview!CursorTo(i)
  BY <1>2, <1>4, PathStays DEF OverviewInv, FailureFits
<1>6. Overview!CursorTo(i) \in Nat \cup {Null}
  BY <1>2, LeadsTo DEF OverviewInv
<1>7. /\ new \in Request /\ new.query = query /\ new.index = i /\ new.cursor = Overview!CursorTo(i)
      /\ i # Null
  <2>1. query \in Queries
    BY DEF OverviewInv, OverviewTypes
  <2>2. new = [query |-> query, index |-> i, cursor |-> Overview!CursorTo(i), aborted |-> FALSE]
    BY DEF Overview!List
  <2>3. i # Null
    BY <1>2, OverviewParameters DEF Overview!BatchHistoryAssumption
  <2> QED BY <1>2, <1>6, <2>1, <2>2, <2>3 DEF Request
<1>8. RequestFits(new)'
  BY <1>1, <1>2, <1>4, <1>5, <1>7 DEF RequestFits
<1>9. requests' \subseteq Request /\ RequestsFit'
  BY <1>1, <1>7, <1>8, Sent DEF OverviewInv, OverviewTypes
<1>10. state' \in State
  BY <1>3 DEF OverviewInv, OverviewTypes, State
<1>11. OverviewTypes'
  BY <1>1, <1>9, <1>10 DEF OverviewInv, OverviewTypes
<1> QED BY <1>5, <1>9, <1>11 DEF OverviewInv

\* Once the request that counts has been answered none does.
LEMMA NoneCounts ==
  ASSUME OneCounts, NEW r \in requests, ~r.aborted, requests' = requests \ {r}
  PROVE  RequestsFit'
<1>1. \A o \in requests' : o.aborted
  BY DEF OneCounts
<1> QED BY <1>1 DEF RequestsFit, OneCounts

\* The answer to the first page begins a path; any other one extends or cuts the path that is there.
LEMMA ArrivalStep == ASSUME OverviewInv, NEW r \in requests, Overview!Arrives(r) PROVE OverviewInv'
<1>1. requests' = requests \ {r} /\ UNCHANGED <<pagination, query, pageState>>
  BY DEF Overview!Arrives, Overview!sourceVars
<1>2. requests' \subseteq Request /\ r \in Request
  BY <1>1 DEF OverviewInv, OverviewTypes
<1>3. CASE r.aborted
  <2>1. UNCHANGED state
    BY <1>3 DEF Overview!Arrives
  <2>2. RequestsFit'
    BY <1>1, <2>1, RequestsStay DEF OverviewInv
  <2>3. PathFits' /\ FailureFits'
    BY <2>1, PathStays DEF OverviewInv, FailureFits
  <2>4. OverviewTypes'
    BY <1>1, <1>2, <2>1 DEF OverviewInv, OverviewTypes
  <2> QED BY <2>2, <2>3, <2>4 DEF OverviewInv
<1>4. CASE ~r.aborted
  <2>1. RequestFits(r) /\ RequestsFit'
    BY <1>1, <1>4, NoneCounts DEF OverviewInv, RequestsFit
  <2> PICK answer : answer = Overview!readFixturePage(r.query, r.cursor)
    OBVIOUS
  <2>2. answer \in Answer /\ answer # Null /\ answer.query = r.query /\ answer.cursor = r.cursor
    <3>1. r.query \in Queries /\ r.cursor \in Nat \cup {Null}
      BY <1>2 DEF Request
    <3> QED BY <3>1, AnswerIs
  <2>3. CASE r.index = Null
    <3>1. state' = [Overview!InitialState EXCEPT !.key = r.query, !.data = answer, !.loading = FALSE]
      BY <1>4, <2>3 DEF Overview!Arrives
    <3>2. state' = [key |-> r.query, data |-> answer, error |-> FALSE, loading |-> FALSE,
                    navigation |-> Overview!INITIAL_NAVIGATION, failedPage |-> Null]
      BY <3>1 DEF Overview!InitialState
    <3>3. state' \in State
      <4>1. r.query \in Queries
        BY <1>2 DEF Request
      <4> QED BY <2>2, <3>2, <4>1, InitialIs DEF State
    <3>4. r.cursor = Null
      BY <2>1, <2>3 DEF RequestFits
    <3>5. PathFits' /\ FailureFits'
      <4>1. Len(<<Null>>) = 1 /\ <<Null>>[1] = Null
        OBVIOUS
      <4> QED BY <2>2, <3>2, <3>4, <4>1, InitialIs DEF PathFits, FailureFits
    <3>6. OverviewTypes'
      BY <1>1, <1>2, <3>3 DEF OverviewInv, OverviewTypes
    <3> QED BY <2>1, <3>5, <3>6 DEF OverviewInv
  <2>4. CASE r.index # Null
    <3> PICK h : h = Overview!commitBatchCursor(state.navigation, r.index, r.cursor, answer.nextCursor)
      OBVIOUS
    <3>1. state' = [state EXCEPT !.data = answer, !.loading = FALSE, !.navigation = h]
      BY <1>4, <2>4 DEF Overview!Arrives
    <3>2. state' = [key |-> state.key, data |-> answer, error |-> state.error, loading |-> FALSE,
                    navigation |-> h, failedPage |-> state.failedPage]
      BY <3>1 DEF OverviewInv, OverviewTypes, State
    <3>3. /\ r.index \in Nat /\ Leads(r.index) /\ r.cursor = Overview!CursorTo(r.index)
          /\ r.query = state.key /\ state.loading
      BY <1>2, <2>1, <2>4 DEF RequestFits, Request
    <3>4. /\ h \in Path /\ h.index = r.index /\ r.index < Len(h.cursors) /\ h.cursors[r.index + 1] = r.cursor
          /\ \A j \in 2..Len(h.cursors) : h.cursors[j] # Null
          /\ Len(h.cursors) > r.index + 1 => h.cursors[r.index + 2] = answer.nextCursor
      <4>1. /\ r.cursor \in Nat \cup {Null}
            /\ IF r.index < Len(state.navigation.cursors) THEN state.navigation.cursors[r.index + 1] = r.cursor
               ELSE r.index = Len(state.navigation.cursors) /\ r.cursor # Null
        BY <3>3, LeadsTo DEF OverviewInv
      <4>2. /\ state.navigation \in Path /\ state.navigation.index < Len(state.navigation.cursors)
            /\ \A j \in 2..Len(state.navigation.cursors) : state.navigation.cursors[j] # Null
        BY DEF OverviewInv, OverviewTypes, PathFits, State
      <4>3. answer.nextCursor \in Nat \cup {Null}
        BY <2>2 DEF Answer
      <4> PICK path : path = state.navigation
        OBVIOUS
      <4> PICK i, cursor, next : i = r.index /\ cursor = r.cursor /\ next = answer.nextCursor
        OBVIOUS
      <4>4. h = Overview!commitBatchCursor(path, i, cursor, next)
        OBVIOUS
      <4>5. /\ path \in Path /\ path.index < Len(path.cursors) /\ \A j \in 2..Len(path.cursors) : path.cursors[j] # Null
            /\ i \in Nat /\ cursor \in Nat \cup {Null} /\ next \in Nat \cup {Null}
            /\ IF i < Len(path.cursors) THEN path.cursors[i + 1] = cursor ELSE i = Len(path.cursors) /\ cursor # Null
        BY <3>3, <4>1, <4>2, <4>3
      <4>6. /\ h \in Path /\ h.index = i /\ i < Len(h.cursors) /\ h.cursors[i + 1] = cursor
            /\ \A j \in 2..Len(h.cursors) : h.cursors[j] # Null
            /\ Len(h.cursors) > i + 1 => h.cursors[i + 2] = next
        BY ONLY <4>4, <4>5, PathCommitted
      <4> QED BY <4>6
    <3>5. state' \in State
      BY <2>2, <3>2, <3>4 DEF OverviewInv, OverviewTypes, State
    <3>6. ~state.error
      BY <3>3 DEF OverviewInv, FailureFits
    <3>7. PathFits' /\ FailureFits'
      BY <2>2, <3>2, <3>3, <3>4, <3>6 DEF PathFits, FailureFits
    <3>8. OverviewTypes'
      BY <1>1, <1>2, <3>5 DEF OverviewInv, OverviewTypes
    <3> QED BY <2>1, <3>7, <3>8 DEF OverviewInv
  <2> QED BY <2>3, <2>4
<1> QED BY <1>3, <1>4

LEMMA FailureStep == ASSUME OverviewInv, NEW r \in requests, Overview!Fails(r) PROVE OverviewInv'
<1>1. requests' = requests \ {r} /\ UNCHANGED <<pagination, query, pageState>>
  BY DEF Overview!Fails, Overview!sourceVars
<1>2. requests' \subseteq Request /\ r \in Request
  BY <1>1 DEF OverviewInv, OverviewTypes
<1>3. CASE r.aborted
  <2>1. UNCHANGED state
    BY <1>3 DEF Overview!Fails
  <2>2. RequestsFit'
    BY <1>1, <2>1, RequestsStay DEF OverviewInv
  <2>3. PathFits' /\ FailureFits'
    BY <2>1, PathStays DEF OverviewInv, FailureFits
  <2>4. OverviewTypes'
    BY <1>1, <1>2, <2>1 DEF OverviewInv, OverviewTypes
  <2> QED BY <2>2, <2>3, <2>4 DEF OverviewInv
<1>4. CASE ~r.aborted
  <2>1. RequestFits(r) /\ RequestsFit'
    BY <1>1, <1>4, NoneCounts DEF OverviewInv, RequestsFit
  <2>2. CASE r.index = Null
    <3>1. state' = [Overview!InitialState EXCEPT !.key = r.query, !.error = TRUE, !.loading = FALSE]
      BY <1>4, <2>2 DEF Overview!Fails
    <3>2. state' = [key |-> r.query, data |-> Null, error |-> TRUE, loading |-> FALSE,
                    navigation |-> Overview!INITIAL_NAVIGATION, failedPage |-> Null]
      BY <3>1 DEF Overview!InitialState
    <3>3. state' \in State
      <4>1. r.query \in Queries
        BY <1>2 DEF Request
      <4> QED BY <3>2, <4>1, InitialIs DEF State
    <3>4. /\ state'.data = Null /\ state'.navigation = Overview!INITIAL_NAVIGATION /\ state'.failedPage = Null
          /\ ~state'.loading /\ Overview!INITIAL_NAVIGATION' = Overview!INITIAL_NAVIGATION
      BY <3>2 DEF Overview!INITIAL_NAVIGATION
    <3>5. PathFits' /\ FailureFits'
      <4>1. Len(<<Null>>) = 1
        OBVIOUS
      <4>2. Len(state.navigation'.cursors) = 1 /\ state.navigation'.index = 0
        BY <3>4, <4>1, InitialIs
      <4>3. PathFits'
        BY <3>4, <4>2 DEF PathFits
      <4> QED BY <3>4, <4>3 DEF FailureFits
    <3>6. OverviewTypes'
      BY <1>1, <1>2, <3>3 DEF OverviewInv, OverviewTypes
    <3> QED BY <2>1, <3>5, <3>6 DEF OverviewInv
  <2>3. CASE r.index # Null
    <3>1. state' = [state EXCEPT !.error = TRUE, !.loading = FALSE, !.failedPage = r.index]
      BY <1>4, <2>3 DEF Overview!Fails
    <3>2. state' = [key |-> state.key, data |-> state.data, error |-> TRUE, loading |-> FALSE,
                    navigation |-> state.navigation, failedPage |-> r.index]
      BY <3>1 DEF OverviewInv, OverviewTypes, State
    <3>3. Leads(r.index) /\ r.index \in Nat
      BY <1>2, <2>1, <2>3 DEF RequestFits, Request
    <3>4. state' \in State
      BY <3>2, <3>3 DEF OverviewInv, OverviewTypes, State
    <3>5. /\ state'.key = state.key /\ state'.data = state.data /\ state'.navigation = state.navigation
          /\ state'.error = TRUE /\ state'.loading = FALSE /\ state'.failedPage = r.index
      BY <3>2
    <3>6. PathFits' /\ Leads(r.index)'
      BY <3>3, <3>5, PathStays DEF OverviewInv
    <3>7. FailureFits'
      BY <3>5, <3>6 DEF FailureFits
    <3>8. OverviewTypes'
      BY <1>1, <1>2, <3>4 DEF OverviewInv, OverviewTypes
    <3> QED BY <2>1, <3>6, <3>7, <3>8 DEF OverviewInv
  <2> QED BY <2>2, <2>3
<1> QED BY <1>3, <1>4

\* The pages of a list that is complete.
LEMMA LocalPages ==
  ASSUME OverviewInv
  PROVE  /\ Overview!local.totalPages \in Nat /\ Overview!local.page \in 0..Overview!local.totalPages
         /\ Overview!local.totalPages > 0 => Overview!local.page > 0
         /\ Overview!local.slots = pageSlots(Overview!local.totalPages, Overview!local.page)
         /\ Overview!data # Null => /\ Overview!data \in Answer /\ Len(Overview!data.items) \in Nat
                                    /\ Len(Overview!data.items) > 0 =>
                                         /\ Overview!local.start \in Nat /\ Overview!local.start < Overview!local.end
                                         /\ Overview!local.end \in Nat /\ Overview!local.end <= Len(Overview!data.items)
<1> DEFINE n == IF Overview!data = Null THEN 0 ELSE Len(Overview!data.items)
           p == getPaymentPagination(n, BATCH_HISTORY_PAGE_SIZE, Overview!page)
<1>1. Overview!data # Null => Overview!data \in Answer /\ Len(Overview!data.items) \in Nat
  BY DEF OverviewInv, OverviewTypes, Overview!data, State, Answer
<1>2. n \in Nat /\ BATCH_HISTORY_PAGE_SIZE \in Nat \ {0} /\ Overview!page \in Nat \ {0}
  <2>1. pageState \in [key : Queries, page : Nat \ {0}]
    BY DEF OverviewInv, OverviewTypes
  <2>2. Overview!page \in Nat \ {0}
    BY <2>1 DEF Overview!page
  <2> QED BY <1>1, <2>2, OverviewParameters DEF Overview!BatchHistoryAssumption
<1>3. /\ Overview!local.totalPages = p.totalPages /\ Overview!local.page = p.currentPage
      /\ Overview!local.start = p.startIndex /\ Overview!local.end = p.endIndex
      /\ Overview!local.slots = pageSlots(p.totalPages, p.currentPage)
  BY OverviewPages, OverviewSlots DEF Overview!local, Overview!getBatchPagination, Overview!getBatchPageSlots
<1> HIDE DEF n
<1>4. /\ p.totalPages \in Nat
      /\ n = 0 => p.totalPages = 0 /\ p.currentPage = 0
      /\ n > 0 => /\ p.currentPage \in 1..p.totalPages /\ p.startIndex \in Nat
                  /\ p.endIndex = Smaller(p.startIndex + BATCH_HISTORY_PAGE_SIZE, n)
                  /\ p.startIndex < p.endIndex /\ p.endIndex <= n
  BY <1>2, PageOf
<1> HIDE DEF p
<1>5. p.currentPage \in 0..p.totalPages /\ (p.totalPages > 0 => p.currentPage > 0)
  <2>1. CASE n = 0
    BY <1>4, <2>1
  <2>2. CASE n > 0
    BY <1>4, <2>2
  <2> QED BY <1>2, <2>1, <2>2
<1>6. n > 0 => p.endIndex \in Nat
  BY <1>2, <1>4 DEF Smaller
<1>7. Overview!data # Null => n = Len(Overview!data.items)
  BY DEF n
<1> QED BY <1>1, <1>3, <1>4, <1>5, <1>6, <1>7

-----------------------------------------------------------------------------
(* The overview: its buttons                                               *)

LEMMA OverviewSlotSets == Overview!Ellipsis = Ellipsis /\ \A s : Overview!ToSet(s) = ToSet(s)
BY DEF Overview!Ellipsis, Ellipsis, Overview!ToSet, ToSet

\* A button of the path leads to a page before the end of the path or to the one after it.
LEMMA OfferedOfPath ==
  ASSUME OverviewInv, pagination = "cursor", NEW n \in Overview!Offered
  PROVE  n \in Int /\ Overview!CanGo(n - 1)
<1> DEFINE c == state.navigation.cursors
           m == Len(c)
           k == state.navigation.index + 1
<1>1. state.key = query /\ ~state.loading /\ ~Overview!loading
  BY DEF Overview!Offered, Overview!loading
<1>2. /\ Overview!data = state.data /\ Overview!navigation = state.navigation
      /\ Overview!currentPage = k /\ Overview!slots = pageSlots(m, k)
  BY <1>1, OverviewSlots DEF Overview!data, Overview!navigation, Overview!currentPage, Overview!slots,
     Overview!getBatchPageSlots
<1>3. m \in Nat /\ k \in 1..m /\ k - 1 = state.navigation.index
  BY DEF OverviewInv, OverviewTypes, PathFits, State, Path
<1>4. /\ \A i \in 2..m : c[i] # Null
      /\ state.data # Null /\ m > k => c[k + 1] = state.data.nextCursor
  BY <1>3 DEF OverviewInv, PathFits
<1>5. state.data = Null => m = 1
  <2>1. ASSUME state.data = Null PROVE c = <<Null>>
    BY <2>1, InitialIs DEF OverviewInv, PathFits
  <2>2. Len(<<Null>>) = 1
    OBVIOUS
  <2> HIDE DEF c
  <2> QED BY <2>1, <2>2
<1> HIDE DEF c, m, k
<1>6. ToSet(pageSlots(m, k)) \ {Ellipsis} \subseteq 1..m
  <2>1. m \in Nat /\ k \in 0..m /\ (m > 0 => k > 0)
    BY <1>3
  <2> QED BY <2>1, SlotsArePages
<1>7. \/ n \in ToSet(pageSlots(m, k)) /\ n # Ellipsis /\ n # k
      \/ state.data # Null /\ k > 1 /\ n = k - 1
      \/ ~Overview!nextDisabled /\ n = k + 1
  BY <1>1, <1>2, OverviewSlotSets DEF Overview!Offered
<1>8. ~Overview!nextDisabled => state.data # Null /\ state.data.nextCursor # Null
  BY <1>2 DEF Overview!nextDisabled
<1>9. /\ state.data # Null /\ n \in Int /\ n - 1 >= 0 /\ n # k
      /\ n = k + 1 => state.data.nextCursor # Null
      /\ n # k + 1 => n - 1 < m
  <2>1. CASE n \in 1..m /\ n # k
    <3>1. state.data # Null
      BY <1>3, <1>5, <2>1
    <3>2. ASSUME n = k + 1 PROVE state.data.nextCursor # Null
      <4>1. k + 1 \in 2..m /\ m > k
        BY <1>3, <2>1, <3>2
      <4> QED BY <1>4, <3>1, <4>1
    <3> QED BY <1>3, <2>1, <3>1, <3>2
  <2>2. CASE state.data # Null /\ k > 1 /\ n = k - 1
    BY <1>3, <2>2
  <2>3. CASE ~Overview!nextDisabled /\ n = k + 1
    BY <1>3, <1>8, <2>3
  <2>4. n \in ToSet(pageSlots(m, k)) /\ n # Ellipsis /\ n # k => n \in 1..m /\ n # k
    BY <1>6
  <2> QED BY <1>7, <2>1, <2>2, <2>3, <2>4
<1>10. n - 1 # state.navigation.index /\ (Overview!NextPage(n - 1) <=> n = k + 1)
  BY <1>3, <1>9 DEF Overview!NextPage
<1>11. m = Len(state.navigation.cursors)
  BY DEF m, c
<1> QED BY <1>1, <1>9, <1>10, <1>11 DEF Overview!CanGo

\* A button of a list that is complete leads to one of its pages.
LEMMA OfferedOfList ==
  ASSUME OverviewInv, pagination = "client", NEW n \in Overview!Offered
  PROVE  n \in 1..Overview!local.totalPages
<1> DEFINE m == Overview!local.totalPages
           k == Overview!local.page
<1>1. m \in Nat /\ k \in 0..m /\ (m > 0 => k > 0) /\ Overview!slots = pageSlots(m, k)
  BY LocalPages DEF Overview!slots
<1>2. \/ n \in ToSet(pageSlots(m, k)) \ {Ellipsis}
      \/ k > 1 /\ n = k - 1
      \/ ~(k >= m) /\ n = k + 1
  BY <1>1, OverviewSlotSets DEF Overview!Offered, Overview!currentPage, Overview!nextDisabled
<1> HIDE DEF m, k
<1>3. ToSet(pageSlots(m, k)) \ {Ellipsis} \subseteq 1..m
  BY <1>1, SlotsArePages
<1>4. n \in 1..m
  <2>1. CASE n \in ToSet(pageSlots(m, k)) \ {Ellipsis}
    BY <1>3, <2>1
  <2>2. CASE k > 1 /\ n = k - 1
    BY <1>1, <2>2
  <2>3. CASE ~(k >= m) /\ n = k + 1
    BY <1>1, <2>3
  <2> QED BY <1>2, <2>1, <2>2, <2>3
<1> QED BY <1>4 DEF m

\* A page of a list that is complete is empty only if the list is.
LEMMA PagesFilled ==
  ASSUME OverviewInv, pagination = "client", Overview!data # Null, Overview!items = << >>
  PROVE  Overview!data.items = << >>
<1> DEFINE list == Overview!data.items
           a == Overview!local.start
           b == Overview!local.end
<1>1. list \in Seq(ListedFiles) /\ Len(list) \in Nat
  BY LocalPages DEF Answer
<1>2. Len(list) > 0 => a \in Nat /\ b \in Nat /\ a < b /\ b <= Len(list)
  BY LocalPages
<1>3. SubSeq(list, a + 1, b) = << >>
  BY DEF Overview!items
<1> HIDE DEF list, a, b
<1>4. ~(Len(list) > 0)
  <2> SUFFICES ASSUME Len(list) > 0 PROVE FALSE
    OBVIOUS
  <2>1. Len(SubSeq(list, a + 1, b)) = b - a
    BY <1>1, <1>2
  <2>2. Len(<< >>) = 0
    OBVIOUS
  <2> QED BY <1>2, <1>3, <2>1, <2>2
<1>5. list = << >>
  BY <1>1, <1>4
<1> QED BY <1>5 DEF list

\* A button or the retry of a page goes to it, or turns the page of a list that is complete.
LEMMA TurnStep ==
  ASSUME OverviewInv,
         NEW n \in Overview!Offered \cup {IF state.failedPage = Null THEN 0 ELSE state.failedPage + 1},
         Overview!turnPage(n)
  PROVE  OverviewInv'
<1>1. CASE pagination = "cursor"
  <2>1. Overview!goToCursor(n - 1)
    BY <1>1 DEF Overview!turnPage
  <2>2. n \in Int
    <3>1. CASE n \in Overview!Offered
      BY <1>1, <3>1, OfferedOfPath
    <3>2. CASE n \notin Overview!Offered
      <4>1. state.failedPage \in Nat \cup {Null}
        BY DEF OverviewInv, OverviewTypes, State
      <4> QED BY <3>2, <4>1
    <3> QED BY <3>1, <3>2
  <2>3. n - 1 \in Int
    BY <2>2
  <2> QED BY <2>1, <2>3, GoStep
<1>2. CASE pagination # "cursor"
  <2>1. /\ n \in Overview!Offered /\ pageState' = [key |-> query, page |-> n]
        /\ UNCHANGED <<pagination, requests, query, state>>
    BY <1>2 DEF Overview!turnPage, Overview!sourceVars
  <2>2. pagination = "client"
    BY <1>2 DEF OverviewInv, OverviewTypes
  <2>3. n \in Nat \ {0}
    <3>1. n \in 1..Overview!local.totalPages /\ Overview!local.totalPages \in Nat
      BY <2>1, <2>2, OfferedOfList, LocalPages
    <3> QED BY <3>1
  <2>4. PathFits' /\ FailureFits' /\ RequestsFit'
    BY <2>1, PathStays, RequestsStay DEF OverviewInv, FailureFits
  <2>5. OverviewTypes'
    BY <2>1, <2>3 DEF OverviewInv, OverviewTypes
  <2> QED BY <2>4, <2>5 DEF OverviewInv
<1> QED BY <1>1, <1>2

\* Nothing the page keeps changes when a file is done.
LEMMA RestStep ==
  ASSUME OverviewInv, UNCHANGED <<pagination, requests, query, state, pageState>>
  PROVE  OverviewInv'
<1>1. PathFits' /\ FailureFits' /\ RequestsFit'
  BY PathStays, RequestsStay DEF OverviewInv, FailureFits
<1>2. OverviewTypes'
  BY DEF OverviewInv, OverviewTypes
<1> QED BY <1>1, <1>2 DEF OverviewInv

LEMMA OverviewNext == OverviewInv /\ [Overview!Next]_(Overview!vars) => OverviewInv'
<1> SUFFICES ASSUME OverviewInv, [Overview!Next]_(Overview!vars) PROVE OverviewInv'
  OBVIOUS
<1>1. CASE \E q \in Queries : Overview!updateQuery(q)
  BY <1>1, UpdateStep
<1>2. CASE Overview!Remount
  BY <1>2, RemountStep
<1>3. CASE Overview!reload
  BY <1>3, ReloadStep
<1>4. CASE Overview!Answers
  BY <1>4, ArrivalStep, FailureStep DEF Overview!Answers
<1>5. CASE Overview!FileCompletes
  BY <1>5, RestStep DEF Overview!FileCompletes
<1>6. CASE \E n \in Overview!Offered \cup {IF state.failedPage = Null THEN 0 ELSE state.failedPage + 1} :
             Overview!turnPage(n)
  BY <1>6, TurnStep
<1>7. CASE UNCHANGED Overview!vars
  BY <1>7, RestStep DEF Overview!vars, Overview!sourceVars
<1> QED BY <1>1, <1>2, <1>3, <1>4, <1>5, <1>6, <1>7 DEF Overview!Next


LEMMA OverviewAlways == Spec => []OverviewInv
<1>1. Init => OverviewInv
  BY OverviewStarts DEF Init
<1>2. [Next]_vars => [Overview!Next]_(Overview!vars)
  BY DEF Next, InCsv, InUpload, InOverview, vars, overviewVars, Overview!vars, Overview!sourceVars, Overview!countVars
<1>3. OverviewInv /\ [Next]_vars => OverviewInv'
  BY <1>2, OverviewNext
<1> QED BY <1>1, <1>3, PTL DEF Spec

-----------------------------------------------------------------------------
(* The overview: what the page shows                                       *)

LEMMA OverviewKeepsTypes == OverviewInv => Overview!BatchHistoryTypeOK
<1> SUFFICES ASSUME OverviewInv PROVE Overview!BatchHistoryTypeOK
  OBVIOUS
<1> DEFINE counting == {r \in requests : ~r.aborted}
<1>1. \A a, b \in counting : a = b
  BY DEF OverviewInv, RequestsFit, OneCounts
<1>2. Cardinality(counting) <= 1
  <2> HIDE DEF counting
  <2>1. CASE counting = {}
    BY <2>1, FS_EmptySet
  <2>2. CASE counting # {}
    <3> PICK r \in counting : TRUE
      BY <2>2
    <3>1. counting = {r}
      BY <1>1
    <3> QED BY <3>1, FS_Singleton
  <2> QED BY <2>1, <2>2
<1>3. Overview!Cardinality({r \in requests : ~r.aborted}) <= 1
  BY <1>2, OverviewCounts
<1>4. /\ query \in Queries /\ state.key \in Queries \cup {Null} /\ state.loading \in BOOLEAN /\ state.error \in BOOLEAN
      /\ pageState.page \in Nat \ {0}
  BY DEF OverviewInv, OverviewTypes, State
<1>5. state.navigation.index \in 0..(Len(state.navigation.cursors) - 1)
  BY DEF OverviewInv, OverviewTypes, PathFits, State, Path
<1> QED BY <1>3, <1>4, <1>5 DEF Overview!BatchHistoryTypeOK

\* The list, its page number and its buttons are those of the query that is set, for any files,
\* queries and size of a page, through any query changes, page turns, answers and failures that abort
\* each other (useBatchHistory).
THEOREM BatchListIsConsistent == Spec => []BatchListConsistent
<1>1. OverviewInv => Overview!RowsOfTheQuery
  BY DEF OverviewInv, PathFits, Overview!RowsOfTheQuery, Overview!data, Overview!navigation
<1>2. OverviewInv => Overview!EveryButtonLeads
  <2> SUFFICES ASSUME OverviewInv PROVE Overview!EveryButtonLeads
    OBVIOUS
  <2>1. Overview!data # Null /\ Len(Overview!navigation.cursors) > Overview!navigation.index + 1 =>
          Overview!navigation.cursors[Overview!navigation.index + 2] = Overview!data.nextCursor
    BY DEF OverviewInv, PathFits, Overview!data, Overview!navigation
  <2>2. pagination \in {"client", "cursor"}
    BY DEF OverviewInv, OverviewTypes
  <2>3. \A n \in Overview!Offered :
          IF pagination = "cursor" THEN Overview!CanGo(n - 1) ELSE n \in 1..Overview!local.totalPages
    BY <2>2, OfferedOfPath, OfferedOfList
  <2>4. Overview!data # Null /\ pagination = "client" /\ Overview!items = << >> => Overview!data.items = << >>
    BY PagesFilled
  <2> QED BY <2>1, <2>3, <2>4 DEF Overview!EveryButtonLeads
<1>3. OverviewInv => Overview!FailedPageRetried
  <2> SUFFICES ASSUME OverviewInv, state.failedPage # Null, Overview!error
               PROVE  Overview!data # Null /\ Overview!CanGo(state.failedPage)
    BY DEF Overview!FailedPageRetried
  <2>1. state.key = query /\ ~state.loading /\ Leads(state.failedPage)
    BY DEF Overview!error, OverviewInv, FailureFits
  <2>2. state.failedPage \in Nat
    BY DEF OverviewInv, OverviewTypes, State
  <2> QED BY <2>1, <2>2 DEF Overview!data, Overview!CanGo, Leads
<1>4. OverviewInv => BatchListConsistent
  BY <1>1, <1>2, <1>3, OverviewKeepsTypes DEF BatchListConsistent, Overview!BatchListConsistent
<1> QED BY <1>4, OverviewAlways, PTL

-----------------------------------------------------------------------------
(* The parser: what a text says, as BatchCsv says it of its content        *)

QuotesIn(c) == {i \in DOMAIN c : c[i] = "quote"}
Out(c, i)   == Cardinality(Earlier(QuotesIn(c), i)) % 2 = 0
EndsIn(c)   == {i \in DOMAIN c : c[i] = "LF" \/ (c[i] = "CR" /\ (i = Len(c) \/ c[i + 1] # "LF"))}
RecEnds(c)  == {i \in EndsIn(c) : Out(c, i)}
CommasIn(c) == {i \in DOMAIN c : c[i] = "comma" /\ Out(c, i)}
Rec(c, i)   == 1 + Cardinality(Earlier(RecEnds(c), i))
RecCommas(c, k) == {i \in CommasIn(c) : Rec(c, i) = k}
Fld(c, i)    == 1 + Cardinality(Earlier(RecCommas(c, Rec(c, i)), i))
Txt(c, k, f) == {i \in DOMAIN c : /\ Rec(c, i) = k /\ Fld(c, i) = f
                                  /\ Out(c, i) => c[i] \notin {"comma", "LF", "CR"}}
LinesTo(c, k) == {i \in EndsIn(c) : Rec(c, i) < k}

\* What is read of the field that a place is in.
Read(c, i) == Earlier(Txt(c, Rec(c, i), Fld(c, i)), i)

LEMMA PlacesIn ==
  ASSUME NEW c \in Seq(Csv!Chars)
  PROVE  /\ Len(c) \in Nat /\ DOMAIN c = 1..Len(c)
         /\ QuotesIn(c) \in SUBSET (1..Len(c)) /\ EndsIn(c) \in SUBSET (1..Len(c))
         /\ RecEnds(c) \in SUBSET (1..Len(c)) /\ CommasIn(c) \in SUBSET (1..Len(c))
         /\ \A k : RecCommas(c, k) \in SUBSET (1..Len(c))
         /\ \A k, f : Txt(c, k, f) \in SUBSET (1..Len(c))
         /\ \A i : Read(c, i) \in SUBSET (1..Len(c))
BY DEF QuotesIn, EndsIn, RecEnds, CommasIn, RecCommas, Txt, Read, Earlier

\* A quote ends what is outside, or begins it again.
LEMMA OutStep ==
  ASSUME NEW c \in Seq(Csv!Chars), NEW i \in DOMAIN c
  PROVE  /\ Out(c, 1)
         /\ Out(c, i + 1) <=> IF c[i] = "quote" THEN ~Out(c, i) ELSE Out(c, i)
<1> DEFINE S == QuotesIn(c)
           n == Len(c)
<1>1. S \in SUBSET (1..n) /\ n \in Nat /\ i \in Nat
  BY PlacesIn
<1> DEFINE x == Cardinality(Earlier(S, i))
           y == Cardinality(Earlier(S, i + 1))
<1>2. x \in Nat /\ y = x + (IF i \in S THEN 1 ELSE 0)
  <2> HIDE DEF S, n
  <2>1. x \in 0..Cardinality(S) /\ Cardinality(S) \in Nat
    BY <1>1, CountStep
  <2>2. y = x + (IF i \in S THEN 1 ELSE 0)
    BY <1>1, CountStep
  <2> HIDE DEF x, y
  <2> QED BY <2>1, <2>2
<1>3. Cardinality(Earlier(S, 1)) = 0
  <2> HIDE DEF S, n
  <2>1. 1 \in Nat /\ 1 <= 1
    OBVIOUS
  <2> QED BY <1>1, <2>1, CountStep
<1>4. i \in QuotesIn(c) <=> c[i] = "quote"
  BY DEF QuotesIn
<1> HIDE DEF x, y
<1>5. y % 2 = 0 <=> IF c[i] = "quote" THEN ~(x % 2 = 0) ELSE x % 2 = 0
  BY <1>2, <1>4
<1> QED BY <1>3, <1>5 DEF Out, x, y

\* The records of a text follow each other.
LEMMA RecordStep ==
  ASSUME NEW c \in Seq(Csv!Chars), NEW i \in Nat
  PROVE  /\ Rec(c, i) \in 1..(1 + Cardinality(RecEnds(c))) /\ Cardinality(RecEnds(c)) \in Nat
         /\ Rec(c, i + 1) = Rec(c, i) + (IF i \in RecEnds(c) THEN 1 ELSE 0)
         /\ i <= 1 => Rec(c, i) = 1
         /\ i > Len(c) => Rec(c, i) = 1 + Cardinality(RecEnds(c))
<1>1. RecEnds(c) \in SUBSET (1..Len(c)) /\ Len(c) \in Nat
  BY PlacesIn
<1> DEFINE x == Cardinality(Earlier(RecEnds(c), i))
           y == Cardinality(Earlier(RecEnds(c), i + 1))
           z == Cardinality(RecEnds(c))
<1>2. /\ z \in Nat /\ x \in 0..z /\ y = x + (IF i \in RecEnds(c) THEN 1 ELSE 0)
      /\ i <= 1 => x = 0
      /\ i > Len(c) => x = z
  <2> DEFINE S == RecEnds(c)
             n == Len(c)
  <2>1. S \in SUBSET (1..n) /\ n \in Nat /\ i \in Nat
    BY <1>1
  <2> HIDE DEF S, n
  <2>2. Cardinality(S) \in Nat /\ Cardinality(Earlier(S, i)) \in 0..Cardinality(S)
    BY ONLY <2>1, CountStep
  <2>3. Cardinality(Earlier(S, i + 1)) = Cardinality(Earlier(S, i)) + (IF i \in S THEN 1 ELSE 0)
    BY ONLY <2>1, CountStep
  <2>4. i <= 1 => Cardinality(Earlier(S, i)) = 0
    BY ONLY <2>1, CountStep
  <2>5. i > n => Cardinality(Earlier(S, i)) = Cardinality(S)
    BY ONLY <2>1, CountStep
  <2> QED BY <2>2, <2>3, <2>4, <2>5 DEF S, n
<1>3. Rec(c, i) = 1 + x /\ Rec(c, i + 1) = 1 + y
  BY DEF Rec
<1> HIDE DEF x, y
<1>4. z = Cardinality(RecEnds(c))
  OBVIOUS
<1> HIDE DEF z
<1> QED BY <1>2, <1>3, <1>4

LEMMA RecordsGrow ==
  ASSUME NEW c \in Seq(Csv!Chars), NEW i \in Nat, NEW m \in Nat, i <= m
  PROVE  /\ Rec(c, i) <= Rec(c, m)
         /\ i < m /\ i \in RecEnds(c) => Rec(c, i) < Rec(c, m)
<1>1. RecEnds(c) \in SUBSET (1..Len(c)) /\ Len(c) \in Nat
  BY PlacesIn
<1>0. ASSUME NEW a \in Nat PROVE Rec(c, a) \in Nat
  <2>1. Rec(c, a) \in 1..(1 + Cardinality(RecEnds(c))) /\ Cardinality(RecEnds(c)) \in Nat
    BY RecordStep
  <2> QED BY <2>1
<1>2. \A a, b \in Nat : a <= b => Rec(c, a) <= Rec(c, b)
  <2> SUFFICES ASSUME NEW a \in Nat, NEW b \in Nat, a <= b PROVE Rec(c, a) <= Rec(c, b)
    OBVIOUS
  <2>1. Cardinality(Earlier(RecEnds(c), a)) <= Cardinality(Earlier(RecEnds(c), b))
    BY <1>1, CountGrows
  <2>2. Cardinality(Earlier(RecEnds(c), a)) \in Nat /\ Cardinality(Earlier(RecEnds(c), b)) \in Nat
    <3>1. ASSUME NEW p \in Nat PROVE Cardinality(Earlier(RecEnds(c), p)) \in Nat
      <4> DEFINE S == RecEnds(c)
                 n == Len(c)
      <4>1. S \in SUBSET (1..n) /\ n \in Nat
        BY <1>1
      <4> HIDE DEF S, n
      <4>2. Cardinality(Earlier(S, p)) \in 0..Cardinality(S) /\ Cardinality(S) \in Nat
        BY <4>1, CountStep
      <4> QED BY <4>2 DEF S
    <3> QED BY <3>1
  <2> QED BY <2>1, <2>2 DEF Rec
<1>3. Rec(c, i) \in Nat /\ Rec(c, m) \in Nat /\ Rec(c, i + 1) \in Nat
      /\ Rec(c, i + 1) = Rec(c, i) + (IF i \in RecEnds(c) THEN 1 ELSE 0)
  <2>1. Rec(c, i + 1) = Rec(c, i) + (IF i \in RecEnds(c) THEN 1 ELSE 0)
    BY RecordStep
  <2>2. i + 1 \in Nat
    OBVIOUS
  <2> QED BY <1>0, <2>1, <2>2
<1>4. Rec(c, i) <= Rec(c, m)
  BY <1>2
<1>5. ASSUME i < m, i \in RecEnds(c) PROVE Rec(c, i) < Rec(c, m)
  <2>1. Rec(c, i + 1) <= Rec(c, m)
    BY <1>2, <1>5
  <2> QED BY <1>3, <1>5, <2>1
<1> QED BY <1>4, <1>5

\* The fields of a record follow each other, from one.
LEMMA FieldStep ==
  ASSUME NEW c \in Seq(Csv!Chars), NEW i \in Nat, NEW k
  PROVE  /\ Cardinality(RecCommas(c, k)) \in Nat
         /\ Cardinality(Earlier(RecCommas(c, k), i)) \in 0..Cardinality(RecCommas(c, k))
         /\ Cardinality(Earlier(RecCommas(c, k), i + 1))
              = Cardinality(Earlier(RecCommas(c, k), i)) + (IF i \in RecCommas(c, k) THEN 1 ELSE 0)
         /\ \A m \in Nat : i <= m => Cardinality(Earlier(RecCommas(c, k), i)) <= Cardinality(Earlier(RecCommas(c, k), m))
<1> DEFINE S == RecCommas(c, k)
           n == Len(c)
<1>1. S \in SUBSET (1..n) /\ n \in Nat
  BY PlacesIn
<1> HIDE DEF S, n
<1>2. Cardinality(S) \in Nat /\ Cardinality(Earlier(S, i)) \in 0..Cardinality(S)
  BY <1>1, CountStep
<1>3. Cardinality(Earlier(S, i + 1)) = Cardinality(Earlier(S, i)) + (IF i \in S THEN 1 ELSE 0)
  BY <1>1, CountStep
<1>4. ASSUME NEW m \in Nat, i <= m PROVE Cardinality(Earlier(S, i)) <= Cardinality(Earlier(S, m))
  BY <1>1, <1>4, CountGrows
<1> QED BY <1>2, <1>3, <1>4 DEF S

LEMMA FieldType ==
  ASSUME NEW c \in Seq(Csv!Chars), NEW i \in Nat
  PROVE  Fld(c, i) \in 1..(1 + Cardinality(RecCommas(c, Rec(c, i)))) /\ Fld(c, i) \in Nat
<1> DEFINE k == Rec(c, i)
           x == Cardinality(Earlier(RecCommas(c, k), i))
           z == Cardinality(RecCommas(c, k))
<1>1. z \in Nat /\ x \in 0..z
  BY FieldStep
<1>2. Fld(c, i) = 1 + x
  BY DEF Fld
<1> HIDE DEF x, z
<1>3. Fld(c, i) \in 1..(1 + z) /\ Fld(c, i) \in Nat
  BY <1>1, <1>2
<1> QED BY <1>3 DEF z

LEMMA RecordType == ASSUME NEW c \in Seq(Csv!Chars), NEW i \in Nat PROVE Rec(c, i) \in Nat /\ Rec(c, i) >= 1
<1>1. Rec(c, i) \in 1..(1 + Cardinality(RecEnds(c))) /\ Cardinality(RecEnds(c)) \in Nat
  BY RecordStep
<1> QED BY <1>1

\* Within a record the field does not change but behind a comma, and a later place has no smaller one.
LEMMA FieldsGrow ==
  ASSUME NEW c \in Seq(Csv!Chars), NEW i \in Nat, NEW m \in Nat, i <= m, Rec(c, i) = Rec(c, m)
  PROVE  /\ Fld(c, i) <= Fld(c, m)
         /\ i < m /\ i \in CommasIn(c) => Fld(c, i) < Fld(c, m)
<1> DEFINE k == Rec(c, i)
           x(a) == Cardinality(Earlier(RecCommas(c, k), a))
<1>1. Fld(c, i) = 1 + x(i) /\ Fld(c, m) = 1 + x(m)
  BY DEF Fld
<1>2. ASSUME NEW a \in Nat PROVE x(a) \in Nat
  <2>1. Cardinality(RecCommas(c, k)) \in Nat /\ x(a) \in 0..Cardinality(RecCommas(c, k))
    BY FieldStep
  <2> HIDE DEF x
  <2> QED BY <2>1
<1>3. x(i) <= x(m)
  BY FieldStep
<1>4. ASSUME i < m, i \in CommasIn(c) PROVE x(i) < x(m)
  <2>1. i \in RecCommas(c, k)
    BY <1>4 DEF RecCommas
  <2>2. x(i + 1) = x(i) + 1
    BY <2>1, FieldStep
  <2>3. i + 1 \in Nat /\ i + 1 <= m
    BY <1>4
  <2>4. x(i + 1) <= x(m)
    BY <2>3, FieldStep
  <2> HIDE DEF x
  <2> QED BY <1>2, <2>2, <2>3, <2>4
<1>5. x(i) \in Nat /\ x(m) \in Nat
  BY <1>2
<1> HIDE DEF x
<1> QED BY <1>1, <1>3, <1>4, <1>5

\* What comes after a place that is neither a comma nor the end of a record.
LEMMA NextWithin ==
  ASSUME NEW c \in Seq(Csv!Chars), NEW i \in DOMAIN c, i \notin CommasIn(c), i \notin RecEnds(c)
  PROVE  /\ Rec(c, i + 1) = Rec(c, i) /\ Fld(c, i + 1) = Fld(c, i)
         /\ Read(c, i + 1) = Read(c, i) \cup (IF Out(c, i) /\ c[i] \in {"comma", "LF", "CR"} THEN {} ELSE {i})
<1> DEFINE k == Rec(c, i)
           f == Fld(c, i)
<1>1. i \in Nat /\ i + 1 \in Nat
  BY PlacesIn
<1>2. Rec(c, i + 1) = k
  <2>1. Rec(c, i + 1) = k + (IF i \in RecEnds(c) THEN 1 ELSE 0)
    BY <1>1, RecordStep
  <2>2. k \in Nat
    BY <1>1, RecordType
  <2> HIDE DEF k
  <2> QED BY <2>1, <2>2
<1>3. Fld(c, i + 1) = f
  <2> DEFINE x(a) == Cardinality(Earlier(RecCommas(c, k), a))
  <2>1. x(i + 1) = x(i) + (IF i \in RecCommas(c, k) THEN 1 ELSE 0)
    BY <1>1, FieldStep
  <2>2. i \notin RecCommas(c, k)
    BY DEF RecCommas
  <2>3. x(i) \in Nat
    <3>1. Cardinality(RecCommas(c, k)) \in Nat /\ x(i) \in 0..Cardinality(RecCommas(c, k))
      BY <1>1, FieldStep
    <3> HIDE DEF x
    <3> QED BY <3>1
  <2>4. Fld(c, i + 1) = 1 + x(i + 1) /\ f = 1 + x(i)
    BY <1>2 DEF Fld
  <2> HIDE DEF x, f
  <2> QED BY <2>1, <2>2, <2>3, <2>4
<1>4. Read(c, i + 1) = Earlier(Txt(c, k, f), i + 1) /\ Read(c, i) = Earlier(Txt(c, k, f), i)
  BY <1>2, <1>3 DEF Read
<1>5. i \in Txt(c, k, f) <=> ~(Out(c, i) /\ c[i] \in {"comma", "LF", "CR"})
  BY DEF Txt
<1>6. \A j \in Txt(c, k, f) : j \in Nat
  BY PlacesIn DEF Txt
<1>7. \A j \in Txt(c, k, f) : j < i + 1 <=> j < i \/ j = i
  BY <1>1, <1>6
<1> HIDE DEF k, f
<1>8. Earlier(Txt(c, k, f), i + 1) = Earlier(Txt(c, k, f), i) \cup (IF i \in Txt(c, k, f) THEN {i} ELSE {})
  <2>1. CASE i \in Txt(c, k, f)
    BY <1>7, <2>1 DEF Earlier
  <2>2. CASE i \notin Txt(c, k, f)
    <3>1. \A j \in Txt(c, k, f) : j < i + 1 <=> j < i
      BY <1>7, <2>2
    <3> QED BY <2>2, <3>1 DEF Earlier
  <2> QED BY <2>1, <2>2
<1> USE DEF k, f
<1> QED BY <1>2, <1>3, <1>4, <1>5, <1>8

\* A comma ends a field: all of it is read, and nothing of the next.
LEMMA NextField ==
  ASSUME NEW c \in Seq(Csv!Chars), NEW i \in CommasIn(c)
  PROVE  /\ Rec(c, i + 1) = Rec(c, i) /\ Fld(c, i + 1) = Fld(c, i) + 1
         /\ Read(c, i + 1) = {} /\ Read(c, i) = Txt(c, Rec(c, i), Fld(c, i))
<1> DEFINE k == Rec(c, i)
           f == Fld(c, i)
<1>1. i \in Nat /\ i + 1 \in Nat /\ i \in DOMAIN c /\ c[i] = "comma" /\ Out(c, i)
  BY PlacesIn DEF CommasIn
<1>2. i \notin RecEnds(c)
  BY <1>1 DEF RecEnds, EndsIn
<1>3. Rec(c, i + 1) = k
  <2>1. Rec(c, i + 1) = k + (IF i \in RecEnds(c) THEN 1 ELSE 0)
    BY <1>1, RecordStep
  <2>2. k \in Nat
    BY <1>1, RecordType
  <2> HIDE DEF k
  <2> QED BY <1>2, <2>1, <2>2
<1>4. Fld(c, i + 1) = f + 1 /\ f \in Nat
  <2> DEFINE x(a) == Cardinality(Earlier(RecCommas(c, k), a))
  <2>1. x(i + 1) = x(i) + (IF i \in RecCommas(c, k) THEN 1 ELSE 0)
    BY <1>1, FieldStep
  <2>2. i \in RecCommas(c, k)
    BY DEF RecCommas
  <2>3. x(i) \in Nat
    <3>1. Cardinality(RecCommas(c, k)) \in Nat /\ x(i) \in 0..Cardinality(RecCommas(c, k))
      BY <1>1, FieldStep
    <3> HIDE DEF x
    <3> QED BY <3>1
  <2>4. Fld(c, i + 1) = 1 + x(i + 1) /\ f = 1 + x(i)
    BY <1>3 DEF Fld
  <2> HIDE DEF x, f
  <2> QED BY <2>1, <2>2, <2>3, <2>4
<1>5. ASSUME NEW j \in DOMAIN c, Rec(c, j) = k, j <= i PROVE Fld(c, j) <= f
  <2>1. j \in Nat
    BY PlacesIn
  <2> QED BY <1>1, <1>5, <2>1, FieldsGrow
<1>6. ASSUME NEW j \in DOMAIN c, Rec(c, j) = k, i < j PROVE f < Fld(c, j)
  <2>1. j \in Nat /\ i <= j
    BY <1>1, <1>6, PlacesIn
  <2> QED BY <1>1, <1>6, <2>1, FieldsGrow
<1>7. \A j \in DOMAIN c : j \in Nat /\ Fld(c, j) \in Nat
  <2> SUFFICES ASSUME NEW j \in DOMAIN c PROVE j \in Nat /\ Fld(c, j) \in Nat
    OBVIOUS
  <2>1. j \in Nat
    BY PlacesIn
  <2> QED BY <2>1, FieldType
<1> HIDE DEF k, f
<1>8. Earlier(Txt(c, k, f + 1), i + 1) = {}
  <2>1. ASSUME NEW j \in Txt(c, k, f + 1), j < i + 1 PROVE FALSE
    <3>1. j \in DOMAIN c /\ Rec(c, j) = k /\ Fld(c, j) = f + 1
      BY DEF Txt
    <3>2. j <= i
      BY <1>1, <1>7, <2>1, <3>1
    <3> QED BY <1>4, <1>5, <1>7, <3>1, <3>2
  <2> QED BY <2>1 DEF Earlier
<1>9. Earlier(Txt(c, k, f), i) = Txt(c, k, f)
  <2>1. ASSUME NEW j \in Txt(c, k, f) PROVE j < i
    <3>1. j \in DOMAIN c /\ Rec(c, j) = k /\ Fld(c, j) = f /\ j # i
      BY <1>1 DEF Txt
    <3>2. ~(i < j)
      BY <1>4, <1>6, <1>7, <3>1
    <3> QED BY <1>1, <1>7, <3>1, <3>2
  <2> QED BY <2>1 DEF Earlier
<1>10. Read(c, i + 1) = Earlier(Txt(c, k, f + 1), i + 1) /\ Read(c, i) = Earlier(Txt(c, k, f), i)
  BY <1>3, <1>4 DEF Read, k, f
<1> QED BY <1>3, <1>4, <1>8, <1>9, <1>10 DEF k, f

\* A line end outside of quotes ends a record: all of its last field is read, and nothing of the next.
LEMMA NextRecord ==
  ASSUME NEW c \in Seq(Csv!Chars), NEW i \in RecEnds(c)
  PROVE  /\ Rec(c, i + 1) = Rec(c, i) + 1 /\ Fld(c, i + 1) = 1
         /\ Read(c, i + 1) = {} /\ Read(c, i) = Txt(c, Rec(c, i), Fld(c, i))
         /\ Fld(c, i) = 1 + Cardinality(RecCommas(c, Rec(c, i)))
         /\ LinesTo(c, Rec(c, i) + 1) = Earlier(EndsIn(c), i + 1)
<1> DEFINE k == Rec(c, i)
           f == Fld(c, i)
<1>1. i \in Nat /\ i + 1 \in Nat /\ i \in DOMAIN c /\ c[i] \in {"LF", "CR"} /\ Out(c, i) /\ i \in EndsIn(c)
  BY PlacesIn DEF RecEnds, EndsIn
<1>2. Rec(c, i + 1) = k + 1
  BY <1>1, RecordStep
<1>3. k \in Nat
  BY <1>1, RecordType
<1>4. \A j \in DOMAIN c : j \in Nat /\ Rec(c, j) \in Nat
  <2> SUFFICES ASSUME NEW j \in DOMAIN c PROVE j \in Nat /\ Rec(c, j) \in Nat
    OBVIOUS
  <2>1. j \in Nat
    BY PlacesIn
  <2> QED BY <2>1, RecordType
<1>5. ASSUME NEW j \in DOMAIN c, j <= i PROVE Rec(c, j) <= k
  <2>1. j \in Nat
    BY <1>4
  <2> QED BY <1>1, <1>5, <2>1, RecordsGrow
<1>6. ASSUME NEW j \in DOMAIN c, i < j PROVE k < Rec(c, j)
  <2>1. j \in Nat /\ i <= j
    BY <1>1, <1>4, <1>6
  <2> QED BY <1>1, <1>6, <2>1, RecordsGrow
<1> HIDE DEF k
<1>7. ASSUME NEW j \in DOMAIN c PROVE Rec(c, j) < k + 1 <=> j < i + 1
  <2>1. CASE j <= i
    BY <1>1, <1>3, <1>4, <1>5, <2>1
  <2>2. CASE i < j
    BY <1>1, <1>3, <1>4, <1>6, <2>2
  <2> QED BY <1>1, <1>4, <2>1, <2>2
<1>8. LinesTo(c, k + 1) = Earlier(EndsIn(c), i + 1)
  <2>1. EndsIn(c) \subseteq DOMAIN c
    BY DEF EndsIn
  <2> QED BY <1>7, <2>1 DEF LinesTo, Earlier
<1>9. Earlier(RecCommas(c, k + 1), i + 1) = {}
  <2>1. ASSUME NEW j \in RecCommas(c, k + 1) PROVE ~(j < i + 1)
    <3>1. j \in DOMAIN c /\ Rec(c, j) = k + 1
      BY DEF RecCommas, CommasIn
    <3> QED BY <1>3, <1>7, <3>1
  <2> QED BY <2>1 DEF Earlier
<1>10. Fld(c, i + 1) = 1
  <2>1. Fld(c, i + 1) = 1 + Cardinality(Earlier(RecCommas(c, k + 1), i + 1))
    BY <1>2 DEF Fld
  <2>2. Cardinality(Earlier(RecCommas(c, k + 1), i + 1)) = 0
    BY <1>9, FS_EmptySet
  <2> QED BY <2>1, <2>2
<1>11. Read(c, i + 1) = {}
  <2>1. ASSUME NEW j \in Txt(c, k + 1, 1) PROVE ~(j < i + 1)
    <3>1. j \in DOMAIN c /\ Rec(c, j) = k + 1
      BY DEF Txt
    <3> QED BY <1>3, <1>7, <3>1
  <2>2. Read(c, i + 1) = Earlier(Txt(c, k + 1, 1), i + 1)
    BY <1>2, <1>10 DEF Read
  <2> QED BY <2>1, <2>2 DEF Earlier
<1>12. Read(c, i) = Txt(c, k, f)
  <2>1. ASSUME NEW j \in Txt(c, k, f) PROVE j < i
    <3>1. j \in DOMAIN c /\ Rec(c, j) = k /\ j # i
      BY <1>1 DEF Txt
    <3>2. ~(i < j)
      BY <1>3, <1>6, <3>1
    <3> QED BY <1>1, <1>4, <3>1, <3>2
  <2>2. Read(c, i) = Earlier(Txt(c, k, f), i)
    BY DEF Read, k
  <2> QED BY <2>1, <2>2 DEF Earlier
<1>13. Earlier(RecCommas(c, k), i) = RecCommas(c, k)
  <2>1. ASSUME NEW j \in RecCommas(c, k) PROVE j < i
    <3>1. j \in DOMAIN c /\ Rec(c, j) = k /\ j # i
      BY <1>1 DEF RecCommas, CommasIn
    <3>2. ~(i < j)
      BY <1>3, <1>6, <3>1
    <3> QED BY <1>1, <1>4, <3>1, <3>2
  <2> QED BY <2>1 DEF Earlier
<1>14. f = 1 + Cardinality(RecCommas(c, k))
  BY <1>13 DEF Fld, k
<1> QED BY <1>2, <1>8, <1>10, <1>11, <1>12, <1>14 DEF k

\* At the first place nothing is read.
LEMMA FirstPlace ==
  ASSUME NEW c \in Seq(Csv!Chars)
  PROVE  Rec(c, 1) = 1 /\ Fld(c, 1) = 1 /\ Read(c, 1) = {} /\ LinesTo(c, 1) = {} /\ Out(c, 1)
         /\ Cardinality(Earlier(EndsIn(c), 1)) = 0
<1> DEFINE n == Len(c)
           Q == QuotesIn(c)
           E == EndsIn(c)
           K == RecCommas(c, 1)
<1>1. n \in Nat /\ Q \in SUBSET (1..n) /\ E \in SUBSET (1..n) /\ K \in SUBSET (1..n) /\ 1 \in Nat /\ 1 <= 1
  BY PlacesIn
<1> HIDE DEF n, Q, E, K
<1>2. Cardinality(Earlier(Q, 1)) = 0
  BY <1>1, CountStep
<1>3. Cardinality(Earlier(E, 1)) = 0
  BY <1>1, CountStep
<1>4. Cardinality(Earlier(K, 1)) = 0
  BY <1>1, CountStep
<1>5. Rec(c, 1) = 1
  BY <1>1, RecordStep
<1>6. Fld(c, 1) = 1
  BY <1>4, <1>5 DEF Fld, K
<1>7. Out(c, 1)
  BY <1>2 DEF Out, Q
<1>8. \A j \in DOMAIN c : ~(j < 1) /\ ~(Rec(c, j) < 1)
  <2> SUFFICES ASSUME NEW j \in DOMAIN c PROVE ~(j < 1) /\ ~(Rec(c, j) < 1)
    OBVIOUS
  <2>1. j \in Nat /\ j >= 1
    BY PlacesIn
  <2>2. Rec(c, j) \in Nat /\ Rec(c, j) >= 1
    BY <2>1, RecordType
  <2> QED BY <2>1, <2>2
<1>9. Read(c, 1) = {}
  BY <1>8 DEF Read, Earlier, Txt
<1>10. LinesTo(c, 1) = {}
  BY <1>8 DEF LinesTo, EndsIn
<1> QED BY <1>3, <1>5, <1>6, <1>7, <1>9, <1>10 DEF E

\* Behind the last place all is read.
LEMMA LastPlace ==
  ASSUME NEW c \in Seq(Csv!Chars), NEW i \in Nat, i > Len(c)
  PROVE  /\ Rec(c, i) = 1 + Cardinality(RecEnds(c))
         /\ Fld(c, i) = 1 + Cardinality(RecCommas(c, Rec(c, i)))
         /\ Read(c, i) = Txt(c, Rec(c, i), Fld(c, i))
<1> DEFINE n == Len(c)
           k == Rec(c, i)
           f == Fld(c, i)
           K == RecCommas(c, k)
<1>1. n \in Nat /\ K \in SUBSET (1..n) /\ i > n /\ DOMAIN c = 1..n
  BY PlacesIn
<1>2. k = 1 + Cardinality(RecEnds(c))
  BY RecordStep
<1>3. \A j \in DOMAIN c : j < i
  <2> HIDE DEF n
  <2> QED BY <1>1
<1>4. Read(c, i) = Txt(c, k, f)
  BY <1>3 DEF Read, Earlier, Txt
<1>5. f = 1 + Cardinality(K)
  <2> HIDE DEF n, K, k
  <2>1. Cardinality(Earlier(K, i)) = Cardinality(K)
    BY <1>1, CountStep
  <2> QED BY <2>1 DEF Fld, K, k
<1> QED BY <1>2, <1>4, <1>5

-----------------------------------------------------------------------------
(* The parser: the text of a field                                         *)

QuotesAmong(c, t) == t \cap QuotesIn(c)
WellSaid(c, t) ==
  \/ QuotesAmong(c, t) = {}
  \/ \E first, last \in QuotesAmong(c, t) :
       /\ first < last /\ \A i \in t : first <= i /\ (i > last => c[i] = "blank")
       /\ \A i \in QuotesAmong(c, t) \ {first, last} : ~Out(c, i) => i + 1 \in QuotesAmong(c, t) \ {last}
Inner(c, t) == {i \in t : /\ \E a, b \in QuotesAmong(c, t) : a < i /\ i < b
                          /\ c[i] # "quote" \/ ~Out(c, i)}
Value(c, t) == ItemsAt(c, IF QuotesAmong(c, t) = {} THEN t ELSE Inner(c, t))
Twice(c, t) == \E i, j \in QuotesAmong(c, t) : /\ i + 2 < j /\ c[i + 1] = "quote" /\ c[i + 2] = "blank"
                                               /\ \A k \in t : i <= k

\* The field is read right, or it is one that was opened again.
FieldGood(c, t, v) ==
  \/ Twice(c, t) /\ ~WellSaid(c, t)
  \/ WellSaid(c, t) /\ v = Value(c, t)

\* The quotes of t, but for some, come in pairs.
Paired(c, t, but) ==
  \A j \in QuotesAmong(c, t) \ but :
    IF Out(c, j) THEN j - 1 \in QuotesAmong(c, t) /\ ~Out(c, j - 1) ELSE j + 1 \in QuotesAmong(c, t)

\* What is kept of a quoted text.
Said(c, t) == {i \in t : c[i] # "quote" \/ ~Out(c, i)}

\* t begins with the quote a.
Begins(c, t, a) == a \in QuotesAmong(c, t) /\ Out(c, a) /\ \A i \in t : a <= i

\* The four states of a field of which the places t are read, up to i, with the value v: it has no
\* quotes, is open, is closed, or was opened again.
PlainField(c, t, v) == QuotesAmong(c, t) = {} /\ v = ItemsAt(c, t)
OpenField(c, t, v, i) ==
  \E a \in t : Begins(c, t, a) /\ Paired(c, t, {a}) /\ a..(i - 1) \subseteq t /\ v = ItemsAt(c, Said(c, t))
ClosedField(c, t, v, i) ==
  \E a, b \in t :
    /\ Begins(c, t, a) /\ b \in QuotesAmong(c, t) /\ ~Out(c, b) /\ a < b /\ a..(i - 1) \subseteq t
    /\ Paired(c, t, {a, b}) /\ \A j \in t : j > b => c[j] = "blank"
    /\ b + 1 \in DOMAIN c => c[b + 1] # "quote"
    /\ v = ItemsAt(c, {j \in Said(c, t) : j < b})
FieldAgain(c, t) ==
  \E a \in t : /\ Begins(c, t, a) /\ a + 1 \in QuotesAmong(c, t) /\ c[a + 2] = "blank"
               /\ \E j \in QuotesAmong(c, t) : j > a + 2

LEMMA AmongAre ==
  ASSUME NEW c \in Seq(Csv!Chars), NEW t \in SUBSET DOMAIN c
  PROVE  /\ \A i \in t : i \in DOMAIN c /\ i \in Nat
         /\ \A i : i \in QuotesAmong(c, t) <=> i \in t /\ c[i] = "quote"
BY DEF QuotesAmong, QuotesIn

\* A field with a quote that is not its first character is not well formed.
LEMMA QuoteInside ==
  ASSUME NEW c \in Seq(Csv!Chars), NEW t \in SUBSET DOMAIN c,
         NEW m \in t, NEW q \in QuotesAmong(c, t), m \notin QuotesAmong(c, t), \A i \in QuotesAmong(c, t) : m < i
  PROVE  ~WellSaid(c, t)
<1>1. ASSUME NEW first \in QuotesAmong(c, t), \A i \in t : first <= i PROVE FALSE
  <2>1. m < first /\ first <= m
    BY <1>1
  <2>2. m \in Nat /\ first \in Nat
    BY AmongAre
  <2> QED BY <2>1, <2>2
<1> QED BY <1>1 DEF WellSaid

\* Nor is one with something but blanks behind its closing quote.
LEMMA BehindClosed ==
  ASSUME NEW c \in Seq(Csv!Chars), NEW t \in SUBSET DOMAIN c, NEW a, Begins(c, t, a),
         NEW b \in QuotesAmong(c, t), a < b, ~Out(c, b), b + 1 \notin QuotesAmong(c, t),
         NEW i \in t, i > b, c[i] # "blank"
  PROVE  ~WellSaid(c, t)
<1>1. SUFFICES ASSUME NEW first \in QuotesAmong(c, t), NEW last \in QuotesAmong(c, t), first < last,
                      \A j \in t : first <= j /\ (j > last => c[j] = "blank"),
                      \A j \in QuotesAmong(c, t) \ {first, last} : ~Out(c, j) => j + 1 \in QuotesAmong(c, t) \ {last}
               PROVE  FALSE
  BY DEF WellSaid
<1>2. a \in Nat /\ b \in Nat /\ first \in Nat /\ last \in Nat /\ a \in t /\ first \in t /\ b \in t
  BY AmongAre DEF Begins
<1>3. first = a
  <2>1. first <= a /\ a <= first
    BY <1>1, <1>2 DEF Begins
  <2> QED BY <1>2, <2>1
<1>4. b # last
  BY <1>1
<1>5. b # first
  BY <1>2, <1>3
<1>6. b + 1 \in QuotesAmong(c, t)
  BY <1>1, <1>4, <1>5
<1> QED BY <1>6

\* Nor is one that is never closed.
LEMMA NeverClosed ==
  ASSUME NEW c \in Seq(Csv!Chars), NEW t \in SUBSET DOMAIN c, NEW a, Begins(c, t, a), Paired(c, t, {a})
  PROVE  ~WellSaid(c, t)
<1>1. SUFFICES ASSUME NEW first \in QuotesAmong(c, t), NEW last \in QuotesAmong(c, t), first < last,
                      \A j \in t : first <= j /\ (j > last => c[j] = "blank"),
                      \A j \in QuotesAmong(c, t) \ {first, last} : ~Out(c, j) => j + 1 \in QuotesAmong(c, t) \ {last}
               PROVE  FALSE
  BY DEF WellSaid, Begins
<1>2. a \in Nat /\ first \in Nat /\ last \in Nat /\ a \in t /\ first \in t /\ last \in t /\ Out(c, a)
  BY AmongAre DEF Begins
<1>3. first = a
  <2>1. first <= a /\ a <= first
    BY <1>1, <1>2 DEF Begins
  <2> QED BY <1>2, <2>1
<1>4. last # a
  BY <1>1, <1>2, <1>3
<1>5. CASE Out(c, last)
  <2>1. last - 1 \in QuotesAmong(c, t) /\ ~Out(c, last - 1)
    BY <1>4, <1>5 DEF Paired
  <2>2. last - 1 # a /\ last - 1 # last
    BY <1>2, <2>1
  <2>3. (last - 1) + 1 \in QuotesAmong(c, t) \ {last}
    BY <1>1, <1>3, <2>1, <2>2
  <2> QED BY <1>2, <2>3
<1>6. CASE ~Out(c, last)
  <2>1. last + 1 \in QuotesAmong(c, t)
    BY <1>4, <1>6 DEF Paired
  <2>2. last + 1 \in t /\ last + 1 > last /\ c[last + 1] = "quote"
    BY <1>2, <2>1, AmongAre
  <2> QED BY <1>1, <2>2
<1> QED BY <1>5, <1>6

\* A closed field is well formed, and its value is what was read.
LEMMA ClosedIsWell ==
  ASSUME NEW c \in Seq(Csv!Chars), NEW t \in SUBSET DOMAIN c, NEW v, NEW m, ClosedField(c, t, v, m)
  PROVE  WellSaid(c, t) /\ v = Value(c, t)
<1>1. PICK a \in t, b \in t :
    /\ Begins(c, t, a) /\ b \in QuotesAmong(c, t) /\ ~Out(c, b) /\ a < b
    /\ Paired(c, t, {a, b}) /\ \A i \in t : i > b => c[i] = "blank"
    /\ v = ItemsAt(c, {i \in Said(c, t) : i < b})
  BY DEF ClosedField
<1>2. a \in QuotesAmong(c, t) /\ Out(c, a) /\ \A i \in t : a <= i
  BY <1>1 DEF Begins
<1>3. \A i \in t : i \in DOMAIN c /\ i \in Nat
  BY AmongAre
<1>4. \A i : i \in QuotesAmong(c, t) <=> i \in t /\ c[i] = "quote"
  BY AmongAre
<1>5. ASSUME NEW i \in QuotesAmong(c, t) \ {a, b}, ~Out(c, i) PROVE i + 1 \in QuotesAmong(c, t) \ {b}
  <2>1. i + 1 \in QuotesAmong(c, t)
    BY <1>1, <1>5 DEF Paired
  <2>2. i \in DOMAIN c /\ c[i] = "quote"
    BY <1>3, <1>4
  <2>3. Out(c, i + 1)
    BY <1>5, <2>2, OutStep
  <2> QED BY <1>1, <2>1, <2>3
<1>6. WellSaid(c, t)
  <2>1. \A i \in t : a <= i /\ (i > b => c[i] = "blank")
    BY <1>1, <1>2
  <2> QED BY <1>1, <1>2, <1>5, <2>1 DEF WellSaid
<1>7. ASSUME NEW i \in QuotesAmong(c, t) PROVE a <= i /\ i <= b
  <2>1. i \in t /\ c[i] = "quote"
    BY <1>4
  <2> QED BY <1>1, <1>2, <1>3, <2>1
<1>8. ASSUME NEW i \in t, c[i] # "quote" \/ ~Out(c, i)
      PROVE  i < b <=> \E x, y \in QuotesAmong(c, t) : x < i /\ i < y
  <2>1. a # i
    BY <1>2, <1>4, <1>8
  <2>2. a < i
    BY <1>2, <1>3, <2>1
  <2>3. ASSUME NEW x \in QuotesAmong(c, t), NEW y \in QuotesAmong(c, t), i < y PROVE i < b
    <3>1. y \in Nat /\ y <= b
      BY <1>3, <1>4, <1>7
    <3> QED BY <1>3, <2>3, <3>1
  <2> QED BY <1>1, <1>2, <2>2, <2>3
<1>9. {i \in Said(c, t) : i < b} = Inner(c, t)
  BY <1>8 DEF Said, Inner
<1>10. Value(c, t) = ItemsAt(c, Inner(c, t))
  BY <1>2 DEF Value
<1> QED BY <1>1, <1>6, <1>9, <1>10

LEMMA AgainIsTwice ==
  ASSUME NEW c \in Seq(Csv!Chars), NEW t \in SUBSET DOMAIN c, FieldAgain(c, t)
  PROVE  Twice(c, t) /\ ~WellSaid(c, t)
<1>1. PICK a \in t : /\ Begins(c, t, a) /\ a + 1 \in QuotesAmong(c, t) /\ c[a + 2] = "blank"
                     /\ \E j \in QuotesAmong(c, t) : j > a + 2
  BY DEF FieldAgain
<1>2. PICK j \in QuotesAmong(c, t) : j > a + 2
  BY <1>1
<1>3. /\ a \in Nat /\ j \in Nat /\ a \in DOMAIN c /\ a \in QuotesAmong(c, t) /\ Out(c, a) /\ \A k \in t : a <= k
      /\ c[a] = "quote" /\ c[j] = "quote" /\ j \in t /\ c[a + 1] = "quote"
  BY <1>1, AmongAre DEF Begins
<1>4. Twice(c, t)
  <2>1. a + 2 < j
    BY <1>2, <1>3
  <2> QED BY <1>1, <1>3, <2>1 DEF Twice
<1>5. ~Out(c, a + 1)
  BY <1>3, OutStep
<1>6. a < a + 1 /\ j > a + 1 /\ (a + 1) + 1 = a + 2
  BY <1>2, <1>3
<1>7. a + 2 \notin QuotesAmong(c, t)
  BY <1>1, AmongAre
<1>8. (a + 1) + 1 \notin QuotesAmong(c, t)
  BY <1>6, <1>7
<1> DEFINE b == a + 1
<1>9. b \in QuotesAmong(c, t) /\ a < b /\ ~Out(c, b) /\ b + 1 \notin QuotesAmong(c, t) /\ j > b /\ c[j] # "blank"
  BY <1>1, <1>3, <1>5, <1>6, <1>8
<1> HIDE DEF b
<1>10. ~WellSaid(c, t)
  BY <1>1, <1>3, <1>9, BehindClosed
<1> QED BY <1>4, <1>10

LEMMA FieldIsGood ==
  ASSUME NEW c \in Seq(Csv!Chars), NEW t \in SUBSET DOMAIN c, NEW v, NEW m,
         FieldAgain(c, t) \/ ClosedField(c, t, v, m) \/ PlainField(c, t, v)
  PROVE  FieldGood(c, t, v)
<1>1. CASE FieldAgain(c, t)
  BY <1>1, AgainIsTwice DEF FieldGood
<1>2. CASE ClosedField(c, t, v, m)
  BY <1>2, ClosedIsWell DEF FieldGood
<1>3. CASE PlainField(c, t, v)
  BY <1>3 DEF FieldGood, PlainField, WellSaid, Value
<1> QED BY <1>1, <1>2, <1>3

-----------------------------------------------------------------------------
(* The parser: one more character of a field                               *)

LEMMA PlainMore ==
  ASSUME NEW c \in Seq(Csv!Chars), NEW t \in SUBSET DOMAIN c, NEW i \in DOMAIN c, \A j \in t : j < i, NEW v,
         PlainField(c, t, v), c[i] # "quote"
  PROVE  PlainField(c, t \cup {i}, Append(v, c[i]))
<1>1. QuotesAmong(c, t \cup {i}) = {}
  BY AmongAre DEF PlainField, QuotesAmong, QuotesIn
<1>2. ItemsAt(c, t \cup {i}) = Append(v, c[i])
  BY ItemsAtMore DEF PlainField
<1> QED BY <1>1, <1>2 DEF PlainField

LEMMA Opens ==
  ASSUME NEW c \in Seq(Csv!Chars), NEW t \in SUBSET DOMAIN c, NEW i \in DOMAIN c,
         PlainField(c, t, << >>), c[i] = "quote", Out(c, i)
  PROVE  OpenField(c, t \cup {i}, << >>, i + 1)
<1>1. t = {}
  BY NoItems DEF PlainField
<1>2. i \in Nat
  BY PlacesIn
<1>3. QuotesAmong(c, {i}) = {i}
  BY DEF QuotesAmong, QuotesIn
<1>4. Begins(c, {i}, i)
  <2>1. \A j \in {i} : i <= j
    BY <1>2
  <2> QED BY <1>3, <2>1 DEF Begins
<1>5. Paired(c, {i}, {i})
  BY <1>3 DEF Paired
<1>6. i..((i + 1) - 1) \subseteq {i}
  BY <1>2
<1>7. Said(c, {i}) = {}
  BY DEF Said
<1>8. ItemsAt(c, Said(c, {i})) = << >>
  BY <1>7, NoItems
<1>9. OpenField(c, {i}, << >>, i + 1)
  BY <1>4, <1>5, <1>6, <1>8 DEF OpenField
<1>10. t \cup {i} = {i}
  BY <1>1
<1> QED BY <1>9, <1>10

LEMMA StaysAgain ==
  ASSUME NEW c \in Seq(Csv!Chars), NEW t \in SUBSET DOMAIN c, NEW u \in SUBSET DOMAIN c, t \subseteq u,
         \A j \in t : \A i \in u \ t : j < i, FieldAgain(c, t)
  PROVE  FieldAgain(c, u)
<1>1. PICK a \in t : /\ Begins(c, t, a) /\ a + 1 \in QuotesAmong(c, t) /\ c[a + 2] = "blank"
                     /\ \E j \in QuotesAmong(c, t) : j > a + 2
  BY DEF FieldAgain
<1>2. QuotesAmong(c, t) \subseteq QuotesAmong(c, u)
  BY DEF QuotesAmong
<1>3. \A i \in u : i \in Nat
  BY AmongAre
<1>4. a \in u /\ \A i \in u : a <= i
  BY <1>1, <1>3 DEF Begins
<1>5. Begins(c, u, a)
  BY <1>1, <1>2, <1>4 DEF Begins
<1> QED BY <1>1, <1>2, <1>4, <1>5 DEF FieldAgain

\* A character that is no quote between the quotes.
LEMMA OpenMore ==
  ASSUME NEW c \in Seq(Csv!Chars), NEW t \in SUBSET DOMAIN c, NEW i \in DOMAIN c, \A j \in t : j < i, NEW v,
         OpenField(c, t, v, i), c[i] # "quote"
  PROVE  OpenField(c, t \cup {i}, Append(v, c[i]), i + 1)
<1>1. PICK a \in t : Begins(c, t, a) /\ Paired(c, t, {a}) /\ a..(i - 1) \subseteq t /\ v = ItemsAt(c, Said(c, t))
  BY DEF OpenField
<1> DEFINE u == t \cup {i}
<1>2. QuotesAmong(c, u) = QuotesAmong(c, t)
  BY DEF QuotesAmong, QuotesIn
<1>3. i \in Nat /\ \A j \in t : j \in Nat
  BY AmongAre, PlacesIn
<1>4. Begins(c, u, a)
  BY <1>1, <1>2, <1>3 DEF Begins
<1>5. Paired(c, u, {a})
  BY <1>1, <1>2 DEF Paired
<1>6. a..((i + 1) - 1) \subseteq u
  <2>1. ASSUME NEW j \in a..((i + 1) - 1) PROVE j \in a..(i - 1) \/ j = i
    BY <1>3
  <2> QED BY <1>1, <2>1
<1>7. Said(c, u) = Said(c, t) \cup {i}
  BY DEF Said
<1>8. ItemsAt(c, Said(c, u)) = Append(v, c[i])
  <2>1. Said(c, t) \in SUBSET DOMAIN c /\ \A j \in Said(c, t) : j < i
    BY DEF Said
  <2> QED BY <1>1, <1>7, <2>1, ItemsAtMore
<1>9. a \in u
  OBVIOUS
<1> HIDE DEF u
<1>10. OpenField(c, u, Append(v, c[i]), i + 1)
  BY <1>4, <1>5, <1>6, <1>8, <1>9 DEF OpenField
<1> QED BY <1>10 DEF u

\* Two quotes between the quotes.
LEMMA OpenEscaped ==
  ASSUME NEW c \in Seq(Csv!Chars), NEW t \in SUBSET DOMAIN c, NEW i \in DOMAIN c, \A j \in t : j < i, NEW v,
         OpenField(c, t, v, i), ~Out(c, i), c[i] = "quote", i + 1 \in DOMAIN c, c[i + 1] = "quote"
  PROVE  OpenField(c, (t \cup {i}) \cup {i + 1}, Append(v, "quote"), i + 2)
<1>1. PICK a \in t : Begins(c, t, a) /\ Paired(c, t, {a}) /\ a..(i - 1) \subseteq t /\ v = ItemsAt(c, Said(c, t))
  BY DEF OpenField
<1> DEFINE u == (t \cup {i}) \cup {i + 1}
<1>2. QuotesAmong(c, u) = (QuotesAmong(c, t) \cup {i}) \cup {i + 1}
  BY DEF QuotesAmong, QuotesIn
<1>3. i \in Nat /\ \A j \in t : j \in Nat
  BY AmongAre, PlacesIn
<1>4. Begins(c, u, a)
  <2>1. \A j \in u : a <= j
    BY <1>1, <1>3 DEF Begins
  <2> HIDE DEF u
  <2> QED BY <1>1, <1>2, <2>1 DEF Begins
<1>5. Out(c, i + 1) /\ (i + 1) - 1 = i
  BY <1>3, OutStep
<1>6. Paired(c, u, {a})
  <2>1. ASSUME NEW j \in QuotesAmong(c, u) \ {a}
        PROVE IF Out(c, j) THEN j - 1 \in QuotesAmong(c, u) /\ ~Out(c, j - 1) ELSE j + 1 \in QuotesAmong(c, u)
    <3> HIDE DEF u
    <3>1. CASE j = i
      BY <1>2, <3>1
    <3>2. CASE j = i + 1
      BY <1>2, <1>5, <3>2
    <3>3. CASE j \in QuotesAmong(c, t)
      BY <1>1, <1>2, <2>1, <3>3 DEF Paired
    <3> QED BY <1>2, <2>1, <3>1, <3>2, <3>3
  <2> HIDE DEF u
  <2> QED BY <2>1 DEF Paired
<1>7. a..((i + 2) - 1) \subseteq u
  <2>1. ASSUME NEW j \in a..((i + 2) - 1), j # i, j # i + 1 PROVE j \in a..(i - 1)
    <3>1. a \in Nat /\ j \in Int /\ a <= j /\ j <= (i + 2) - 1
      BY <1>3
    <3>2. j <= i - 1
      BY <1>3, <2>1, <3>1
    <3> QED BY <1>3, <3>1, <3>2
  <2>2. ASSUME NEW j \in a..((i + 2) - 1) PROVE j \in u
    <3>1. CASE j = i \/ j = i + 1
      BY <3>1
    <3>2. CASE j # i /\ j # i + 1
      BY <1>1, <2>1, <3>2
    <3> QED BY <3>1, <3>2
  <2> QED BY <2>2
<1>8. Said(c, u) = Said(c, t) \cup {i}
  BY <1>5 DEF Said
<1>9. ItemsAt(c, Said(c, u)) = Append(v, "quote")
  <2>1. Said(c, t) \in SUBSET DOMAIN c /\ \A j \in Said(c, t) : j < i
    BY DEF Said
  <2> QED BY <1>1, <1>8, <2>1, ItemsAtMore
<1>10. a \in u
  OBVIOUS
<1> HIDE DEF u
<1>11. OpenField(c, u, Append(v, "quote"), i + 2)
  BY <1>4, <1>6, <1>7, <1>9, <1>10 DEF OpenField
<1> QED BY <1>11 DEF u

\* The quote that closes.
LEMMA Closes ==
  ASSUME NEW c \in Seq(Csv!Chars), NEW t \in SUBSET DOMAIN c, NEW i \in DOMAIN c, \A j \in t : j < i, NEW v,
         OpenField(c, t, v, i), ~Out(c, i), c[i] = "quote", i + 1 \in DOMAIN c => c[i + 1] # "quote"
  PROVE  ClosedField(c, t \cup {i}, v, i + 1)
<1>1. PICK a \in t : Begins(c, t, a) /\ Paired(c, t, {a}) /\ a..(i - 1) \subseteq t /\ v = ItemsAt(c, Said(c, t))
  BY DEF OpenField
<1> DEFINE u == t \cup {i}
<1>2. QuotesAmong(c, u) = QuotesAmong(c, t) \cup {i}
  BY DEF QuotesAmong, QuotesIn
<1>3. i \in Nat /\ \A j \in t : j \in Nat
  BY AmongAre, PlacesIn
<1>4. Begins(c, u, a) /\ a < i
  <2>1. \A j \in u : a <= j
    BY <1>1, <1>3 DEF Begins
  <2> HIDE DEF u
  <2> QED BY <1>1, <1>2, <2>1 DEF Begins
<1>5. Paired(c, u, {a, i})
  BY <1>1, <1>2 DEF Paired
<1>6. a..((i + 1) - 1) \subseteq u
  <2>1. ASSUME NEW j \in a..((i + 1) - 1) PROVE j \in a..(i - 1) \/ j = i
    BY <1>3
  <2> QED BY <1>1, <2>1
<1>7. {j \in Said(c, u) : j < i} = Said(c, t)
  BY <1>3 DEF Said
<1>8. \A j \in u : ~(j > i)
  BY <1>3
<1>9. a \in u /\ i \in u /\ i \in QuotesAmong(c, u)
  BY <1>2
<1> HIDE DEF u
<1>10. ClosedField(c, u, v, i + 1)
  BY <1>1, <1>4, <1>5, <1>6, <1>7, <1>8, <1>9 DEF ClosedField
<1> QED BY <1>10 DEF u

\* A blank behind a closed text.
LEMMA ClosedMore ==
  ASSUME NEW c \in Seq(Csv!Chars), NEW t \in SUBSET DOMAIN c, NEW i \in DOMAIN c, \A j \in t : j < i, NEW v,
         ClosedField(c, t, v, i), c[i] = "blank"
  PROVE  ClosedField(c, t \cup {i}, v, i + 1)
<1>1. PICK a \in t, b \in t :
    /\ Begins(c, t, a) /\ b \in QuotesAmong(c, t) /\ ~Out(c, b) /\ a < b /\ a..(i - 1) \subseteq t
    /\ Paired(c, t, {a, b}) /\ \A j \in t : j > b => c[j] = "blank"
    /\ b + 1 \in DOMAIN c => c[b + 1] # "quote"
    /\ v = ItemsAt(c, {j \in Said(c, t) : j < b})
  BY DEF ClosedField
<1> DEFINE u == t \cup {i}
<1>2. QuotesAmong(c, u) = QuotesAmong(c, t)
  BY DEF QuotesAmong, QuotesIn
<1>3. i \in Nat /\ \A j \in t : j \in Nat
  BY AmongAre, PlacesIn
<1>4. Begins(c, u, a)
  BY <1>1, <1>2, <1>3 DEF Begins
<1>5. Paired(c, u, {a, b})
  BY <1>1, <1>2 DEF Paired
<1>6. a..((i + 1) - 1) \subseteq u
  <2>1. ASSUME NEW j \in a..((i + 1) - 1) PROVE j \in a..(i - 1) \/ j = i
    BY <1>3
  <2> QED BY <1>1, <2>1
<1>7. {j \in Said(c, u) : j < b} = {j \in Said(c, t) : j < b}
  <2>1. ~(i < b)
    BY <1>3
  <2> QED BY <2>1 DEF Said
<1>8. \A j \in u : j > b => c[j] = "blank"
  BY <1>1
<1>9. a \in u /\ b \in u /\ b \in QuotesAmong(c, u)
  BY <1>1, <1>2
<1> HIDE DEF u
<1>10. ClosedField(c, u, v, i + 1)
  BY <1>1, <1>4, <1>5, <1>6, <1>7, <1>8, <1>9 DEF ClosedField
<1> QED BY <1>10 DEF u

\* A quote behind an empty text that was closed, with blanks between.
LEMMA OpensAgain ==
  ASSUME NEW c \in Seq(Csv!Chars), NEW t \in SUBSET DOMAIN c, NEW i \in DOMAIN c, \A j \in t : j < i,
         ClosedField(c, t, << >>, i), c[i] = "quote"
  PROVE  FieldAgain(c, t \cup {i})
<1>1. PICK a \in t, b \in t :
    /\ Begins(c, t, a) /\ b \in QuotesAmong(c, t) /\ ~Out(c, b) /\ a < b /\ a..(i - 1) \subseteq t
    /\ Paired(c, t, {a, b}) /\ \A j \in t : j > b => c[j] = "blank"
    /\ b + 1 \in DOMAIN c => c[b + 1] # "quote"
    /\ << >> = ItemsAt(c, {j \in Said(c, t) : j < b})
  BY DEF ClosedField
<1> DEFINE u == t \cup {i}
<1>2. QuotesAmong(c, u) = QuotesAmong(c, t) \cup {i}
  BY DEF QuotesAmong, QuotesIn
<1>3. i \in Nat /\ \A j \in t : j \in Nat /\ j \in DOMAIN c
  BY AmongAre, PlacesIn
<1>4. {j \in Said(c, t) : j < b} = {}
  <2> DEFINE s == {j \in Said(c, t) : j < b}
  <2>1. s \in SUBSET DOMAIN c
    BY DEF Said
  <2> HIDE DEF s
  <2>2. ItemsAt(c, s) = << >>
    BY <1>1 DEF s
  <2>3. s = {}
    BY <2>1, <2>2, NoItems
  <2> QED BY <2>3 DEF s
<1>5. Begins(c, u, a) /\ Out(c, a) /\ c[a] = "quote"
  BY <1>1, <1>2, <1>3 DEF Begins, QuotesAmong, QuotesIn
<1>6. ~Out(c, a + 1)
  BY <1>3, <1>5, OutStep
<1>7. b = a + 1
  <2>1. ASSUME a + 1 < b PROVE FALSE
    <3>1. a + 1 \in a..(i - 1)
      BY <1>3, <2>1
    <3>2. a + 1 \in t
      BY <1>1, <3>1
    <3>3. a + 1 \in Said(c, t)
      BY <1>6, <3>2 DEF Said
    <3> QED BY <1>4, <2>1, <3>3
  <2> QED BY <1>1, <1>3, <2>1
<1>8. b < i /\ b \in DOMAIN c
  BY <1>3
<1>9. b + 1 # i
  BY <1>1
<1>10. b + 1 < i /\ a + 2 = b + 1
  BY <1>3, <1>7, <1>8, <1>9
<1>11. a + 2 \in a..(i - 1)
  BY <1>3, <1>10
<1>12. c[a + 2] = "blank"
  <2>1. a + 2 \in t /\ a + 2 > b
    BY <1>1, <1>3, <1>10, <1>11
  <2> QED BY <1>1, <2>1
<1>13. a \in u /\ a + 1 \in QuotesAmong(c, u) /\ i \in QuotesAmong(c, u) /\ i > a + 2
  BY <1>1, <1>2, <1>3, <1>7, <1>10
<1> HIDE DEF u
<1>14. FieldAgain(c, u)
  BY <1>5, <1>12, <1>13 DEF FieldAgain
<1> QED BY <1>14 DEF u

\* What makes a field malformed: a quote behind other characters, or what is no blank behind a closed text.
LEMMA StrayIsMalformed ==
  ASSUME NEW c \in Seq(Csv!Chars), NEW t \in SUBSET DOMAIN c, NEW i \in t, NEW v,
         PlainField(c, Earlier(t, i), v), v # << >>, c[i] = "quote"
  PROVE  ~WellSaid(c, t)
<1> DEFINE s == Earlier(t, i)
<1>1. s \in SUBSET DOMAIN c
  BY DEF Earlier
<1>2. \A j \in t : j \in Nat
  BY AmongAre
<1>3. \A q \in QuotesAmong(c, t) : q >= i
  BY <1>2 DEF PlainField, Earlier, QuotesAmong
<1>4. \A j \in s : j \in t /\ j < i
  BY DEF Earlier
<1>5. i \in QuotesAmong(c, t)
  BY DEF QuotesAmong, QuotesIn
<1> HIDE DEF s
<1>6. PICK m \in s : TRUE
  BY <1>1, NoItems DEF PlainField, s
<1>7. m \in t /\ m \notin QuotesAmong(c, t) /\ \A q \in QuotesAmong(c, t) : m < q
  <2>1. \A q \in QuotesAmong(c, t) : q \in Nat
    BY <1>2 DEF QuotesAmong
  <2> QED BY <1>2, <1>3, <1>4, <2>1
<1> QED BY <1>5, <1>7, QuoteInside

LEMMA TrailIsMalformed ==
  ASSUME NEW c \in Seq(Csv!Chars), NEW t \in SUBSET DOMAIN c, NEW i \in t, NEW v,
         ClosedField(c, Earlier(t, i), v, i), c[i] # "blank"
  PROVE  ~WellSaid(c, t)
<1> DEFINE s == Earlier(t, i)
<1>1. PICK a \in s, b \in s : Begins(c, s, a) /\ b \in QuotesAmong(c, s) /\ ~Out(c, b) /\ a < b
                              /\ (b + 1 \in DOMAIN c => c[b + 1] # "quote")
  BY DEF ClosedField
<1>2. \A j \in t : j \in Nat
  BY AmongAre
<1>3. \A j \in s : j \in t /\ j < i
  BY DEF Earlier
<1>4. \A j \in t : j < i => j \in s
  BY DEF Earlier
<1> HIDE DEF s
<1>5. \A q \in QuotesAmong(c, s) : q \in QuotesAmong(c, t)
  BY <1>3 DEF QuotesAmong
<1>6. \A j \in t : a <= j
  BY <1>1, <1>2, <1>3, <1>4 DEF Begins
<1>7. Begins(c, t, a)
  BY <1>1, <1>5, <1>6 DEF Begins
<1>8. b + 1 \notin QuotesAmong(c, t)
  BY <1>1, AmongAre
<1>9. b \in QuotesAmong(c, t) /\ i > b
  BY <1>1, <1>2, <1>3, <1>5
<1> QED BY <1>1, <1>7, <1>8, <1>9, BehindClosed

-----------------------------------------------------------------------------
(* The parser: what is known while it reads, and at the end                *)

RecordGood(c, k, r) ==
  Len(r) = 1 + Cardinality(RecCommas(c, k)) /\ \A f \in 1..Len(r) : FieldGood(c, Txt(c, k, f), r[f])

\* The field that is read, by the quotes that were passed.
FieldReads(c, i, v, q, s) ==
  \/ FieldAgain(c, Read(c, i))
  \/ q /\ OpenField(c, Read(c, i), v, i)
  \/ ~q /\ s /\ ClosedField(c, Read(c, i), v, i)
  \/ ~q /\ ~s /\ PlainField(c, Read(c, i), v)

CsvTypes ==
  /\ content \in Seq(Csv!Chars) /\ index \in 1..(Len(content) + 1)
  /\ records \in Seq(Seq(Seq(Csv!Chars))) /\ row \in Seq(Seq(Csv!Chars)) /\ field \in Seq(Csv!Chars)
  /\ sourceLines \in Seq(Nat) /\ sourceLine \in Nat /\ recordStartLine \in 1..sourceLine
  /\ sourceLine <= 1 + Len(content)
  /\ inQuotes \in BOOLEAN /\ fieldStartedWithQuote \in BOOLEAN /\ done \in BOOLEAN
  /\ inQuotes => fieldStartedWithQuote

\* The records that were read are those of the text, and so are their lines.
RecordsRead ==
  /\ Len(records) = Len(sourceLines)
  /\ \A k \in 1..Len(records) :
       RecordGood(content, k, records[k]) /\ sourceLines[k] = 1 + Cardinality(LinesTo(content, k))

\* The record, the field and the lines that are read are those the next character is in.
Reading ==
  /\ error = "" /\ (inQuotes <=> ~Out(content, index))
  /\ FieldReads(content, index, field, inQuotes, fieldStartedWithQuote)
  /\ Len(row) + 1 = Fld(content, index)
  /\ \A f \in 1..Len(row) : FieldGood(content, Txt(content, Rec(content, index), f), row[f])
  /\ Len(records) + 1 = Rec(content, index)
  /\ sourceLine = 1 + Cardinality(Earlier(EndsIn(content), index))
  /\ recordStartLine = 1 + Cardinality(LinesTo(content, Rec(content, index)))

\* A field is malformed, or opened again.
Refused ==
  /\ error # ""
  /\ \E k \in 1..(1 + Cardinality(RecEnds(content))) : \E f \in 1..(1 + Cardinality(RecCommas(content, k))) :
       ~WellSaid(content, Txt(content, k, f)) \/ Twice(content, Txt(content, k, f))

\* All records are read, but for one of a single empty field.
Accepted ==
  /\ error = "" /\ Len(records) <= 1 + Cardinality(RecEnds(content))
  /\ \A k \in 1..(1 + Cardinality(RecEnds(content))) : k > Len(records) => RecordGood(content, k, << << >> >>)

CsvInv == CsvTypes /\ RecordsRead /\ (~done => Reading) /\ (done => Refused \/ Accepted)

\* The line a record begins on is not behind the line that is read, and there are not more than characters.
LEMMA LineBounds ==
  ASSUME NEW c \in Seq(Csv!Chars), NEW i \in Nat
  PROVE  /\ Cardinality(Earlier(EndsIn(c), i)) \in Nat /\ Cardinality(LinesTo(c, Rec(c, i))) \in Nat
         /\ Cardinality(Earlier(EndsIn(c), i)) <= Len(c)
         /\ Cardinality(LinesTo(c, Rec(c, i))) <= Cardinality(Earlier(EndsIn(c), i))
<1> DEFINE n == Len(c)
           E == EndsIn(c)
           X == Earlier(E, i)
           Y == LinesTo(c, Rec(c, i))
<1>1. n \in Nat /\ E \in SUBSET (1..n)
  BY PlacesIn
<1>2. X \subseteq 1..n
  BY <1>1 DEF Earlier
<1>3. IsFiniteSet(1..n) /\ Cardinality(1..n) = n
  <2> HIDE DEF n
  <2> QED BY <1>1, FS_Interval
<1>4. IsFiniteSet(X) /\ Cardinality(X) \in Nat /\ Cardinality(X) <= n
  <2> HIDE DEF X, n
  <2> QED BY <1>2, <1>3, FS_Subset, FS_CardinalityType
<1>5. Y \subseteq X
  <2>1. ASSUME NEW j \in E, Rec(c, j) < Rec(c, i) PROVE j < i
    <3>1. j \in Nat
      BY <1>1
    <3>2. Rec(c, j) \in Nat /\ Rec(c, i) \in Nat
      BY <3>1, RecordType
    <3>3. ~(i <= j)
      BY <2>1, <3>1, <3>2, RecordsGrow
    <3> QED BY <3>1, <3>3
  <2> QED BY <2>1 DEF LinesTo, Earlier
<1>6. IsFiniteSet(Y) /\ Cardinality(Y) \in Nat /\ Cardinality(Y) <= Cardinality(X)
  <2> HIDE DEF X, Y
  <2> QED BY <1>4, <1>5, FS_Subset, FS_CardinalityType
<1> QED BY <1>4, <1>6

LEMMA CsvStarts == Csv!Init => CsvInv
<1> SUFFICES ASSUME Csv!Init PROVE CsvInv
  OBVIOUS
<1>1. /\ content \in Contents /\ index = 1 /\ records = << >> /\ sourceLines = << >>
      /\ sourceLine = 1 /\ recordStartLine = 1 /\ row = << >> /\ field = << >>
      /\ inQuotes = FALSE /\ fieldStartedWithQuote = FALSE /\ error = "" /\ done = FALSE
  BY DEF Csv!Init
<1>2. content \in Seq(Csv!Chars) /\ Len(content) \in Nat
  <2>1. content \in Seq(Csv!Chars)
    BY <1>1, CsvParameters DEF Csv!BatchCsvAssumption
  <2> QED BY <2>1
<1>3. CsvTypes
  <2>1. index \in 1..(Len(content) + 1) /\ sourceLine \in Nat /\ recordStartLine \in 1..sourceLine /\ sourceLine <= 1 + Len(content)
    <3>1. index = 1 /\ sourceLine = 1 /\ recordStartLine = 1
      BY <1>1
    <3> QED BY <1>2, <3>1
  <2>2. /\ records \in Seq(Seq(Seq(Csv!Chars))) /\ row \in Seq(Seq(Csv!Chars)) /\ field \in Seq(Csv!Chars)
        /\ sourceLines \in Seq(Nat)
    <3>1. records = << >> /\ row = << >> /\ field = << >> /\ sourceLines = << >>
      BY <1>1
    <3> QED BY <3>1
  <2>3. /\ inQuotes \in BOOLEAN /\ fieldStartedWithQuote \in BOOLEAN /\ done \in BOOLEAN
        /\ inQuotes => fieldStartedWithQuote
    BY <1>1
  <2> QED BY <1>2, <2>1, <2>2, <2>3 DEF CsvTypes
<1>4. RecordsRead
  <2>1. Len(records) = 0 /\ Len(sourceLines) = 0
    BY <1>1
  <2>2. 1..Len(records) = {}
    BY <2>1
  <2> QED BY <2>1, <2>2 DEF RecordsRead
<1>5. /\ Rec(content, 1) = 1 /\ Fld(content, 1) = 1 /\ Read(content, 1) = {} /\ LinesTo(content, 1) = {}
      /\ Out(content, 1) /\ Cardinality(Earlier(EndsIn(content), 1)) = 0
  BY <1>2, FirstPlace
<1>6. PlainField(content, {}, << >>)
  BY <1>2, NoItems DEF PlainField, QuotesAmong
<1>7. Cardinality(LinesTo(content, 1)) = 0
  BY <1>5, FS_EmptySet
<1>8. FieldReads(content, index, field, inQuotes, fieldStartedWithQuote)
  BY <1>1, <1>5, <1>6 DEF FieldReads
<1>9. Reading
  <2>1. index = 1 /\ sourceLine = 1 /\ recordStartLine = 1 /\ error = ""
    BY <1>1
  <2>2. Len(records) = 0 /\ Len(row) = 0
    BY <1>1
  <2>3. \A f \in 1..Len(row) : FieldGood(content, Txt(content, Rec(content, index), f), row[f])
    <3>1. 1..Len(row) = {}
      BY <2>2
    <3> QED BY <3>1
  <2>4. Len(row) + 1 = Fld(content, index) /\ Len(records) + 1 = Rec(content, index)
    <3>1. Fld(content, index) = 1 /\ Rec(content, index) = 1
      BY <1>5, <2>1
    <3> QED BY <2>2, <3>1
  <2>5. inQuotes <=> ~Out(content, index)
    BY <1>1, <1>5, <2>1
  <2>6. Cardinality(Earlier(EndsIn(content), index)) = 0
    BY <1>5, <2>1
  <2>7. Cardinality(LinesTo(content, Rec(content, index))) = 0
    BY <1>5, <1>7, <2>1
  <2>8. /\ sourceLine = 1 + Cardinality(Earlier(EndsIn(content), index))
        /\ recordStartLine = 1 + Cardinality(LinesTo(content, Rec(content, index)))
    <3> DEFINE x == Cardinality(Earlier(EndsIn(content), index))
               y == Cardinality(LinesTo(content, Rec(content, index)))
    <3>1. x = 0 /\ y = 0
      BY <2>6, <2>7
    <3> HIDE DEF x, y
    <3>2. 1 + x = 1 /\ 1 + y = 1
      BY <3>1
    <3>3. sourceLine = 1 + x /\ recordStartLine = 1 + y
      BY <2>1, <3>2
    <3> QED BY <3>3 DEF x, y
  <2> QED BY <1>8, <2>1, <2>3, <2>4, <2>5, <2>8 DEF Reading
<1>10. ~done
  BY <1>1
<1> QED BY <1>3, <1>4, <1>9, <1>10 DEF CsvInv

\* A step to a place of the same field.
LEMMA ReadOn ==
  ASSUME CsvInv, ~done, content' = content, done' = done, error' = error, records' = records,
         sourceLines' = sourceLines, row' = row, recordStartLine' = recordStartLine,
         index' \in 1..(Len(content) + 1), field' \in Seq(Csv!Chars),
         inQuotes' \in BOOLEAN, fieldStartedWithQuote' \in BOOLEAN, inQuotes' => fieldStartedWithQuote',
         Rec(content, index') = Rec(content, index), Fld(content, index') = Fld(content, index),
         inQuotes' <=> ~Out(content, index'),
         FieldReads(content, index', field', inQuotes', fieldStartedWithQuote'),
         sourceLine' = 1 + Cardinality(Earlier(EndsIn(content), index'))
  PROVE  CsvInv'
<1>1. CsvTypes /\ RecordsRead /\ Reading
  BY DEF CsvInv
<1>2. content \in Seq(Csv!Chars) /\ Len(content) \in Nat
  BY <1>1 DEF CsvTypes
<1>3. index' \in Nat
  BY <1>2
<1>4. /\ Cardinality(Earlier(EndsIn(content), index')) \in Nat /\ Cardinality(LinesTo(content, Rec(content, index'))) \in Nat
      /\ Cardinality(Earlier(EndsIn(content), index')) <= Len(content)
      /\ Cardinality(LinesTo(content, Rec(content, index'))) <= Cardinality(Earlier(EndsIn(content), index'))
  BY <1>2, <1>3, LineBounds
<1>5. recordStartLine = 1 + Cardinality(LinesTo(content, Rec(content, index')))
  BY <1>1 DEF Reading
<1>6. sourceLine' \in Nat /\ recordStartLine' \in 1..(sourceLine') /\ sourceLine' <= 1 + Len(content)
  BY <1>2, <1>4, <1>5
<1>7. CsvTypes'
  BY <1>1, <1>6 DEF CsvTypes
<1>8. RecordsRead'
  BY <1>1 DEF RecordsRead
<1>9. Reading'
  BY <1>1, <1>5 DEF Reading
<1> QED BY <1>7, <1>8, <1>9 DEF CsvInv

\* The next character, and the place behind it.
LEMMA Here ==
  ASSUME CsvInv, ~done, index <= Len(content)
  PROVE  /\ content \in Seq(Csv!Chars) /\ index \in DOMAIN content /\ index \in Nat /\ Len(content) \in Nat
         /\ index + 1 \in 1..(Len(content) + 1) /\ index + 1 \in Nat
         /\ Read(content, index) \in SUBSET DOMAIN content /\ \A j \in Read(content, index) : j < index
         /\ Cardinality(Earlier(EndsIn(content), index + 1))
              = Cardinality(Earlier(EndsIn(content), index)) + (IF index \in EndsIn(content) THEN 1 ELSE 0)
         /\ Cardinality(Earlier(EndsIn(content), index)) \in Nat
         /\ field \in Seq(Csv!Chars) /\ error = "" /\ (inQuotes <=> ~Out(content, index))
         /\ FieldReads(content, index, field, inQuotes, fieldStartedWithQuote)
         /\ sourceLine = 1 + Cardinality(Earlier(EndsIn(content), index))
<1>1. CsvTypes /\ Reading
  BY DEF CsvInv
<1>2. /\ content \in Seq(Csv!Chars) /\ index \in DOMAIN content /\ index \in Nat /\ Len(content) \in Nat
      /\ index + 1 \in 1..(Len(content) + 1) /\ index + 1 \in Nat /\ field \in Seq(Csv!Chars)
  BY <1>1 DEF CsvTypes
<1>3. Read(content, index) \in SUBSET DOMAIN content /\ \A j \in Read(content, index) : j < index
  BY DEF Read, Earlier, Txt
<1>4. Cardinality(Earlier(EndsIn(content), index + 1))
        = Cardinality(Earlier(EndsIn(content), index)) + (IF index \in EndsIn(content) THEN 1 ELSE 0)
  <2> DEFINE E == EndsIn(content)
             n == Len(content)
  <2>1. E \in SUBSET (1..n) /\ n \in Nat /\ index \in Nat
    BY <1>2, PlacesIn
  <2> HIDE DEF E, n
  <2>2. Cardinality(Earlier(E, index + 1)) = Cardinality(Earlier(E, index)) + (IF index \in E THEN 1 ELSE 0)
    BY <2>1, CountStep
  <2> QED BY <2>2 DEF E
<1>5. Cardinality(Earlier(EndsIn(content), index)) \in Nat
  BY <1>2, LineBounds
<1> QED BY <1>1, <1>2, <1>3, <1>4, <1>5 DEF Reading

\* A character that belongs to the field.
LEMMA ReadOne ==
  ASSUME CsvInv, ~done, index <= Len(content), index \notin CommasIn(content), index \notin RecEnds(content),
         Out(content, index) => content[index] \notin {"comma", "LF", "CR"},
         content' = content, done' = done, error' = error, records' = records, sourceLines' = sourceLines,
         row' = row, recordStartLine' = recordStartLine, index' = index + 1, field' \in Seq(Csv!Chars),
         inQuotes' \in BOOLEAN, fieldStartedWithQuote' \in BOOLEAN, inQuotes' => fieldStartedWithQuote',
         inQuotes' <=> IF content[index] = "quote" THEN ~inQuotes ELSE inQuotes,
         \/ FieldAgain(content, Read(content, index) \cup {index})
         \/ inQuotes' /\ OpenField(content, Read(content, index) \cup {index}, field', index + 1)
         \/ ~inQuotes' /\ fieldStartedWithQuote' /\ ClosedField(content, Read(content, index) \cup {index}, field', index + 1)
         \/ ~inQuotes' /\ ~fieldStartedWithQuote' /\ PlainField(content, Read(content, index) \cup {index}, field'),
         sourceLine' = IF index \in EndsIn(content) THEN sourceLine + 1 ELSE sourceLine
  PROVE  CsvInv'
<1>1. /\ content \in Seq(Csv!Chars) /\ index \in DOMAIN content
      /\ index + 1 \in 1..(Len(content) + 1)
      /\ Cardinality(Earlier(EndsIn(content), index + 1))
              = Cardinality(Earlier(EndsIn(content), index)) + (IF index \in EndsIn(content) THEN 1 ELSE 0)
      /\ Cardinality(Earlier(EndsIn(content), index)) \in Nat
      /\ (inQuotes <=> ~Out(content, index))
      /\ sourceLine = 1 + Cardinality(Earlier(EndsIn(content), index))
  BY Here
<1>2. /\ Rec(content, index + 1) = Rec(content, index) /\ Fld(content, index + 1) = Fld(content, index)
      /\ Read(content, index + 1) = Read(content, index) \cup (IF Out(content, index) /\ content[index] \in {"comma", "LF", "CR"} THEN {} ELSE {index})
  BY <1>1, NextWithin
<1>3. Read(content, index + 1) = Read(content, index) \cup {index}
  BY <1>2
<1>4. inQuotes' <=> ~Out(content, index + 1)
  BY <1>1, OutStep
<1>5. FieldReads(content, index + 1, field', inQuotes', fieldStartedWithQuote')
  BY <1>3 DEF FieldReads
<1>6. sourceLine' = 1 + Cardinality(Earlier(EndsIn(content), index + 1))
  BY <1>1
<1> QED BY <1>1, <1>2, <1>4, <1>5, <1>6, ReadOn

LEMMA EscapedStep == ASSUME CsvInv, Csv!EscapedQuote PROVE CsvInv'
<1>1. /\ ~done /\ index <= Len(content) /\ inQuotes /\ content[index] = "quote"
      /\ (IF index < Len(content) THEN content[index + 1] ELSE "none") = "quote"
      /\ field' = Append(field, "quote") /\ index' = index + 2
  BY DEF Csv!EscapedQuote, Csv!Quoted, Csv!char, Csv!nextChar, Csv!Quote
<1>2. /\ content' = content /\ done' = done /\ error' = error /\ records' = records /\ sourceLines' = sourceLines
      /\ row' = row /\ recordStartLine' = recordStartLine /\ sourceLine' = sourceLine
      /\ inQuotes' = inQuotes /\ fieldStartedWithQuote' = fieldStartedWithQuote
  BY DEF Csv!EscapedQuote, Csv!answer, Csv!lines, Csv!state, Csv!rest
<1>3. /\ content \in Seq(Csv!Chars) /\ index \in DOMAIN content /\ index \in Nat /\ Len(content) \in Nat
      /\ Read(content, index) \in SUBSET DOMAIN content /\ \A j \in Read(content, index) : j < index
      /\ Cardinality(Earlier(EndsIn(content), index + 1))
              = Cardinality(Earlier(EndsIn(content), index)) + (IF index \in EndsIn(content) THEN 1 ELSE 0)
      /\ Cardinality(Earlier(EndsIn(content), index)) \in Nat
      /\ field \in Seq(Csv!Chars) /\ (inQuotes <=> ~Out(content, index))
      /\ FieldReads(content, index, field, inQuotes, fieldStartedWithQuote)
      /\ sourceLine = 1 + Cardinality(Earlier(EndsIn(content), index))
  BY <1>1, Here
<1> DEFINE i == index
           c == content
           t == Read(content, index)
           u == (t \cup {i}) \cup {i + 1}
<1>4. i + 1 \in DOMAIN c /\ c[i + 1] = "quote" /\ i + 1 \in Nat /\ i + 2 \in Nat /\ i + 2 \in 1..(Len(c) + 1)
      /\ (i + 1) + 1 = i + 2
  <2>1. index < Len(content)
    BY <1>1
  <2> QED BY <1>1, <1>3, <2>1
<1>5. i \notin CommasIn(c) /\ i \notin RecEnds(c) /\ i + 1 \notin CommasIn(c) /\ i + 1 \notin RecEnds(c)
      /\ i \notin EndsIn(c) /\ i + 1 \notin EndsIn(c)
  BY <1>1, <1>4 DEF CommasIn, RecEnds, EndsIn
<1>6. /\ Rec(c, i + 1) = Rec(c, i) /\ Fld(c, i + 1) = Fld(c, i) /\ Read(c, i + 1) = t \cup {i}
  <2>1. c \in Seq(Csv!Chars) /\ i \in DOMAIN c
    BY <1>3
  <2>2. ~(Out(c, i) /\ c[i] \in {"comma", "LF", "CR"})
    BY <1>1
  <2> QED BY <1>5, <2>1, <2>2, NextWithin
<1>7. /\ Rec(c, i + 2) = Rec(c, i) /\ Fld(c, i + 2) = Fld(c, i) /\ Read(c, i + 2) = u
  <2>1. ~(Out(c, i + 1) /\ c[i + 1] \in {"comma", "LF", "CR"})
    BY <1>4
  <2>2. /\ Rec(c, (i + 1) + 1) = Rec(c, i + 1) /\ Fld(c, (i + 1) + 1) = Fld(c, i + 1)
        /\ Read(c, (i + 1) + 1) = Read(c, i + 1) \cup {i + 1}
    BY <1>3, <1>4, <1>5, <2>1, NextWithin
  <2> QED BY <1>4, <1>6, <2>2
<1>8. ~Out(c, i) /\ Out(c, i + 1) /\ ~Out(c, i + 2)
  <2>1. ~Out(c, i) /\ Out(c, i + 1)
    BY <1>1, <1>3, OutStep
  <2>2. ~Out(c, (i + 1) + 1)
    BY <1>3, <1>4, <2>1, OutStep
  <2> QED BY <1>4, <2>1, <2>2
<1>9. FieldReads(c, i + 2, field', inQuotes', fieldStartedWithQuote')
  <2>1. CASE FieldAgain(c, t)
    <3>1. t \subseteq u /\ u \in SUBSET DOMAIN c /\ \A j \in t : \A k \in u \ t : j < k
      BY <1>3, <1>4
    <3>2. FieldAgain(c, u)
      BY <1>3, <2>1, <3>1, StaysAgain
    <3> QED BY <1>7, <3>2 DEF FieldReads
  <2>2. CASE OpenField(c, t, field, i)
    <3>1. OpenField(c, u, Append(field, "quote"), i + 2)
      BY <1>1, <1>3, <1>4, <1>8, <2>2, OpenEscaped
    <3> QED BY <1>1, <1>2, <1>7, <3>1 DEF FieldReads
  <2> QED BY <1>1, <1>3, <2>1, <2>2 DEF FieldReads
<1>10. sourceLine' = 1 + Cardinality(Earlier(EndsIn(c), i + 2))
  <2> DEFINE E == EndsIn(c)
             n == Len(c)
  <2>1. E \in SUBSET (1..n) /\ n \in Nat
    BY <1>3, PlacesIn
  <2>2. i \notin E /\ i + 1 \notin E
    BY <1>5
  <2> HIDE DEF E, n
  <2>3. Cardinality(Earlier(E, i + 1)) = Cardinality(Earlier(E, i)) + (IF i \in E THEN 1 ELSE 0)
    <3>1. i \in Nat
      BY <1>3
    <3> QED BY ONLY <2>1, <3>1, CountStep
  <2>4. Cardinality(Earlier(E, (i + 1) + 1)) = Cardinality(Earlier(E, i + 1)) + (IF i + 1 \in E THEN 1 ELSE 0)
    <3>1. i + 1 \in Nat
      BY <1>4
    <3> QED BY ONLY <2>1, <3>1, CountStep
  <2>5. Cardinality(Earlier(E, i)) \in Nat /\ sourceLine = 1 + Cardinality(Earlier(E, i))
    BY <1>3 DEF E
  <2>6. Cardinality(Earlier(E, i + 2)) = Cardinality(Earlier(E, i))
    BY <1>4, <2>2, <2>3, <2>4, <2>5
  <2>7. sourceLine' = 1 + Cardinality(Earlier(E, i + 2))
    BY <1>2, <2>5, <2>6
  <2> QED BY <2>7 DEF E
<1>11. /\ field' \in Seq(Csv!Chars) /\ inQuotes' \in BOOLEAN /\ fieldStartedWithQuote' \in BOOLEAN
       /\ (inQuotes' => fieldStartedWithQuote')
  <2>1. "quote" \in Csv!Chars
    BY DEF Csv!Chars, Csv!Quote
  <2>2. inQuotes \in BOOLEAN /\ fieldStartedWithQuote \in BOOLEAN /\ (inQuotes => fieldStartedWithQuote)
    BY DEF CsvInv, CsvTypes
  <2>3. field' \in Seq(Csv!Chars)
    BY <1>1, <1>3, <2>1
  <2> QED BY <1>2, <2>2, <2>3
<1>12. /\ index' \in 1..(Len(content) + 1)
       /\ Rec(content, index') = Rec(content, index) /\ Fld(content, index') = Fld(content, index)
       /\ (inQuotes' <=> ~Out(content, index'))
       /\ FieldReads(content, index', field', inQuotes', fieldStartedWithQuote')
       /\ sourceLine' = 1 + Cardinality(Earlier(EndsIn(content), index'))
  BY <1>1, <1>2, <1>4, <1>7, <1>8, <1>9, <1>10
<1> QED BY <1>1, <1>2, <1>11, <1>12, ReadOn

LEMMA CloseStep == ASSUME CsvInv, Csv!CloseQuote PROVE CsvInv'
<1>1. /\ ~done /\ index <= Len(content) /\ inQuotes /\ content[index] = "quote"
      /\ (IF index < Len(content) THEN content[index + 1] ELSE "none") # "quote"
      /\ inQuotes' = FALSE /\ index' = index + 1
  BY DEF Csv!CloseQuote, Csv!Quoted, Csv!char, Csv!nextChar, Csv!Quote
<1>2. /\ content' = content /\ done' = done /\ error' = error /\ records' = records /\ sourceLines' = sourceLines
      /\ row' = row /\ recordStartLine' = recordStartLine /\ sourceLine' = sourceLine
      /\ field' = field /\ fieldStartedWithQuote' = fieldStartedWithQuote
  BY DEF Csv!CloseQuote, Csv!answer, Csv!lines, Csv!state, Csv!rest
<1>3. /\ content \in Seq(Csv!Chars) /\ index \in DOMAIN content /\ index \in Nat /\ Len(content) \in Nat
      /\ Read(content, index) \in SUBSET DOMAIN content /\ \A j \in Read(content, index) : j < index
      /\ field \in Seq(Csv!Chars) /\ (inQuotes <=> ~Out(content, index))
      /\ FieldReads(content, index, field, inQuotes, fieldStartedWithQuote)
  BY <1>1, Here
<1> DEFINE u == Read(content, index) \cup {index}
<1>4. index \notin CommasIn(content) /\ index \notin RecEnds(content) /\ index \notin EndsIn(content)
  BY <1>1 DEF CommasIn, RecEnds, EndsIn
<1>5. index + 1 \in DOMAIN content => content[index + 1] # "quote"
  BY <1>1, <1>3
<1>6. /\ inQuotes \in BOOLEAN /\ fieldStartedWithQuote \in BOOLEAN /\ (inQuotes => fieldStartedWithQuote)
  BY DEF CsvInv, CsvTypes
<1>7. FieldAgain(content, u) \/ ClosedField(content, u, field, index + 1)
  <2>1. CASE FieldAgain(content, Read(content, index))
    <3>1. u \in SUBSET DOMAIN content /\ \A j \in Read(content, index) : \A k \in u \ Read(content, index) : j < k
      BY <1>3
    <3> QED BY <1>3, <2>1, <3>1, StaysAgain
  <2>2. CASE OpenField(content, Read(content, index), field, index)
    BY <1>1, <1>3, <1>5, <2>2, Closes
  <2> QED BY <1>1, <1>3, <2>1, <2>2 DEF FieldReads
<1>8. fieldStartedWithQuote' /\ ~inQuotes' /\ inQuotes' \in BOOLEAN /\ fieldStartedWithQuote' \in BOOLEAN
  BY <1>1, <1>2, <1>6
<1>9. sourceLine' = IF index \in EndsIn(content) THEN sourceLine + 1 ELSE sourceLine
  BY <1>2, <1>4
<1>10. inQuotes' <=> IF content[index] = "quote" THEN ~inQuotes ELSE inQuotes
  BY <1>1
<1>11. Out(content, index) => content[index] \notin {"comma", "LF", "CR"}
  BY <1>1
<1> HIDE DEF u
<1>12. \/ FieldAgain(content, u)
       \/ inQuotes' /\ OpenField(content, u, field', index + 1)
       \/ ~inQuotes' /\ fieldStartedWithQuote' /\ ClosedField(content, u, field', index + 1)
       \/ ~inQuotes' /\ ~fieldStartedWithQuote' /\ PlainField(content, u, field')
  BY <1>2, <1>7, <1>8
<1>13. field' \in Seq(Csv!Chars)
  BY <1>2, <1>3
<1> QED BY <1>1, <1>2, <1>4, <1>8, <1>9, <1>10, <1>11, <1>12, <1>13, ReadOne DEF u

LEMMA QuotedStep == ASSUME CsvInv, Csv!QuotedChar PROVE CsvInv'
<1>1. /\ ~done /\ index <= Len(content) /\ inQuotes /\ content[index] # "quote"
      /\ sourceLine' = IF content[index] = "LF" \/ (content[index] = "CR" /\ (IF index < Len(content) THEN content[index + 1] ELSE "none") # "LF")
                       THEN sourceLine + 1 ELSE sourceLine
      /\ field' = Append(field, content[index]) /\ index' = index + 1
  BY DEF Csv!QuotedChar, Csv!Quoted, Csv!char, Csv!nextChar, Csv!Quote, Csv!LF, Csv!CR
<1>2. /\ content' = content /\ done' = done /\ error' = error /\ records' = records /\ sourceLines' = sourceLines
      /\ row' = row /\ recordStartLine' = recordStartLine
      /\ inQuotes' = inQuotes /\ fieldStartedWithQuote' = fieldStartedWithQuote
  BY DEF Csv!QuotedChar, Csv!answer, Csv!state, Csv!rest
<1>3. /\ content \in Seq(Csv!Chars) /\ index \in DOMAIN content /\ index \in Nat /\ Len(content) \in Nat
      /\ Read(content, index) \in SUBSET DOMAIN content /\ \A j \in Read(content, index) : j < index
      /\ field \in Seq(Csv!Chars) /\ (inQuotes <=> ~Out(content, index))
      /\ FieldReads(content, index, field, inQuotes, fieldStartedWithQuote)
  BY <1>1, Here
<1> DEFINE u == Read(content, index) \cup {index}
<1>4. index \notin CommasIn(content) /\ index \notin RecEnds(content)
  BY <1>1, <1>3 DEF CommasIn, RecEnds
<1>5. sourceLine' = IF index \in EndsIn(content) THEN sourceLine + 1 ELSE sourceLine
  <2>1. CASE index < Len(content)
    <3>1. index # Len(content)
      BY <1>3, <2>1
    <3> QED BY <1>1, <1>3, <2>1, <3>1 DEF EndsIn
  <2>2. CASE ~(index < Len(content))
    <3>1. index = Len(content)
      BY <1>1, <1>3, <2>2
    <3> QED BY <1>1, <1>3, <2>2, <3>1 DEF EndsIn
  <2> QED BY <2>1, <2>2
<1>6. /\ inQuotes' \in BOOLEAN /\ fieldStartedWithQuote' \in BOOLEAN /\ (inQuotes' => fieldStartedWithQuote')
  BY <1>2 DEF CsvInv, CsvTypes
<1>7. FieldAgain(content, u) \/ OpenField(content, u, field', index + 1)
  <2>1. CASE FieldAgain(content, Read(content, index))
    <3>1. u \in SUBSET DOMAIN content /\ \A j \in Read(content, index) : \A k \in u \ Read(content, index) : j < k
      BY <1>3
    <3> QED BY <1>3, <2>1, <3>1, StaysAgain
  <2>2. CASE OpenField(content, Read(content, index), field, index)
    BY <1>1, <1>3, <2>2, OpenMore
  <2> QED BY <1>1, <1>3, <2>1, <2>2 DEF FieldReads
<1>8. inQuotes' <=> IF content[index] = "quote" THEN ~inQuotes ELSE inQuotes
  BY <1>1, <1>2
<1>9. Out(content, index) => content[index] \notin {"comma", "LF", "CR"}
  BY <1>1, <1>3
<1> HIDE DEF u
<1>10. \/ FieldAgain(content, u)
       \/ inQuotes' /\ OpenField(content, u, field', index + 1)
       \/ ~inQuotes' /\ fieldStartedWithQuote' /\ ClosedField(content, u, field', index + 1)
       \/ ~inQuotes' /\ ~fieldStartedWithQuote' /\ PlainField(content, u, field')
  BY <1>1, <1>2, <1>7
<1>11. field' \in Seq(Csv!Chars)
  BY <1>1, <1>3
<1> QED BY <1>1, <1>2, <1>4, <1>5, <1>6, <1>8, <1>9, <1>10, <1>11, ReadOne DEF u

LEMMA OpenStep == ASSUME CsvInv, Csv!OpenQuote PROVE CsvInv'
<1>1. /\ ~done /\ index <= Len(content) /\ ~inQuotes /\ content[index] = "quote" /\ field = << >>
      /\ inQuotes' = TRUE /\ fieldStartedWithQuote' = TRUE /\ index' = index + 1
  BY DEF Csv!OpenQuote, Csv!Unquoted, Csv!char, Csv!Quote
<1>2. /\ content' = content /\ done' = done /\ error' = error /\ records' = records /\ sourceLines' = sourceLines
      /\ row' = row /\ recordStartLine' = recordStartLine /\ sourceLine' = sourceLine /\ field' = field
  BY DEF Csv!OpenQuote, Csv!answer, Csv!lines, Csv!rest
<1>3. /\ content \in Seq(Csv!Chars) /\ index \in DOMAIN content /\ index \in Nat /\ Len(content) \in Nat
      /\ Read(content, index) \in SUBSET DOMAIN content /\ \A j \in Read(content, index) : j < index
      /\ field \in Seq(Csv!Chars) /\ (inQuotes <=> ~Out(content, index))
      /\ FieldReads(content, index, field, inQuotes, fieldStartedWithQuote)
  BY <1>1, Here
<1> DEFINE u == Read(content, index) \cup {index}
<1>4. index \notin CommasIn(content) /\ index \notin RecEnds(content) /\ index \notin EndsIn(content)
  BY <1>1 DEF CommasIn, RecEnds, EndsIn
<1>5. sourceLine' = IF index \in EndsIn(content) THEN sourceLine + 1 ELSE sourceLine
  BY <1>2, <1>4
<1>6. inQuotes' \in BOOLEAN /\ fieldStartedWithQuote' \in BOOLEAN /\ inQuotes' /\ fieldStartedWithQuote'
  BY <1>1
<1>7. FieldAgain(content, u) \/ OpenField(content, u, << >>, index + 1)
  <2>1. CASE FieldAgain(content, Read(content, index))
    <3>1. u \in SUBSET DOMAIN content /\ \A j \in Read(content, index) : \A k \in u \ Read(content, index) : j < k
      BY <1>3
    <3> QED BY <1>3, <2>1, <3>1, StaysAgain
  <2>2. CASE ClosedField(content, Read(content, index), << >>, index)
    BY <1>1, <1>3, <2>2, OpensAgain
  <2>3. CASE PlainField(content, Read(content, index), << >>)
    BY <1>1, <1>3, <2>3, Opens
  <2> QED BY <1>1, <1>3, <2>1, <2>2, <2>3 DEF FieldReads
<1>8. inQuotes' <=> IF content[index] = "quote" THEN ~inQuotes ELSE inQuotes
  BY <1>1, <1>6
<1>9. Out(content, index) => content[index] \notin {"comma", "LF", "CR"}
  BY <1>1
<1> HIDE DEF u
<1>10. \/ FieldAgain(content, u)
       \/ inQuotes' /\ OpenField(content, u, field', index + 1)
       \/ ~inQuotes' /\ fieldStartedWithQuote' /\ ClosedField(content, u, field', index + 1)
       \/ ~inQuotes' /\ ~fieldStartedWithQuote' /\ PlainField(content, u, field')
  <2>1. field' = << >>
    BY <1>1, <1>2
  <2> QED BY <1>6, <1>7, <2>1
<1>11. field' \in Seq(Csv!Chars)
  BY <1>2, <1>3
<1> QED BY <1>1, <1>2, <1>4, <1>5, <1>6, <1>8, <1>9, <1>10, <1>11, ReadOne DEF u

LEMMA BlankStep == ASSUME CsvInv, Csv!SkipBlank PROVE CsvInv'
<1>1. /\ ~done /\ index <= Len(content) /\ ~inQuotes /\ content[index] = "blank" /\ fieldStartedWithQuote
      /\ index' = index + 1
  BY DEF Csv!SkipBlank, Csv!ClosedField, Csv!Unquoted, Csv!char, Csv!Blank
<1>2. /\ content' = content /\ done' = done /\ error' = error /\ records' = records /\ sourceLines' = sourceLines
      /\ row' = row /\ recordStartLine' = recordStartLine /\ sourceLine' = sourceLine /\ field' = field
      /\ inQuotes' = inQuotes /\ fieldStartedWithQuote' = fieldStartedWithQuote
  BY DEF Csv!SkipBlank, Csv!answer, Csv!lines, Csv!rest, Csv!state
<1>3. /\ content \in Seq(Csv!Chars) /\ index \in DOMAIN content /\ index \in Nat /\ Len(content) \in Nat
      /\ Read(content, index) \in SUBSET DOMAIN content /\ \A j \in Read(content, index) : j < index
      /\ field \in Seq(Csv!Chars) /\ (inQuotes <=> ~Out(content, index))
      /\ FieldReads(content, index, field, inQuotes, fieldStartedWithQuote)
  BY <1>1, Here
<1> DEFINE u == Read(content, index) \cup {index}
<1>4. index \notin CommasIn(content) /\ index \notin RecEnds(content) /\ index \notin EndsIn(content)
  BY <1>1 DEF CommasIn, RecEnds, EndsIn
<1>5. sourceLine' = IF index \in EndsIn(content) THEN sourceLine + 1 ELSE sourceLine
  BY <1>2, <1>4
<1>6. /\ inQuotes' \in BOOLEAN /\ fieldStartedWithQuote' \in BOOLEAN /\ (inQuotes' => fieldStartedWithQuote')
  BY <1>2 DEF CsvInv, CsvTypes
<1>7. FieldAgain(content, u) \/ ClosedField(content, u, field, index + 1)
  <2>1. CASE FieldAgain(content, Read(content, index))
    <3>1. u \in SUBSET DOMAIN content /\ \A j \in Read(content, index) : \A k \in u \ Read(content, index) : j < k
      BY <1>3
    <3> QED BY <1>3, <2>1, <3>1, StaysAgain
  <2>2. CASE ClosedField(content, Read(content, index), field, index)
    BY <1>1, <1>3, <2>2, ClosedMore
  <2> QED BY <1>1, <1>3, <2>1, <2>2 DEF FieldReads
<1>8. inQuotes' <=> IF content[index] = "quote" THEN ~inQuotes ELSE inQuotes
  BY <1>1, <1>2
<1>9. Out(content, index) => content[index] \notin {"comma", "LF", "CR"}
  BY <1>1
<1> HIDE DEF u
<1>10. \/ FieldAgain(content, u)
       \/ inQuotes' /\ OpenField(content, u, field', index + 1)
       \/ ~inQuotes' /\ fieldStartedWithQuote' /\ ClosedField(content, u, field', index + 1)
       \/ ~inQuotes' /\ ~fieldStartedWithQuote' /\ PlainField(content, u, field')
  BY <1>1, <1>2, <1>7
<1>11. field' \in Seq(Csv!Chars)
  BY <1>2, <1>3
<1> QED BY <1>1, <1>2, <1>4, <1>5, <1>6, <1>8, <1>9, <1>10, <1>11, ReadOne DEF u

LEMMA PlainStep == ASSUME CsvInv, Csv!PlainChar PROVE CsvInv'
<1>1. /\ ~done /\ index <= Len(content) /\ ~inQuotes /\ ~fieldStartedWithQuote
      /\ content[index] \notin {"quote", "comma", "LF", "CR"}
      /\ field' = Append(field, content[index]) /\ index' = index + 1
  BY DEF Csv!PlainChar, Csv!Unquoted, Csv!char, Csv!Quote, Csv!Comma, Csv!LF, Csv!CR
<1>2. /\ content' = content /\ done' = done /\ error' = error /\ records' = records /\ sourceLines' = sourceLines
      /\ row' = row /\ recordStartLine' = recordStartLine /\ sourceLine' = sourceLine
      /\ inQuotes' = inQuotes /\ fieldStartedWithQuote' = fieldStartedWithQuote
  BY DEF Csv!PlainChar, Csv!answer, Csv!lines, Csv!rest, Csv!state
<1>3. /\ content \in Seq(Csv!Chars) /\ index \in DOMAIN content /\ index \in Nat /\ Len(content) \in Nat
      /\ Read(content, index) \in SUBSET DOMAIN content /\ \A j \in Read(content, index) : j < index
      /\ field \in Seq(Csv!Chars) /\ (inQuotes <=> ~Out(content, index))
      /\ FieldReads(content, index, field, inQuotes, fieldStartedWithQuote)
  BY <1>1, Here
<1> DEFINE u == Read(content, index) \cup {index}
<1>4. index \notin CommasIn(content) /\ index \notin RecEnds(content) /\ index \notin EndsIn(content)
  BY <1>1 DEF CommasIn, RecEnds, EndsIn
<1>5. sourceLine' = IF index \in EndsIn(content) THEN sourceLine + 1 ELSE sourceLine
  BY <1>2, <1>4
<1>6. /\ inQuotes' \in BOOLEAN /\ fieldStartedWithQuote' \in BOOLEAN /\ (inQuotes' => fieldStartedWithQuote')
  BY <1>2 DEF CsvInv, CsvTypes
<1>7. FieldAgain(content, u) \/ PlainField(content, u, field')
  <2>1. CASE FieldAgain(content, Read(content, index))
    <3>1. u \in SUBSET DOMAIN content /\ \A j \in Read(content, index) : \A k \in u \ Read(content, index) : j < k
      BY <1>3
    <3> QED BY <1>3, <2>1, <3>1, StaysAgain
  <2>2. CASE PlainField(content, Read(content, index), field)
    BY <1>1, <1>3, <2>2, PlainMore
  <2> QED BY <1>1, <1>3, <2>1, <2>2 DEF FieldReads
<1>8. inQuotes' <=> IF content[index] = "quote" THEN ~inQuotes ELSE inQuotes
  BY <1>1, <1>2
<1>9. Out(content, index) => content[index] \notin {"comma", "LF", "CR"}
  BY <1>1
<1> HIDE DEF u
<1>10. \/ FieldAgain(content, u)
       \/ inQuotes' /\ OpenField(content, u, field', index + 1)
       \/ ~inQuotes' /\ fieldStartedWithQuote' /\ ClosedField(content, u, field', index + 1)
       \/ ~inQuotes' /\ ~fieldStartedWithQuote' /\ PlainField(content, u, field')
  BY <1>1, <1>2, <1>7
<1>11. field' \in Seq(Csv!Chars)
  BY <1>1, <1>3
<1> QED BY <1>1, <1>2, <1>4, <1>5, <1>6, <1>8, <1>9, <1>10, <1>11, ReadOne DEF u

\* A field that is not open is read right, or was opened again.
LEMMA FieldDone ==
  ASSUME CsvInv, ~done, ~inQuotes
  PROVE  FieldGood(content, Read(content, index), field)
<1>1. content \in Seq(Csv!Chars) /\ FieldReads(content, index, field, inQuotes, fieldStartedWithQuote)
  BY DEF CsvInv, CsvTypes, Reading
<1>2. Read(content, index) \in SUBSET DOMAIN content
  BY DEF Read, Earlier, Txt
<1>3. FieldAgain(content, Read(content, index)) \/ ClosedField(content, Read(content, index), field, index)
        \/ PlainField(content, Read(content, index), field)
  BY <1>1 DEF FieldReads
<1> QED BY <1>1, <1>2, <1>3, FieldIsGood

LEMMA NothingRead == ASSUME NEW c \in Seq(Csv!Chars) PROVE PlainField(c, {}, << >>)
BY NoItems DEF PlainField, QuotesAmong

LEMMA EndFieldStep == ASSUME CsvInv, Csv!EndField PROVE CsvInv'
<1>1. /\ ~done /\ index <= Len(content) /\ ~inQuotes /\ content[index] = "comma"
      /\ row' = Append(row, field) /\ field' = << >> /\ fieldStartedWithQuote' = FALSE /\ index' = index + 1
  BY DEF Csv!EndField, Csv!Unquoted, Csv!char, Csv!Comma
<1>2. /\ content' = content /\ done' = done /\ error' = error /\ records' = records /\ sourceLines' = sourceLines
      /\ recordStartLine' = recordStartLine /\ sourceLine' = sourceLine /\ inQuotes' = inQuotes
  BY DEF Csv!EndField, Csv!answer, Csv!lines, Csv!rest
<1>3. /\ content \in Seq(Csv!Chars) /\ index \in DOMAIN content /\ index \in Nat /\ Len(content) \in Nat
      /\ index + 1 \in 1..(Len(content) + 1) /\ index + 1 \in Nat
      /\ Cardinality(Earlier(EndsIn(content), index + 1))
              = Cardinality(Earlier(EndsIn(content), index)) + (IF index \in EndsIn(content) THEN 1 ELSE 0)
      /\ Cardinality(Earlier(EndsIn(content), index)) \in Nat
      /\ field \in Seq(Csv!Chars) /\ error = "" /\ (inQuotes <=> ~Out(content, index))
      /\ sourceLine = 1 + Cardinality(Earlier(EndsIn(content), index))
  BY <1>1, Here
<1>4. CsvTypes /\ RecordsRead /\ Reading
  BY <1>1 DEF CsvInv
<1>5. index \in CommasIn(content) /\ index \notin EndsIn(content) /\ Out(content, index)
  BY <1>1, <1>3 DEF CommasIn, EndsIn
<1> DEFINE i == index
           c == content
           k == Rec(c, i)
           f == Fld(c, i)
<1>6. /\ Rec(c, i + 1) = k /\ Fld(c, i + 1) = f + 1 /\ Read(c, i + 1) = {} /\ Read(c, i) = Txt(c, k, f)
  BY <1>3, <1>5, NextField
<1>7. k \in Nat /\ f \in Nat
  BY <1>3, RecordType, FieldType
<1>8. /\ row \in Seq(Seq(Csv!Chars)) /\ Len(row) \in Nat /\ Len(row) + 1 = f
      /\ \A g \in 1..Len(row) : FieldGood(c, Txt(c, k, g), row[g])
      /\ Len(records) + 1 = k
      /\ recordStartLine = 1 + Cardinality(LinesTo(c, k))
  <2>1. row \in Seq(Seq(Csv!Chars)) /\ Len(row) \in Nat
    BY <1>4 DEF CsvTypes
  <2>2. /\ Len(row) + 1 = f /\ Len(records) + 1 = k
        /\ \A g \in 1..Len(row) : FieldGood(c, Txt(c, k, g), row[g])
        /\ recordStartLine = 1 + Cardinality(LinesTo(c, k))
    BY <1>4 DEF Reading
  <2> QED BY <2>1, <2>2
<1>9. FieldGood(c, Txt(c, k, f), field)
  BY <1>1, <1>6, FieldDone
<1>10. sourceLine' = 1 + Cardinality(Earlier(EndsIn(c), i + 1))
  <2> DEFINE x == Cardinality(Earlier(EndsIn(c), i))
             y == Cardinality(Earlier(EndsIn(c), i + 1))
  <2>1. x \in Nat /\ y = x + (IF index \in EndsIn(content) THEN 1 ELSE 0) /\ sourceLine = 1 + x
    BY <1>3
  <2> HIDE DEF x, y
  <2>2. y = x
    BY <1>5, <2>1
  <2>3. sourceLine' = 1 + y
    BY <1>2, <2>1, <2>2
  <2> QED BY <2>3 DEF y
<1>11. Out(c, i + 1)
  BY <1>1, <1>3, <1>5, OutStep
<1>12. FieldReads(c, i + 1, field', inQuotes', fieldStartedWithQuote')
  <2>1. PlainField(c, Read(c, i + 1), << >>)
    BY <1>3, <1>6, NothingRead
  <2> QED BY <1>1, <1>2, <2>1 DEF FieldReads
<1>13. row' \in Seq(Seq(Csv!Chars)) /\ Len(row') + 1 = f + 1
       /\ \A g \in 1..Len(row') : FieldGood(c, Txt(c, k, g), row'[g])
  <2> HIDE DEF k, f, c
  <2>1. row' \in Seq(Seq(Csv!Chars)) /\ Len(row') = Len(row) + 1 /\ row'[Len(row) + 1] = field
        /\ \A g \in 1..Len(row) : row'[g] = row[g]
    <3> DEFINE r == Append(row, field)
    <3>1. r \in Seq(Seq(Csv!Chars)) /\ Len(r) = Len(row) + 1 /\ r[Len(row) + 1] = field /\ \A g \in 1..Len(row) : r[g] = row[g]
      <4>1. row \in Seq(Seq(Csv!Chars)) /\ field \in Seq(Csv!Chars)
        BY <1>3, <1>8
      <4> QED BY <4>1, AppendProperties
    <3>2. row' = r
      BY <1>1
    <3> HIDE DEF r
    <3> QED BY <3>1, <3>2
  <2>2. ASSUME NEW g \in 1..Len(row') PROVE FieldGood(c, Txt(c, k, g), row'[g])
    <3>1. CASE g \in 1..Len(row)
      BY <1>8, <2>1, <3>1
    <3>2. CASE g = Len(row) + 1
      BY <1>8, <1>9, <2>1, <3>2
    <3> QED BY <1>8, <2>1, <3>1, <3>2
  <2> QED BY <1>8, <2>1, <2>2
<1>14. CsvTypes'
  <2>1. field' \in Seq(Csv!Chars)
    BY <1>1
  <2>2. inQuotes' \in BOOLEAN /\ ~inQuotes' /\ fieldStartedWithQuote' \in BOOLEAN
    BY <1>1, <1>2, <1>4 DEF CsvTypes
  <2> QED BY <1>1, <1>2, <1>3, <1>4, <1>13, <2>1, <2>2 DEF CsvTypes
<1>15. RecordsRead'
  BY <1>2, <1>4 DEF RecordsRead
<1>16. Reading'
  <2>1. Rec(c', index') = k /\ Fld(c', index') = f + 1 /\ c' = c /\ index' = i + 1
    BY <1>1, <1>2, <1>6
  <2> HIDE DEF k, f
  <2>2. error' = "" /\ (inQuotes' <=> ~Out(c', index'))
    BY <1>1, <1>2, <1>3, <1>11, <2>1
  <2>3. /\ Len(row)' + 1 = Fld(c', index')
        /\ \A g \in 1..Len(row)' : FieldGood(c', Txt(c', Rec(c', index'), g), row'[g])
        /\ Len(records)' + 1 = Rec(c', index')
        /\ sourceLine' = 1 + Cardinality(Earlier(EndsIn(c'), index'))
        /\ recordStartLine' = 1 + Cardinality(LinesTo(c', Rec(c', index')))
    BY <1>2, <1>8, <1>10, <1>13, <2>1
  <2> QED BY <1>12, <2>1, <2>2, <2>3 DEF Reading
<1>17. ~done'
  BY <1>1, <1>2
<1> QED BY <1>14, <1>15, <1>16, <1>17 DEF CsvInv

\* The place of the line end: that of the LF of a CR LF.
LEMMA EndPlace ==
  ASSUME CsvInv, ~done, index <= Len(content), ~inQuotes, content[index] \in {"LF", "CR"},
         NEW e, e = IF content[index] = "CR" /\ (IF index < Len(content) THEN content[index + 1] ELSE "none") = "LF"
                    THEN index + 1 ELSE index
  PROVE  /\ e \in RecEnds(content) /\ e \in Nat /\ e + 1 \in 1..(Len(content) + 1)
         /\ Rec(content, e) = Rec(content, index) /\ Fld(content, e) = Fld(content, index)
         /\ Read(content, e) = Read(content, index) /\ Out(content, e)
         /\ Cardinality(Earlier(EndsIn(content), e)) = Cardinality(Earlier(EndsIn(content), index))
<1>1. /\ content \in Seq(Csv!Chars) /\ index \in DOMAIN content /\ index \in Nat /\ Len(content) \in Nat
      /\ index + 1 \in 1..(Len(content) + 1) /\ index + 1 \in Nat
      /\ Cardinality(Earlier(EndsIn(content), index + 1))
              = Cardinality(Earlier(EndsIn(content), index)) + (IF index \in EndsIn(content) THEN 1 ELSE 0)
      /\ Cardinality(Earlier(EndsIn(content), index)) \in Nat
      /\ Out(content, index)
  BY Here
<1>2. CASE content[index] = "CR" /\ index < Len(content) /\ content[index + 1] = "LF"
  <2>1. e = index + 1
    BY <1>2
  <2>2. index \notin EndsIn(content) /\ index \notin CommasIn(content)
    BY <1>1, <1>2 DEF EndsIn, CommasIn
  <2>3. index \notin RecEnds(content)
    BY <2>2 DEF RecEnds
  <2>4. /\ Rec(content, index + 1) = Rec(content, index) /\ Fld(content, index + 1) = Fld(content, index)
        /\ Read(content, index + 1) = Read(content, index) \cup (IF Out(content, index) /\ content[index] \in {"comma", "LF", "CR"} THEN {} ELSE {index})
    BY <1>1, <2>2, <2>3, NextWithin
  <2>5. Read(content, index + 1) = Read(content, index)
    BY <1>1, <1>2, <2>4
  <2>6. Out(content, index + 1)
    BY <1>1, <1>2, OutStep
  <2>7. index + 1 \in DOMAIN content /\ (index + 1) + 1 \in 1..(Len(content) + 1)
    BY <1>1, <1>2
  <2>8. index + 1 \in RecEnds(content)
    BY <1>2, <2>6, <2>7 DEF RecEnds, EndsIn
  <2>9. Cardinality(Earlier(EndsIn(content), index + 1)) = Cardinality(Earlier(EndsIn(content), index))
    BY <1>1, <2>2
  <2> QED BY <1>1, <2>1, <2>4, <2>5, <2>6, <2>7, <2>8, <2>9
<1>3. CASE ~(content[index] = "CR" /\ index < Len(content) /\ content[index + 1] = "LF")
  <2>1. e = index
    BY <1>3
  <2>2. index \in EndsIn(content)
    <3>1. CASE content[index] = "LF"
      BY <1>1, <3>1 DEF EndsIn
    <3>2. CASE content[index] = "CR" /\ index < Len(content)
      BY <1>1, <1>3, <3>2 DEF EndsIn
    <3>3. CASE content[index] = "CR" /\ index = Len(content)
      BY <1>1, <3>3 DEF EndsIn
    <3> QED BY <1>1, <3>1, <3>2, <3>3
  <2>3. index \in RecEnds(content)
    BY <1>1, <2>2 DEF RecEnds
  <2> QED BY <1>1, <2>1, <2>3
<1> QED BY <1>2, <1>3

\* The row with its last field is the record of the text, if that field is its last.
LEMMA RowIsRecord ==
  ASSUME CsvInv, ~done, ~inQuotes,
         Read(content, index) = Txt(content, Rec(content, index), Fld(content, index)),
         Fld(content, index) = 1 + Cardinality(RecCommas(content, Rec(content, index)))
  PROVE  RecordGood(content, Rec(content, index), Append(row, field))
<1> DEFINE c == content
           k == Rec(c, index)
           f == Fld(c, index)
           r == Append(row, field)
<1>1. /\ row \in Seq(Seq(Csv!Chars)) /\ Len(row) \in Nat /\ Len(row) + 1 = f /\ field \in Seq(Csv!Chars)
      /\ \A g \in 1..Len(row) : FieldGood(c, Txt(c, k, g), row[g])
  <2>1. row \in Seq(Seq(Csv!Chars)) /\ Len(row) \in Nat /\ field \in Seq(Csv!Chars)
    BY DEF CsvInv, CsvTypes
  <2>2. Len(row) + 1 = f /\ \A g \in 1..Len(row) : FieldGood(c, Txt(c, k, g), row[g])
    BY DEF CsvInv, Reading
  <2> QED BY <2>1, <2>2
<1>2. FieldGood(c, Txt(c, k, f), field)
  BY FieldDone
<1>3. f = 1 + Cardinality(RecCommas(c, k))
  OBVIOUS
<1> HIDE DEF c, k, f
<1>4. r \in Seq(Seq(Csv!Chars)) /\ Len(r) = Len(row) + 1 /\ r[Len(row) + 1] = field /\ \A g \in 1..Len(row) : r[g] = row[g]
  BY <1>1
<1> HIDE DEF r
<1>5. ASSUME NEW g \in 1..Len(r) PROVE FieldGood(c, Txt(c, k, g), r[g])
  <2>1. CASE g \in 1..Len(row)
    BY <1>1, <1>4, <2>1
  <2>2. CASE g = Len(row) + 1
    BY <1>1, <1>2, <1>4, <2>2
  <2> QED BY <1>1, <1>4, <2>1, <2>2
<1>6. RecordGood(c, k, r)
  BY <1>1, <1>3, <1>4, <1>5 DEF RecordGood
<1> QED BY <1>6 DEF c, k, r

\* One more record of the text is read.
LEMMA RecordAdded ==
  ASSUME CsvInv, ~done, content' = content, NEW r \in Seq(Seq(Csv!Chars)),
         RecordGood(content, Rec(content, index), r),
         records' = Append(records, r), sourceLines' = Append(sourceLines, recordStartLine)
  PROVE  /\ RecordsRead' /\ Len(records') = Len(records) + 1
         /\ records' \in Seq(Seq(Seq(Csv!Chars))) /\ sourceLines' \in Seq(Nat)
<1>1. /\ records \in Seq(Seq(Seq(Csv!Chars))) /\ sourceLines \in Seq(Nat) /\ Len(records) \in Nat
      /\ recordStartLine \in Nat
  BY DEF CsvInv, CsvTypes
<1>2. /\ Len(records) = Len(sourceLines)
      /\ \A k \in 1..Len(records) :
           RecordGood(content, k, records[k]) /\ sourceLines[k] = 1 + Cardinality(LinesTo(content, k))
      /\ Len(records) + 1 = Rec(content, index)
      /\ recordStartLine = 1 + Cardinality(LinesTo(content, Rec(content, index)))
  BY DEF CsvInv, RecordsRead, Reading
<1>3. /\ records' \in Seq(Seq(Seq(Csv!Chars))) /\ Len(records') = Len(records) + 1 /\ records'[Len(records) + 1] = r
      /\ \A k \in 1..Len(records) : records'[k] = records[k]
  BY <1>1
<1>4. /\ sourceLines' \in Seq(Nat) /\ Len(sourceLines') = Len(records) + 1 /\ sourceLines'[Len(records) + 1] = recordStartLine
      /\ \A k \in 1..Len(records) : sourceLines'[k] = sourceLines[k]
  BY <1>1, <1>2
<1>5. ASSUME NEW k \in 1..Len(records')
      PROVE RecordGood(content, k, records'[k]) /\ sourceLines'[k] = 1 + Cardinality(LinesTo(content, k))
  <2>1. CASE k \in 1..Len(records)
    BY <1>2, <1>3, <1>4, <2>1
  <2>2. CASE k = Len(records) + 1
    BY <1>2, <1>3, <1>4, <2>2
  <2>3. k \in 1..(Len(records) + 1)
    BY <1>3, <1>5
  <2>4. k \in 1..Len(records) \/ k = Len(records) + 1
    BY <1>1, <2>3
  <2> QED BY <2>1, <2>2, <2>4
<1>6. RecordsRead'
  BY <1>3, <1>4, <1>5 DEF RecordsRead
<1> QED BY <1>3, <1>4, <1>6

LEMMA EndRecordStep == ASSUME CsvInv, Csv!EndRecord PROVE CsvInv'
<1>1. /\ ~done /\ index <= Len(content) /\ ~inQuotes /\ content[index] \in {"LF", "CR"}
      /\ records' = Append(records, Append(row, field)) /\ sourceLines' = Append(sourceLines, recordStartLine)
      /\ sourceLine' = sourceLine + 1 /\ recordStartLine' = sourceLine + 1
      /\ row' = << >> /\ field' = << >> /\ fieldStartedWithQuote' = FALSE
      /\ index' = IF content[index] = "CR" /\ (IF index < Len(content) THEN content[index + 1] ELSE "none") = "LF"
                  THEN index + 2 ELSE index + 1
  BY DEF Csv!EndRecord, Csv!Unquoted, Csv!char, Csv!nextChar, Csv!LF, Csv!CR
<1>2. content' = content /\ done' = done /\ error' = error /\ inQuotes' = inQuotes
  BY DEF Csv!EndRecord, Csv!rest
<1>3. /\ content \in Seq(Csv!Chars) /\ index \in Nat /\ Len(content) \in Nat
      /\ Cardinality(Earlier(EndsIn(content), index)) \in Nat
      /\ field \in Seq(Csv!Chars) /\ error = ""
      /\ sourceLine = 1 + Cardinality(Earlier(EndsIn(content), index))
  BY <1>1, Here
<1> DEFINE c == content
           e == IF content[index] = "CR" /\ (IF index < Len(content) THEN content[index + 1] ELSE "none") = "LF"
                THEN index + 1 ELSE index
           k == Rec(c, index)
<1>4. /\ e \in RecEnds(c) /\ e \in Nat /\ e + 1 \in 1..(Len(c) + 1)
      /\ Rec(c, e) = k /\ Fld(c, e) = Fld(c, index) /\ Read(c, e) = Read(c, index) /\ Out(c, e)
      /\ Cardinality(Earlier(EndsIn(c), e)) = Cardinality(Earlier(EndsIn(c), index))
  BY <1>1, EndPlace
<1>5. index' = e + 1
  <2> DEFINE cond == content[index] = "CR" /\ (IF index < Len(content) THEN content[index + 1] ELSE "none") = "LF"
  <2>1. e = (IF cond THEN index + 1 ELSE index) /\ index' = (IF cond THEN index + 2 ELSE index + 1)
    BY <1>1
  <2>2. index \in Nat
    BY <1>3
  <2> HIDE DEF cond, e
  <2> QED BY <2>1, <2>2
<1> HIDE DEF e
<1>6. /\ Rec(c, e + 1) = k + 1 /\ Fld(c, e + 1) = 1 /\ Read(c, e + 1) = {}
      /\ Read(c, e) = Txt(c, k, Fld(c, e)) /\ Fld(c, e) = 1 + Cardinality(RecCommas(c, k))
      /\ LinesTo(c, k + 1) = Earlier(EndsIn(c), e + 1)
  <2>1. c \in Seq(Csv!Chars) /\ e \in RecEnds(c)
    BY <1>3, <1>4
  <2>2. /\ Rec(c, e + 1) = Rec(c, e) + 1 /\ Fld(c, e + 1) = 1 /\ Read(c, e + 1) = {}
        /\ Read(c, e) = Txt(c, Rec(c, e), Fld(c, e)) /\ Fld(c, e) = 1 + Cardinality(RecCommas(c, Rec(c, e)))
        /\ LinesTo(c, Rec(c, e) + 1) = Earlier(EndsIn(c), e + 1)
    BY ONLY <2>1, NextRecord
  <2> QED BY <1>4, <2>2
<1>7. RecordGood(c, k, Append(row, field))
  BY <1>1, <1>4, <1>6, RowIsRecord
<1>8. Append(row, field) \in Seq(Seq(Csv!Chars))
  <2>1. row \in Seq(Seq(Csv!Chars))
    BY DEF CsvInv, CsvTypes
  <2> QED BY <1>3, <2>1, AppendProperties
<1>9. /\ RecordsRead' /\ Len(records') = Len(records) + 1
      /\ records' \in Seq(Seq(Seq(Csv!Chars))) /\ sourceLines' \in Seq(Nat)
  BY <1>1, <1>2, <1>7, <1>8, RecordAdded
<1>10. sourceLine' = 1 + Cardinality(Earlier(EndsIn(c), e + 1)) /\ recordStartLine' = sourceLine'
  <2> DEFINE E == EndsIn(c)
             n == Len(c)
             x == Cardinality(Earlier(E, e))
             y == Cardinality(Earlier(E, e + 1))
  <2>1. E \in SUBSET (1..n) /\ n \in Nat /\ e \in E
    BY <1>3, <1>4, PlacesIn DEF RecEnds
  <2>2. y = x + (IF e \in E THEN 1 ELSE 0)
    <3> HIDE DEF E, n
    <3> QED BY <1>4, <2>1, CountStep
  <2>3. x \in Nat /\ sourceLine = 1 + x
    BY <1>3, <1>4
  <2> HIDE DEF x, y, E
  <2>4. sourceLine' = 1 + y
    BY <1>1, <2>1, <2>2, <2>3
  <2>5. recordStartLine' = sourceLine'
    BY <1>1
  <2> QED BY <2>4, <2>5 DEF y, E
<1>11. /\ Cardinality(Earlier(EndsIn(c), e + 1)) \in Nat /\ Cardinality(Earlier(EndsIn(c), e + 1)) <= Len(c)
  <2>1. e + 1 \in Nat
    BY <1>4
  <2> QED BY <1>3, <2>1, LineBounds
<1>12. CsvTypes'
  <2>1. row' \in Seq(Seq(Csv!Chars)) /\ field' \in Seq(Csv!Chars)
    BY <1>1
  <2>2. sourceLine' \in Nat /\ recordStartLine' \in 1..(sourceLine') /\ sourceLine' <= 1 + Len(content)
    <3> DEFINE y == Cardinality(Earlier(EndsIn(c), e + 1))
    <3>1. y \in Nat /\ y <= Len(content) /\ sourceLine' = 1 + y /\ recordStartLine' = sourceLine'
      BY <1>10, <1>11
    <3>2. Len(content) \in Nat
      BY <1>3
    <3> HIDE DEF y
    <3> QED BY <3>1, <3>2
  <2>3. inQuotes' \in BOOLEAN /\ ~inQuotes' /\ fieldStartedWithQuote' \in BOOLEAN /\ done' \in BOOLEAN
    BY <1>1, <1>2 DEF CsvInv, CsvTypes
  <2>4. index' \in 1..(Len(content) + 1)
    BY <1>4, <1>5
  <2> QED BY <1>2, <1>3, <1>9, <2>1, <2>2, <2>3, <2>4 DEF CsvTypes
<1>13. Out(c, e + 1)
  <2>1. e \in DOMAIN c /\ c[e] # "quote"
    BY <1>4 DEF RecEnds, EndsIn
  <2> QED BY <1>3, <1>4, <2>1, OutStep
<1>14. FieldReads(c, e + 1, field', inQuotes', fieldStartedWithQuote')
  <2>1. PlainField(c, Read(c, e + 1), << >>)
    BY <1>3, <1>6, NothingRead
  <2> QED BY <1>1, <1>2, <2>1 DEF FieldReads
<1>15. Reading'
  <2>1. c' = c /\ Rec(c', index') = k + 1 /\ Fld(c', index') = 1
    BY <1>2, <1>5, <1>6
  <2>2. Len(records) + 1 = k
    BY <1>1 DEF CsvInv, Reading
  <2>3. Len(row') = 0 /\ 1..Len(row') = {}
    <3>1. Len(row') = 0
      BY <1>1
    <3> QED BY <3>1
  <2>4. error' = "" /\ (inQuotes' <=> ~Out(c', index'))
    BY <1>1, <1>2, <1>3, <1>5, <1>13, <2>1
  <2>5. sourceLine' = 1 + Cardinality(Earlier(EndsIn(c'), index'))
    BY <1>5, <1>10, <2>1
  <2>6. recordStartLine' = 1 + Cardinality(LinesTo(c', Rec(c', index')))
    BY <1>6, <1>10, <2>1
  <2> HIDE DEF k
  <2>7. Len(records') + 1 = Rec(c', index') /\ Len(row') + 1 = Fld(c', index')
    BY <1>9, <2>1, <2>2, <2>3
  <2>8. \A g \in 1..Len(row') : FieldGood(c', Txt(c', Rec(c', index'), g), row'[g])
    BY <2>3
  <2>9. FieldReads(c', index', field', inQuotes', fieldStartedWithQuote')
    BY <1>5, <1>14, <2>1
  <2> QED BY <2>4, <2>5, <2>6, <2>7, <2>8, <2>9 DEF Reading
<1>16. ~done'
  BY <1>1, <1>2
<1> QED BY <1>9, <1>12, <1>15, <1>16 DEF CsvInv

\* A file is refused in a field that is malformed, or was opened again.
LEMMA Refuses ==
  ASSUME CsvInv, ~done, content' = content, error' # "", done' = TRUE, records' = records, sourceLines' = sourceLines,
         sourceLine' = sourceLine, recordStartLine' = recordStartLine, inQuotes' = inQuotes,
         fieldStartedWithQuote' = fieldStartedWithQuote, index' = index, row' = row, field' = field,
         NEW t, t = Txt(content, Rec(content, index), Fld(content, index)), ~WellSaid(content, t) \/ Twice(content, t)
  PROVE  CsvInv'
<1>1. CsvTypes /\ RecordsRead
  BY DEF CsvInv
<1>2. content \in Seq(Csv!Chars) /\ index \in Nat
  <2>1. content \in Seq(Csv!Chars) /\ index \in 1..(Len(content) + 1)
    BY <1>1 DEF CsvTypes
  <2>2. Len(content) \in Nat
    BY ONLY <2>1
  <2>3. index \in Nat
    BY ONLY <2>1, <2>2
  <2> QED BY <2>1, <2>3
<1>3. Rec(content, index) \in 1..(1 + Cardinality(RecEnds(content)))
  BY <1>2, RecordStep
<1>4. Fld(content, index) \in 1..(1 + Cardinality(RecCommas(content, Rec(content, index))))
  BY <1>2, FieldType
<1>5. Refused'
  BY <1>3, <1>4 DEF Refused
<1>6. CsvTypes'
  <2>1. done' \in BOOLEAN
    OBVIOUS
  <2> QED BY <1>1, <2>1 DEF CsvTypes
<1>7. RecordsRead'
  BY <1>1 DEF RecordsRead
<1> QED BY <1>5, <1>6, <1>7 DEF CsvInv

\* The field that is read goes on with a character that belongs to it.
LEMMA FieldGoesOn ==
  ASSUME CsvInv, ~done, index <= Len(content), ~inQuotes, content[index] \notin {"comma", "LF", "CR"},
         NEW t, t = Txt(content, Rec(content, index), Fld(content, index))
  PROVE  /\ content \in Seq(Csv!Chars) /\ t \in SUBSET DOMAIN content /\ index \in t /\ Earlier(t, index) = Read(content, index)
         /\ FieldAgain(content, Read(content, index)) => Twice(content, t)
<1>1. /\ content \in Seq(Csv!Chars) /\ index \in DOMAIN content /\ index \in Nat
  BY Here
<1>2. t \in SUBSET DOMAIN content /\ index \in t
  BY <1>1 DEF Txt
<1>3. Earlier(t, index) = Read(content, index)
  BY DEF Read
<1>4. ASSUME FieldAgain(content, Read(content, index)) PROVE Twice(content, t)
  <2> DEFINE s == Read(content, index)
  <2>1. s \subseteq t /\ \A j \in s : \A m \in t \ s : j < m
    <3>1. \A j \in t : j \in Nat
      BY <1>1, <1>2, PlacesIn
    <3>2. \A j \in s : j \in t /\ j < index
      BY <1>3 DEF Earlier
    <3>3. \A m \in t \ s : ~(m < index)
      BY <1>3 DEF Earlier
    <3> QED BY <1>1, <3>1, <3>2, <3>3
  <2> HIDE DEF s
  <2>2. FieldAgain(content, t)
    BY <1>1, <1>2, <1>4, <2>1, StaysAgain DEF s
  <2> QED BY <1>1, <1>2, <2>2, AgainIsTwice
<1> QED BY <1>1, <1>2, <1>3, <1>4

LEMMA StrayStep == ASSUME CsvInv, Csv!StrayQuote PROVE CsvInv'
<1>1. ~done /\ index <= Len(content) /\ ~inQuotes /\ content[index] = "quote" /\ field # << >>
  BY DEF Csv!StrayQuote, Csv!Unquoted, Csv!char, Csv!Quote
<1>2. /\ content' = content /\ error' # "" /\ done' = TRUE /\ records' = records /\ sourceLines' = sourceLines
      /\ sourceLine' = sourceLine /\ recordStartLine' = recordStartLine /\ inQuotes' = inQuotes
      /\ fieldStartedWithQuote' = fieldStartedWithQuote /\ index' = index /\ row' = row /\ field' = field
  BY DEF Csv!StrayQuote, Csv!Fail, Csv!answer, Csv!lines, Csv!state
<1> DEFINE t == Txt(content, Rec(content, index), Fld(content, index))
           s == Read(content, index)
<1>3. /\ content \in Seq(Csv!Chars) /\ t \in SUBSET DOMAIN content /\ index \in t /\ Earlier(t, index) = s
      /\ FieldAgain(content, s) => Twice(content, t)
  BY <1>1, FieldGoesOn
<1>4. FieldAgain(content, s) \/ ClosedField(content, s, field, index) \/ PlainField(content, s, field)
  <2>1. FieldReads(content, index, field, inQuotes, fieldStartedWithQuote)
    BY <1>1, Here
  <2> QED BY <1>1, <2>1 DEF FieldReads
<1> HIDE DEF t, s
<1>5. ~WellSaid(content, t) \/ Twice(content, t)
  <2>1. CASE ClosedField(content, s, field, index)
    BY <1>1, <1>3, <2>1, TrailIsMalformed
  <2>2. CASE PlainField(content, s, field)
    BY <1>1, <1>3, <2>2, StrayIsMalformed
  <2> QED BY <1>3, <1>4, <2>1, <2>2
<1> QED BY <1>1, <1>2, <1>5, Refuses DEF t

LEMMA AfterClosedStep == ASSUME CsvInv, Csv!AfterClosedField PROVE CsvInv'
<1>1. ~done /\ index <= Len(content) /\ ~inQuotes /\ content[index] \notin {"quote", "comma", "LF", "CR"}
      /\ content[index] # "blank" /\ fieldStartedWithQuote
  BY DEF Csv!AfterClosedField, Csv!ClosedField, Csv!Unquoted, Csv!char, Csv!Quote, Csv!Comma, Csv!LF, Csv!CR, Csv!Blank
<1>2. /\ content' = content /\ error' # "" /\ done' = TRUE /\ records' = records /\ sourceLines' = sourceLines
      /\ sourceLine' = sourceLine /\ recordStartLine' = recordStartLine /\ inQuotes' = inQuotes
      /\ fieldStartedWithQuote' = fieldStartedWithQuote /\ index' = index /\ row' = row /\ field' = field
  BY DEF Csv!AfterClosedField, Csv!Fail, Csv!answer, Csv!lines, Csv!state
<1> DEFINE t == Txt(content, Rec(content, index), Fld(content, index))
           s == Read(content, index)
<1>3. /\ content \in Seq(Csv!Chars) /\ t \in SUBSET DOMAIN content /\ index \in t /\ Earlier(t, index) = s
      /\ FieldAgain(content, s) => Twice(content, t)
  BY <1>1, FieldGoesOn
<1>4. FieldAgain(content, s) \/ ClosedField(content, s, field, index)
  <2>1. FieldReads(content, index, field, inQuotes, fieldStartedWithQuote)
    BY <1>1, Here
  <2> QED BY <1>1, <2>1 DEF FieldReads
<1> HIDE DEF t, s
<1>5. ~WellSaid(content, t) \/ Twice(content, t)
  <2>1. CASE ClosedField(content, s, field, index)
    BY <1>1, <1>3, <2>1, TrailIsMalformed
  <2> QED BY <1>3, <1>4, <2>1
<1> QED BY <1>1, <1>2, <1>5, Refuses DEF t

\* At the end of the text the last record is read, if there is anything of it.
LEMMA EndOfFileStep == ASSUME CsvInv, Csv!EndOfFile PROVE CsvInv'
<1>1. /\ ~done /\ index > Len(content) /\ done' = TRUE
      /\ error' = IF inQuotes THEN "unclosed quote" ELSE error
  BY DEF Csv!EndOfFile
<1>2. /\ content' = content /\ sourceLine' = sourceLine /\ recordStartLine' = recordStartLine /\ inQuotes' = inQuotes
      /\ fieldStartedWithQuote' = fieldStartedWithQuote /\ index' = index /\ row' = row /\ field' = field
  BY DEF Csv!EndOfFile, Csv!lines, Csv!state
<1>3. CsvTypes /\ RecordsRead /\ Reading
  BY <1>1 DEF CsvInv
<1> DEFINE c == content
           k == Rec(c, index)
           f == Fld(c, index)
           t == Txt(c, k, f)
<1>4. c \in Seq(Csv!Chars) /\ index \in Nat
  <2>1. content \in Seq(Csv!Chars) /\ index \in 1..(Len(content) + 1)
    BY <1>3 DEF CsvTypes
  <2>2. index \in Nat
    BY <2>1
  <2> QED BY <2>1, <2>2
<1>5. k = 1 + Cardinality(RecEnds(c)) /\ f = 1 + Cardinality(RecCommas(c, k)) /\ Read(c, index) = t
  BY <1>1, <1>4, LastPlace
<1>6. t \in SUBSET DOMAIN c
  BY DEF Txt
<1>7. error = "" /\ FieldReads(c, index, field, inQuotes, fieldStartedWithQuote) /\ Len(records) + 1 = k /\ Len(row) + 1 = f
  BY <1>3 DEF Reading
<1>8. CASE inQuotes
  <2>1. records' = records /\ sourceLines' = sourceLines
    BY <1>8 DEF Csv!EndOfFile, Csv!answer
  <2>2. error' # ""
    BY <1>1, <1>8
  <2>3. FieldAgain(c, t) \/ OpenField(c, t, field, index)
    BY <1>5, <1>7, <1>8 DEF FieldReads
  <2> HIDE DEF t
  <2>4. ~WellSaid(c, t) \/ Twice(c, t)
    <3>1. CASE FieldAgain(c, t)
      BY <1>4, <1>6, <3>1, AgainIsTwice
    <3>2. CASE OpenField(c, t, field, index)
      <4>1. PICK a \in t : Begins(c, t, a) /\ Paired(c, t, {a})
        BY <3>2 DEF OpenField
      <4> QED BY <1>4, <1>6, <4>1, NeverClosed
    <3> QED BY <2>3, <3>1, <3>2
  <2> QED BY <1>1, <1>2, <2>1, <2>2, <2>4, Refuses DEF t
<1>9. CASE ~inQuotes /\ (field # << >> \/ row # << >>)
  <2>1. records' = Append(records, Append(row, field)) /\ sourceLines' = Append(sourceLines, recordStartLine)
    BY <1>9 DEF Csv!EndOfFile
  <2>2. RecordGood(c, k, Append(row, field))
    BY <1>1, <1>5, <1>9, RowIsRecord
  <2>3. Append(row, field) \in Seq(Seq(Csv!Chars))
    <3>1. row \in Seq(Seq(Csv!Chars)) /\ field \in Seq(Csv!Chars)
      BY <1>3 DEF CsvTypes
    <3> QED BY <3>1, AppendProperties
  <2>4. /\ RecordsRead' /\ Len(records') = Len(records) + 1
        /\ records' \in Seq(Seq(Seq(Csv!Chars))) /\ sourceLines' \in Seq(Nat)
    BY <1>1, <1>2, <2>1, <2>2, <2>3, RecordAdded
  <2>5. CsvTypes'
    BY <1>1, <1>2, <1>3, <2>4 DEF CsvTypes
  <2>6. error' = ""
    BY <1>1, <1>7, <1>9
  <2>7. Cardinality(RecEnds(c)) \in Nat
    BY <1>4, RecordStep
  <2> HIDE DEF k
  <2>8. Len(records') = 1 + Cardinality(RecEnds(c))
    BY <1>5, <1>7, <2>4
  <2>9. Accepted'
    <3>1. Len(records') <= 1 + Cardinality(RecEnds(c))
      BY <2>7, <2>8
    <3>2. ASSUME NEW m \in 1..(1 + Cardinality(RecEnds(c))), m > Len(records') PROVE FALSE
      BY <2>7, <2>8, <3>2
    <3> QED BY <1>2, <2>6, <3>1, <3>2 DEF Accepted
  <2> QED BY <1>1, <2>4, <2>5, <2>9 DEF CsvInv
<1>10. CASE ~inQuotes /\ field = << >> /\ row = << >>
  <2>1. records' = records /\ sourceLines' = sourceLines
    BY <1>10 DEF Csv!EndOfFile, Csv!answer
  <2>2. Append(row, field) = << << >> >>
    BY <1>10
  <2>3. RecordGood(c, k, << << >> >>)
    BY <1>1, <1>5, <1>10, <2>2, RowIsRecord
  <2>4. CsvTypes'
    BY <1>1, <1>2, <1>3, <2>1 DEF CsvTypes
  <2>5. RecordsRead'
    BY <1>2, <1>3, <2>1 DEF RecordsRead
  <2>6. error' = ""
    BY <1>1, <1>7, <1>10
  <2>7. Cardinality(RecEnds(c)) \in Nat
    BY <1>4, RecordStep
  <2>8. Len(records) \in Nat
    BY <1>3 DEF CsvTypes
  <2> HIDE DEF k
  <2>9. Len(records) = Cardinality(RecEnds(c)) /\ k = 1 + Cardinality(RecEnds(c))
    <3>1. k = 1 + Cardinality(RecEnds(c)) /\ Len(records) + 1 = k
      BY <1>5, <1>7
    <3> QED BY <2>7, <2>8, <3>1
  <2>10. Accepted'
    <3>1. Len(records') <= 1 + Cardinality(RecEnds(c))
      BY <2>1, <2>7, <2>9
    <3>2. ASSUME NEW m \in 1..(1 + Cardinality(RecEnds(c))), m > Len(records') PROVE RecordGood(c, m, << << >> >>)
      <4>1. m = k
        BY <2>1, <2>7, <2>9, <3>2
      <4> QED BY <2>3, <4>1
    <3> QED BY <1>2, <2>6, <3>1, <3>2 DEF Accepted
  <2> QED BY <1>1, <2>4, <2>5, <2>10 DEF CsvInv
<1> QED BY <1>8, <1>9, <1>10

LEMMA CsvNext == CsvInv /\ [Csv!Next]_(Csv!vars) => CsvInv'
<1> SUFFICES ASSUME CsvInv, [Csv!Next]_(Csv!vars) PROVE CsvInv'
  OBVIOUS
<1>1. CASE UNCHANGED Csv!vars
  <2>1. /\ content' = content /\ done' = done /\ error' = error /\ records' = records /\ sourceLines' = sourceLines
        /\ sourceLine' = sourceLine /\ recordStartLine' = recordStartLine /\ inQuotes' = inQuotes
        /\ fieldStartedWithQuote' = fieldStartedWithQuote /\ index' = index /\ row' = row /\ field' = field
    BY <1>1 DEF Csv!vars, Csv!answer, Csv!lines, Csv!state, Csv!rest
  <2>2. CsvTypes' <=> CsvTypes
    BY <2>1 DEF CsvTypes
  <2>3. RecordsRead' <=> RecordsRead
    BY <2>1 DEF RecordsRead
  <2>4. Reading' <=> Reading
    BY <2>1 DEF Reading
  <2>5. Refused' <=> Refused
    BY <2>1 DEF Refused
  <2>6. Accepted' <=> Accepted
    BY <2>1 DEF Accepted
  <2> QED BY <2>1, <2>2, <2>3, <2>4, <2>5, <2>6 DEF CsvInv
<1>2. CASE Csv!Next
  BY <1>2, EscapedStep, CloseStep, QuotedStep, OpenStep, StrayStep, BlankStep, AfterClosedStep, EndFieldStep, EndRecordStep,
     PlainStep, EndOfFileStep DEF Csv!Next
<1> QED BY <1>1, <1>2

LEMMA CsvAlways == Spec => []CsvInv
<1>1. Init => CsvInv
  BY CsvStarts DEF Init
<1>2. CsvInv /\ [Next]_vars => CsvInv'
  <2> SUFFICES ASSUME CsvInv, [Next]_vars PROVE CsvInv'
    OBVIOUS
  <2>1. [Csv!Next]_(Csv!vars)
    BY DEF Next, vars, InCsv, InUpload, InOverview, csvVars, Csv!vars, Csv!answer, Csv!lines, Csv!state, Csv!rest
  <2> QED BY <2>1, CsvNext
<1> QED BY <1>1, <1>2, PTL DEF Spec


-----------------------------------------------------------------------------
(* The parser: what BatchCsv says of the text                              *)

LEMMA CsvCounts == \A S : Csv!Cardinality(S) = Cardinality(S)
BY DEF Csv!Cardinality, Csv!IsFiniteSet, Cardinality, IsFiniteSet

LEMMA CsvItems == \A list, places : Csv!ItemsAt(list, places) = ItemsAt(list, places)
BY DEF Csv!ItemsAt, ItemsAt, Csv!Cardinality, Csv!IsFiniteSet, Cardinality, IsFiniteSet

LEMMA CsvPlaces ==
  /\ Csv!Quotes = QuotesIn(content) /\ \A i : Csv!Outside(i) = Out(content, i)
  /\ Csv!LineEnds = EndsIn(content) /\ Csv!RecordEnds = RecEnds(content) /\ Csv!Commas = CommasIn(content)
<1>1. Csv!Quotes = QuotesIn(content)
  BY DEF Csv!Quotes, Csv!Quote, QuotesIn
<1>2. ASSUME NEW i PROVE Csv!Outside(i) = Out(content, i)
  <2>1. {j \in Csv!Quotes : j < i} = Earlier(QuotesIn(content), i)
    BY <1>1 DEF Earlier
  <2> QED BY <2>1, CsvCounts DEF Csv!Outside, Out
<1>3. Csv!LineEnds = EndsIn(content)
  BY DEF Csv!LineEnds, Csv!LF, Csv!CR, EndsIn
<1>4. Csv!RecordEnds = RecEnds(content)
  BY <1>2, <1>3 DEF Csv!RecordEnds, RecEnds
<1>5. Csv!Commas = CommasIn(content)
  BY <1>2 DEF Csv!Commas, Csv!Comma, CommasIn
<1> QED BY <1>1, <1>2, <1>3, <1>4, <1>5

LEMMA CsvTexts ==
  /\ \A i : Csv!RecordOf(i) = Rec(content, i) /\ Csv!FieldOf(i) = Fld(content, i)
  /\ \A k : Csv!CommasOf(k) = RecCommas(content, k) /\ Csv!Line(k) = 1 + Cardinality(LinesTo(content, k))
            /\ Csv!FieldsOf(k) = 1..(1 + Cardinality(RecCommas(content, k)))
  /\ \A k, f : Csv!TextOf(k, f) = Txt(content, k, f)
  /\ Csv!AllRecords = 1..(1 + Cardinality(RecEnds(content)))
<1>1. ASSUME NEW i PROVE Csv!RecordOf(i) = Rec(content, i)
  <2>1. {j \in Csv!RecordEnds : j < i} = Earlier(RecEnds(content), i)
    BY CsvPlaces DEF Earlier
  <2> QED BY <2>1, CsvCounts DEF Csv!RecordOf, Rec
<1>2. ASSUME NEW k PROVE Csv!CommasOf(k) = RecCommas(content, k)
  BY <1>1, CsvPlaces DEF Csv!CommasOf, RecCommas
<1>3. ASSUME NEW i PROVE Csv!FieldOf(i) = Fld(content, i)
  <2>1. {j \in Csv!CommasOf(Csv!RecordOf(i)) : j < i} = Earlier(RecCommas(content, Rec(content, i)), i)
    BY <1>1, <1>2 DEF Earlier
  <2> QED BY <2>1, CsvCounts DEF Csv!FieldOf, Fld
<1>4. ASSUME NEW k PROVE Csv!Line(k) = 1 + Cardinality(LinesTo(content, k))
  <2>1. {i \in Csv!LineEnds : Csv!RecordOf(i) < k} = LinesTo(content, k)
    BY <1>1, CsvPlaces DEF LinesTo
  <2> QED BY <2>1, CsvCounts DEF Csv!Line
<1>5. ASSUME NEW k PROVE Csv!FieldsOf(k) = 1..(1 + Cardinality(RecCommas(content, k)))
  BY <1>2, CsvCounts DEF Csv!FieldsOf
<1>6. ASSUME NEW k, NEW f PROVE Csv!TextOf(k, f) = Txt(content, k, f)
  BY <1>1, <1>3, CsvPlaces DEF Csv!TextOf, Txt, Csv!Comma, Csv!LF, Csv!CR
<1>7. Csv!AllRecords = 1..(1 + Cardinality(RecEnds(content)))
  BY CsvPlaces, CsvCounts DEF Csv!AllRecords
<1> QED BY <1>1, <1>2, <1>3, <1>4, <1>5, <1>6, <1>7

LEMMA CsvFields ==
  ASSUME NEW t
  PROVE  /\ Csv!WellFormed(t) <=> WellSaid(content, t)
         /\ Csv!ValueOf(t) = Value(content, t)
         /\ Csv!Reopened(t) <=> Twice(content, t)
<1>1. Csv!QuotesOf(t) = QuotesAmong(content, t)
  BY CsvPlaces DEF Csv!QuotesOf, QuotesAmong
<1>2. Csv!WellFormed(t) <=> WellSaid(content, t)
  BY <1>1, CsvPlaces DEF Csv!WellFormed, WellSaid, Csv!Blank
<1>3. Csv!Reopened(t) <=> Twice(content, t)
  BY <1>1 DEF Csv!Reopened, Twice, Csv!Blank, Csv!Quote
<1>4. {i \in t : /\ \E a, b \in Csv!QuotesOf(t) : a < i /\ i < b
                 /\ content[i] # Csv!Quote \/ ~Csv!Outside(i)} = Inner(content, t)
  BY <1>1, CsvPlaces DEF Inner, Csv!Quote
<1>5. Csv!ValueOf(t) = Value(content, t)
  BY <1>1, <1>4, CsvItems DEF Csv!ValueOf, Value
<1> QED BY <1>2, <1>3, <1>5

\* The fields of a record that is read right, or has one that was opened again.
LEMMA GoodRecord ==
  ASSUME NEW k, NEW r \in Seq(Seq(Csv!Chars)), RecordGood(content, k, r)
  PROVE  /\ \A f \in Csv!FieldsOf(k) : Csv!WellFormed(Csv!TextOf(k, f)) \/ Csv!Reopened(Csv!TextOf(k, f))
         /\ (\A f \in Csv!FieldsOf(k) : Csv!WellFormed(Csv!TextOf(k, f))) => r = Csv!Record(k)
<1>1. Csv!FieldsOf(k) = 1..Len(r) /\ DOMAIN r = 1..Len(r)
  BY CsvTexts DEF RecordGood
<1>2. \A f \in 1..Len(r) : FieldGood(content, Csv!TextOf(k, f), r[f])
  BY CsvTexts DEF RecordGood
<1>3. ASSUME NEW f \in Csv!FieldsOf(k) PROVE Csv!WellFormed(Csv!TextOf(k, f)) \/ Csv!Reopened(Csv!TextOf(k, f))
  BY <1>1, <1>2, CsvFields DEF FieldGood
<1>4. ASSUME \A f \in Csv!FieldsOf(k) : Csv!WellFormed(Csv!TextOf(k, f)) PROVE r = Csv!Record(k)
  <2>1. \A f \in Csv!FieldsOf(k) : r[f] = Csv!ValueOf(Csv!TextOf(k, f))
    BY <1>1, <1>2, <1>4, CsvFields DEF FieldGood
  <2>2. r = [f \in DOMAIN r |-> r[f]]
    OBVIOUS
  <2>3. Csv!Record(k) = [f \in Csv!FieldsOf(k) |-> Csv!ValueOf(Csv!TextOf(k, f))]
    BY DEF Csv!Record
  <2> QED BY <1>1, <2>1, <2>2, <2>3
<1> QED BY <1>3, <1>4

\* What parseCsv reads of a text is what the text says, for texts of any length: it refuses those with a
\* malformed field only, but for one that is opened again, and of the others it returns every record
\* with its fields and the line it begins on (parseCsv).
THEOREM ParserReadsTheFile == Spec => []ParsedAsWritten
<1> SUFFICES ASSUME CsvInv PROVE ParsedAsWritten
  BY CsvAlways, PTL
<1> DEFINE n == Len(records)
<1>1. /\ records \in Seq(Seq(Seq(Csv!Chars))) /\ n \in Nat /\ DOMAIN records = 1..n
      /\ \A k \in 1..n : records[k] \in Seq(Seq(Csv!Chars))
  BY DEF CsvInv, CsvTypes
<1>2. \A k \in 1..n : RecordGood(content, k, records[k]) /\ sourceLines[k] = Csv!Line(k)
  BY CsvTexts DEF CsvInv, RecordsRead
<1>3. Csv!CsvTypeOK
  <2>1. ASSUME NEW k \in 1..n PROVE records[k] # << >>
    <3>1. Len(records[k]) = 1 + Cardinality(RecCommas(content, k))
      BY <1>2 DEF RecordGood
    <3>2. content \in Seq(Csv!Chars) /\ 0 \in Nat
      BY DEF CsvInv, CsvTypes
    <3>3. Cardinality(RecCommas(content, k)) \in Nat
      BY <3>2, FieldStep
    <3>4. Len(records[k]) # 0
      BY <3>1, <3>3
    <3> QED BY <3>4
  <2> QED BY <1>1, <2>1 DEF CsvInv, CsvTypes, RecordsRead, Csv!CsvTypeOK
<1>4. Csv!LinesOfTheFile
  BY <1>1, <1>2 DEF Csv!LinesOfTheFile
<1>5. ASSUME done, error = ""
      PROVE  /\ \A k \in DOMAIN records : k \in Csv!AllRecords
             /\ \A k \in Csv!AllRecords : IF k \in DOMAIN records THEN RecordGood(content, k, records[k])
                                          ELSE RecordGood(content, k, << << >> >>)
  <2>1. Accepted
    BY <1>5 DEF CsvInv, Refused
  <2>2. content \in Seq(Csv!Chars) /\ 0 \in Nat
    BY DEF CsvInv, CsvTypes
  <2>3. Cardinality(RecEnds(content)) \in Nat
    BY <2>2, RecordStep
  <2> DEFINE m == 1 + Cardinality(RecEnds(content))
  <2>4. Csv!AllRecords = 1..m /\ m \in Nat /\ n <= m
    <3>1. Csv!AllRecords = 1..m
      BY CsvTexts
    <3>2. m \in Nat
      BY <2>3
    <3>3. n <= m
      BY <2>1, <3>2 DEF Accepted
    <3> QED BY <3>1, <3>2, <3>3
  <2>5. \A k \in 1..m : k > n => RecordGood(content, k, << << >> >>)
    BY <2>1 DEF Accepted
  <2> HIDE DEF n, m
  <2>6. ASSUME NEW k \in DOMAIN records PROVE k \in Csv!AllRecords
    BY <1>1, <2>4
  <2>7. ASSUME NEW k \in Csv!AllRecords
        PROVE  IF k \in DOMAIN records THEN RecordGood(content, k, records[k]) ELSE RecordGood(content, k, << << >> >>)
    <3>1. CASE k \in DOMAIN records
      BY <1>1, <1>2, <3>1
    <3>2. CASE k \notin DOMAIN records
      <4>1. k > n
        BY <1>1, <2>4, <3>2
      <4> QED BY <2>4, <2>5, <3>2, <4>1
    <3> QED BY <3>1, <3>2
  <2> QED BY <2>6, <2>7
<1>6. << << >> >> \in Seq(Seq(Csv!Chars))
  OBVIOUS
<1>7. Csv!RecordsOfTheFile
  <2> SUFFICES ASSUME done, error = "", Csv!AllWellFormed
               PROVE  /\ \A k \in DOMAIN records : k \in Csv!AllRecords /\ records[k] = Csv!Record(k)
                      /\ \A k \in Csv!AllRecords \ DOMAIN records : Csv!Record(k) = << << >> >>
    BY DEF Csv!RecordsOfTheFile
  <2>1. ASSUME NEW k \in DOMAIN records PROVE k \in Csv!AllRecords /\ records[k] = Csv!Record(k)
    <3>1. k \in Csv!AllRecords /\ records[k] \in Seq(Seq(Csv!Chars)) /\ RecordGood(content, k, records[k])
      BY <1>1, <1>2, <1>5
    <3>2. \A f \in Csv!FieldsOf(k) : Csv!WellFormed(Csv!TextOf(k, f))
      BY <3>1 DEF Csv!AllWellFormed
    <3> QED BY <3>1, <3>2, GoodRecord
  <2>2. ASSUME NEW k \in Csv!AllRecords \ DOMAIN records PROVE Csv!Record(k) = << << >> >>
    <3>1. RecordGood(content, k, << << >> >>)
      BY <1>5
    <3>2. \A f \in Csv!FieldsOf(k) : Csv!WellFormed(Csv!TextOf(k, f))
      BY DEF Csv!AllWellFormed
    <3>3. << << >> >> = Csv!Record(k)
      BY <1>6, <3>1, <3>2, GoodRecord
    <3> QED BY <3>3
  <2> QED BY <2>1, <2>2
<1>8. Csv!RefusedIfMalformed
  <2> SUFFICES ASSUME done, Csv!NoneReopened PROVE error = "" <=> Csv!AllWellFormed
    BY DEF Csv!RefusedIfMalformed
  <2>1. ASSUME error = "" PROVE Csv!AllWellFormed
    <3>1. ASSUME NEW k \in Csv!AllRecords, NEW f \in Csv!FieldsOf(k) PROVE Csv!WellFormed(Csv!TextOf(k, f))
      <4>1. PICK r \in Seq(Seq(Csv!Chars)) : RecordGood(content, k, r)
        BY <1>1, <1>5, <1>6, <2>1
      <4>2. Csv!WellFormed(Csv!TextOf(k, f)) \/ Csv!Reopened(Csv!TextOf(k, f))
        BY <4>1, GoodRecord
      <4> QED BY <4>2 DEF Csv!NoneReopened
    <3> QED BY <3>1 DEF Csv!AllWellFormed
  <2>2. ASSUME error # "" PROVE ~Csv!AllWellFormed
    <3>1. Refused
      BY <2>2 DEF CsvInv, Accepted
    <3>2. PICK k \in Csv!AllRecords : \E f \in Csv!FieldsOf(k) :
            ~WellSaid(content, Csv!TextOf(k, f)) \/ Twice(content, Csv!TextOf(k, f))
      BY <3>1, CsvTexts DEF Refused
    <3>3. PICK f \in Csv!FieldsOf(k) : ~WellSaid(content, Csv!TextOf(k, f)) \/ Twice(content, Csv!TextOf(k, f))
      BY <3>2
    <3>4. ~Csv!WellFormed(Csv!TextOf(k, f))
      BY <3>3, CsvFields DEF Csv!NoneReopened
    <3> QED BY <3>4 DEF Csv!AllWellFormed
  <2> QED BY <2>1, <2>2
<1> QED BY <1>3, <1>4, <1>7, <1>8 DEF ParsedAsWritten, Csv!ParsedAsWritten
==============================================================================
