-------------------------- MODULE ReadingPagesProofs --------------------------
(***************************************************************************)
(* The pages that only read: RowsTruthful and PathContiguous of the audit  *)
(* log for any events, any length of a page and any order of answers,      *)
(* DetailTruthful of the details for any payments and steps, and           *)
(* ListComplete of the list for any payments and any length of a page.     *)
(* Each part takes the steps of its page only, and has an invariant of its *)
(* own.                                                                    *)
(***************************************************************************)
EXTENDS MCReadingPages, SharedLemmas

-----------------------------------------------------------------------------
(* The audit log: what the server answers                                  *)

Rows == [entries : SUBSET (1..Events), nextCursor : Int \cup {Null}]

\* The newest of some events are there, and are among them.
LEMMA NewestAmong ==
  ASSUME NEW n \in Nat, NEW S \in SUBSET (1..n)
  PROVE  Audit!Newest(S) \subseteq S /\ (S # {} => Audit!Newest(S) # {})
<1>1. Audit!Newest(S) \subseteq S
  BY DEF Audit!Newest
<1>2. ASSUME S # {} PROVE Audit!Newest(S) # {}
  <2> DEFINE D == {n - e : e \in S}
  <2>1. D \in SUBSET Nat /\ D # {}
    <3>1. \A e \in S : n - e \in Nat
      OBVIOUS
    <3> QED BY <1>2, <3>1
  <2>2. PICK d \in D : \A c \in D : d <= c
    BY <2>1, Least
  <2>3. PICK m \in S : d = n - m
    OBVIOUS
  <2>4. {e \in S : e > m} = {}
    <3>1. ASSUME NEW e \in S PROVE ~(e > m)
      <4>1. d <= n - e /\ d = n - m /\ e \in 1..n /\ m \in 1..n
        BY <2>2, <2>3
      <4> QED BY <4>1
    <3> QED BY <3>1
  <2>5. Audit!Cardinality({e \in S : e > m}) = 0
    BY <2>4, FS_EmptySet DEF Audit!Cardinality, Audit!IsFiniteSet, Cardinality, IsFiniteSet
  <2>6. 0 < Limit
    BY AuditParameters DEF Audit!AuditAssumption
  <2> QED BY <2>5, <2>6 DEF Audit!Newest
<1> QED BY <1>1, <1>2

\* An answer names events of the server, and its next cursor is one of them.
LEMMA AnswerType ==
  ASSUME NEW f, NEW cursor \in Int \cup {Null}, NEW n \in 0..Events
  PROVE  /\ Audit!getAuditLog(f, cursor, n) \in Rows /\ Audit!getAuditLog(f, cursor, n) # Null
         /\ Audit!getAuditLog(f, cursor, n).entries \subseteq 1..n
         /\ Audit!getAuditLog(f, cursor, n).nextCursor \in 1..n \cup {Null}
<1> DEFINE older == {e \in Audit!Matching(f, n) : cursor = Null \/ e < cursor}
           newest == Audit!Newest(older)
           next == IF newest = older THEN Null ELSE Audit!Min(newest)
<1>1. Audit!getAuditLog(f, cursor, n) = [entries |-> newest, nextCursor |-> next]
  BY DEF Audit!getAuditLog
<1>2. n \in Nat /\ 1..n \subseteq 1..Events /\ older \subseteq 1..n
  BY AuditParameters DEF Audit!AuditAssumption, Audit!Matching
<1>3. newest \subseteq older /\ (older # {} => newest # {})
  BY <1>2, NewestAmong
<1>4. ASSUME newest # older PROVE Audit!Min(newest) \in newest
  <2>1. newest # {} /\ newest \in SUBSET Nat
    <3>1. 1..n \subseteq Nat
      BY <1>2
    <3> HIDE DEF newest, older
    <3> QED BY <1>2, <1>3, <1>4, <3>1
  <2>2. \E m \in newest : \A e \in newest : m <= e
    BY <2>1, Least
  <2> QED BY <2>2 DEF Audit!Min
<1>5. next \in 1..n \cup {Null}
  BY <1>2, <1>3, <1>4
<1> HIDE DEF newest, next
<1>6. Audit!getAuditLog(f, cursor, n) \in Rows
  <2>1. newest \in SUBSET (1..Events) /\ next \in Int \cup {Null}
    BY <1>2, <1>3, <1>5
  <2> QED BY <1>1, <2>1 DEF Rows
<1>7. Null \notin Rows
  BY AuditParameters DEF Audit!AuditAssumption, Rows
<1> QED BY <1>1, <1>2, <1>3, <1>5, <1>6, <1>7

\* What is before a cursor does not change when newer events arrive.
LEMMA AnswerStays ==
  ASSUME NEW f, NEW n \in Nat, NEW cursor \in 1..(n + 1), NEW m \in Nat, n <= m
  PROVE  Audit!getAuditLog(f, cursor, m) = Audit!getAuditLog(f, cursor, n)
<1>1. cursor # Null
  BY AuditParameters DEF Audit!AuditAssumption
<1>2. {e \in Audit!Matching(f, m) : cursor = Null \/ e < cursor}
        = {e \in Audit!Matching(f, n) : cursor = Null \/ e < cursor}
  BY <1>1 DEF Audit!Matching
<1> QED BY <1>2 DEF Audit!getAuditLog

-----------------------------------------------------------------------------
(* The audit log: the page                                                 *)

\* The form, and the timer that holds the values of the form until they are applied.
FormFollows ==
  /\ filterValues \in Audit!FilterValues /\ searchTimer \in {Null, filterValues}
  /\ filters \in Audit!FilterValues /\ Audit!Valid(filters) /\ filterValidationError \in BOOLEAN
  /\ Audit!FiltersFollowForm

\* The path of cursors: behind the first each is an event of the server, and from the second
\* page on each page begins where the one before it ended.
PathLeads ==
  /\ entries \in 0..Events
  /\ navigation.cursors \in Seq(Int \cup {Null}) /\ navigation.cursors[1] = Null
  /\ navigation.index \in 0..(Len(navigation.cursors) - 1)
  /\ \A i \in 2..Len(navigation.cursors) : navigation.cursors[i] \in 1..entries
  /\ Audit!PathContiguous

\* The rows are those of the filters and the current place of the path, as of some moment since
\* their cursor was given.
RowsFit ==
  auditLog # Null =>
    LET cursor == navigation.cursors[navigation.index + 1]
    IN  \E n \in 0..entries : /\ auditLog = Audit!getAuditLog(filters, cursor, n)
                              /\ cursor = Null \/ cursor <= n

\* The card is loading, or shows an error, or rows.
OneShown ==
  /\ isLoading \in BOOLEAN /\ isLoadingPage \in BOOLEAN
  /\ initialError \in Audit!Errors \cup {0} /\ pageError \in Audit!Errors \cup {0}
  /\ isLoading => initialError = 0 /\ auditLog = Null
  /\ initialError # 0 => auditLog = Null
  /\ isLoading \/ initialError # 0 \/ auditLog # Null
  /\ isLoadingPage => auditLog # Null

\* What is asked for: the first page, the page after the one shown, or one of the path.
RequestFits ==
  activeRequest # Null =>
    /\ activeRequest.filters = filters /\ (isLoading \/ isLoadingPage)
    /\ isLoading => activeRequest.index = 0 /\ activeRequest.cursor = Null
    /\ isLoadingPage =>
         \/ /\ activeRequest.index = navigation.index + 1
            /\ activeRequest.cursor = auditLog.nextCursor /\ activeRequest.cursor # Null
         \/ /\ activeRequest.index \in 0..(Len(navigation.cursors) - 1)
            /\ activeRequest.cursor = navigation.cursors[activeRequest.index + 1]

\* The dialog shows a row.
DialogFits ==
  /\ selectedEntry # Null => auditLog # Null /\ selectedEntry \in auditLog.entries
  /\ historyLoad \in {"none", "loading", "loaded", "failed"}
  /\ filterOptions \in {"loading", "loaded", "failed"}
  /\ filterOptionsError \in Audit!Errors \cup {0}

PageInv  == PathLeads /\ RowsFit /\ OneShown /\ RequestFits
AuditInv == FormFollows /\ PageInv /\ DialogFits

LEMMA AuditStarts == Audit!Init => AuditInv
<1> SUFFICES ASSUME Audit!Init PROVE AuditInv
  OBVIOUS
<1> USE DEF Audit!Init, Audit!DEFAULT_AUDIT_FILTERS
<1>1. FormFollows
  BY DEF FormFollows, Audit!FilterValues, Audit!Valid, Audit!FiltersFollowForm
<1>2. PathLeads
  <2>1. navigation.cursors = <<Null>> /\ navigation.index = 0
    BY DEF Audit!FirstPage
  <2> QED BY <2>1 DEF PathLeads, Audit!PathContiguous
<1>3. RowsFit /\ OneShown /\ RequestFits
  BY DEF RowsFit, OneShown, RequestFits, Audit!Errors
<1>4. DialogFits
  BY DEF DialogFits, Audit!Errors
<1> QED BY <1>1, <1>2, <1>3, <1>4 DEF AuditInv, PageInv

\* Everything goes and the first page is asked for.
Renewed ==
  /\ auditLog' = Null /\ isLoading' = TRUE /\ isLoadingPage' = FALSE
  /\ initialError' = 0 /\ pageError' = 0 /\ navigation' = Audit!FirstPage
  /\ activeRequest' = [index |-> 0, cursor |-> Null, filters |-> filters'] /\ entries' = entries

\* Everything goes and an error is shown.
Refused ==
  /\ auditLog' = Null /\ isLoading' = FALSE /\ isLoadingPage' = FALSE
  /\ initialError' \in Audit!Errors /\ pageError' \in Audit!Errors \cup {0}
  /\ navigation' = Audit!FirstPage /\ activeRequest' = Null /\ entries' = entries

\* The page stays as it is while events arrive.
Untouched ==
  /\ UNCHANGED <<auditLog, isLoading, isLoadingPage, initialError, pageError, navigation, filters, activeRequest>>
  /\ entries' \in entries..Events

\* A new path has one page, the first.
LEMMA NewPath ==
  ASSUME PathLeads, navigation' = Audit!FirstPage, entries' = entries
  PROVE  PathLeads'
<1>1. navigation'.cursors = <<Null>> /\ navigation'.index = 0
  BY DEF Audit!FirstPage
<1> QED BY <1>1 DEF PathLeads, Audit!PathContiguous

LEMMA RenewedPage == ASSUME PageInv, Renewed PROVE PageInv'
<1>1. PathLeads'
  BY NewPath DEF PageInv, Renewed
<1>2. RowsFit' /\ OneShown' /\ RequestFits'
  BY DEF Renewed, RowsFit, OneShown, RequestFits, Audit!Errors
<1> QED BY <1>1, <1>2 DEF PageInv

LEMMA RefusedPage == ASSUME PageInv, Refused PROVE PageInv'
<1>1. PathLeads'
  BY NewPath DEF PageInv, Refused
<1>2. RowsFit' /\ RequestFits'
  BY DEF Refused, RowsFit, RequestFits
<1>3. OneShown'
  <2>1. initialError' \in {401, 403, 500} /\ auditLog' = Null /\ isLoading' = FALSE /\ isLoadingPage' = FALSE
    BY DEF Refused, Audit!Errors
  <2>2. initialError' # 0 /\ pageError' \in Audit!Errors \cup {0}
    BY <2>1 DEF Refused
  <2> QED BY <2>1, <2>2 DEF OneShown, Audit!Errors
<1> QED BY <1>1, <1>2, <1>3 DEF PageInv

\* The path stays while events arrive and the filters stay.
LEMMA PathStays ==
  ASSUME PathLeads, UNCHANGED <<navigation, filters>>, entries' \in entries..Events
  PROVE  PathLeads'
<1>1. entries \in 0..Events /\ entries' \in 0..Events /\ entries <= entries' /\ Len(navigation.cursors) \in Nat
  BY AuditParameters DEF PathLeads, Audit!AuditAssumption
<1>2. \A i \in 2..Len(navigation.cursors) : navigation'.cursors[i] \in 1..entries'
  BY <1>1 DEF PathLeads
<1>3. ASSUME NEW i \in 2..(Len(navigation.cursors) - 1)
      PROVE  navigation.cursors[i + 1] = Audit!getAuditLog(filters, navigation.cursors[i], entries').nextCursor
  <2>1. i \in 2..Len(navigation.cursors)
    BY <1>1
  <2>2. navigation.cursors[i] \in 1..(entries + 1)
    BY <1>1, <2>1 DEF PathLeads
  <2>3. Audit!getAuditLog(filters, navigation.cursors[i], entries')
          = Audit!getAuditLog(filters, navigation.cursors[i], entries)
    BY <1>1, <2>2, AnswerStays
  <2> QED BY <2>3 DEF PathLeads, Audit!PathContiguous
<1>4. Audit!PathContiguous'
  <2>1. \A f, c, n : Audit!getAuditLog(f, c, n)' = Audit!getAuditLog(f', c', n')
    OBVIOUS
  <2> QED BY <1>3 DEF Audit!PathContiguous
<1> QED BY <1>1, <1>2, <1>4 DEF PathLeads

LEMMA UntouchedPage == ASSUME PageInv, Untouched PROVE PageInv'
<1>1. PathLeads'
  BY PathStays DEF PageInv, Untouched
<1>2. RowsFit'
  <2> SUFFICES ASSUME auditLog # Null
               PROVE  \E n \in 0..entries' :
                        /\ auditLog = Audit!getAuditLog(filters, navigation.cursors[navigation.index + 1], n)
                        /\ navigation.cursors[navigation.index + 1] = Null
                             \/ navigation.cursors[navigation.index + 1] <= n
    BY DEF RowsFit, Untouched
  <2>1. PICK n \in 0..entries :
          /\ auditLog = Audit!getAuditLog(filters, navigation.cursors[navigation.index + 1], n)
          /\ navigation.cursors[navigation.index + 1] = Null \/ navigation.cursors[navigation.index + 1] <= n
    BY DEF PageInv, RowsFit
  <2>2. n \in 0..entries'
    BY AuditParameters DEF PageInv, PathLeads, Untouched, Audit!AuditAssumption
  <2> QED BY <2>1, <2>2
<1>3. OneShown' /\ RequestFits'
  BY DEF PageInv, Untouched, OneShown, RequestFits
<1> QED BY <1>1, <1>2, <1>3 DEF PageInv

\* What an answer does to the path: nothing, or its page takes the place of what followed.
LEMMA ReachedLeads ==
  ASSUME PathLeads, RowsFit, auditLog # Null, UNCHANGED <<filters, entries>>,
         NEW i \in Nat \ {0}, i = navigation.index + 1,
         auditLog.nextCursor # Null, auditLog.nextCursor \in Int \cup {Null},
         navigation' = [cursors |-> Append(SubSeq(navigation.cursors, 1, i), auditLog.nextCursor), index |-> i]
  PROVE  PathLeads'
<1> DEFINE c == navigation.cursors
           d == navigation'.cursors
           next == auditLog.nextCursor
<1>1. c \in Seq(Int \cup {Null}) /\ i \in 1..Len(c) /\ c[1] = Null /\ Len(c) \in Nat
  BY DEF PathLeads
<1>2. d = Append(SubSeq(c, 1, i), next) /\ navigation'.index = i
  OBVIOUS
<1> HIDE DEF c, d
<1>3. SubSeq(c, 1, i) \in Seq(Int \cup {Null}) /\ Len(SubSeq(c, 1, i)) = i /\ \A j \in 1..i : SubSeq(c, 1, i)[j] = c[j]
  BY <1>1
<1>4. d \in Seq(Int \cup {Null}) /\ Len(d) = i + 1 /\ d[i + 1] = next /\ \A j \in 1..i : d[j] = c[j]
  <2> DEFINE e == SubSeq(c, 1, i)
  <2> HIDE DEF e, next
  <2>1. next \in Int \cup {Null}
    BY DEF next
  <2> QED BY <1>2, <1>3, <2>1 DEF e
<1>5. PICK n \in 0..entries : auditLog = Audit!getAuditLog(filters, c[i], n) /\ (c[i] = Null \/ c[i] <= n)
  BY DEF RowsFit, c
<1>6. entries \in 0..Events /\ n \in 0..Events /\ c[i] \in Int \cup {Null}
  <2>1. entries \in 0..Events
    BY DEF PathLeads
  <2>2. n \in 0..Events
    BY <2>1, AuditParameters DEF Audit!AuditAssumption
  <2> QED BY <1>1, <2>1, <2>2
<1>7. next \in 1..entries
  <2>1. next \in 1..n
    BY <1>5, <1>6, AnswerType
  <2> QED BY <1>6, <2>1
<1>8. \A j \in 2..i : c[j] \in 1..entries
  <2>1. \A j \in 2..Len(c) : c[j] \in 1..entries
    BY DEF PathLeads, c
  <2> QED BY <1>1, <2>1
<1>9. \A j \in 2..(i + 1) : d[j] \in 1..entries
  <2> SUFFICES ASSUME NEW j \in 2..(i + 1) PROVE d[j] \in 1..entries
    OBVIOUS
  <2>1. CASE j = i + 1
    BY <1>4, <1>7, <2>1
  <2>2. CASE j # i + 1
    <3>1. j \in 1..i /\ j \in 2..i
      BY <1>1, <2>2
    <3> QED BY <1>4, <1>8, <3>1
  <2> QED BY <2>1, <2>2
<1>10. ASSUME NEW j \in 2..i PROVE d[j + 1] = Audit!getAuditLog(filters, d[j], entries).nextCursor
  <2>1. CASE j < i
    <3> PICK l \in Nat : l = Len(c)
      BY <1>1
    <3>0. i \in 1..l
      BY <1>1
    <3>1. j \in 2..(Len(c) - 1) /\ j \in 1..i /\ j + 1 \in 1..i
      <4>1. j \in 2..(l - 1) /\ j \in 1..i /\ j + 1 \in 1..i
        BY ONLY <2>1, <3>0, j \in 2..i, l \in Nat, i \in Nat
      <4> QED BY <4>1
    <3>2. c[j + 1] = Audit!getAuditLog(filters, c[j], entries).nextCursor
      BY <3>1 DEF PathLeads, Audit!PathContiguous, c
    <3> QED BY <1>4, <3>1, <3>2
  <2>2. CASE j = i
    <3>1. c[i] \in 1..entries
      BY <1>8, <2>2
    <3>2. c[i] # Null
      BY <1>6, <3>1, AuditParameters DEF Audit!AuditAssumption
    <3>3. c[i] \in 1..(n + 1) /\ n \in Nat /\ entries \in Nat /\ n <= entries
      BY <1>5, <1>6, <3>1, <3>2
    <3>4. Audit!getAuditLog(filters, c[i], entries) = auditLog
      BY <1>5, <3>3, AnswerStays
    <3>5. d[i + 1] = auditLog.nextCursor /\ d[i] = c[i]
      <4>1. i \in 1..i
        BY <1>1
      <4>2. d[i] = c[i]
        BY ONLY <1>4, <4>1
      <4> QED BY ONLY <1>4, <4>2 DEF next
    <3> QED BY ONLY <2>2, <3>4, <3>5
  <2> QED BY <1>1, <2>1, <2>2
<1>11. Audit!PathContiguous'
  <2>1. \A f, e, m : Audit!getAuditLog(f, e, m)' = Audit!getAuditLog(f', e', m')
    OBVIOUS
  <2>2. filters' = filters /\ entries' = entries /\ Len(d) - 1 = i
    BY <1>1, <1>4
  <2> QED BY <1>10, <2>2 DEF Audit!PathContiguous, d
<1>12. d[1] = Null
  BY <1>1, <1>4
<1>13. entries' \in 0..Events /\ i \in 0..(Len(d) - 1) /\ Len(d) = i + 1 /\ entries' = entries
  BY <1>1, <1>4, <1>6
<1> QED BY <1>2, <1>4, <1>9, <1>11, <1>12, <1>13 DEF PathLeads, d

\* The rows of a page arrive.
Arrived ==
  /\ activeRequest # Null /\ activeRequest' = Null
  /\ auditLog' = Audit!getAuditLog(activeRequest.filters, activeRequest.cursor, entries)
  /\ navigation' = IF activeRequest.index = 0 /\ isLoading THEN Audit!FirstPage ELSE Audit!Reached(activeRequest)
  /\ IF isLoading THEN isLoading' = FALSE /\ isLoadingPage' = isLoadingPage
     ELSE isLoadingPage' = FALSE /\ isLoading' = isLoading
  /\ UNCHANGED <<initialError, pageError, filters, entries>>

\* The path with the answer, and the place of the answer in it.
LEMMA ArrivedLeads ==
  ASSUME PageInv, Arrived
  PROVE  PathLeads' /\ navigation'.cursors[navigation'.index + 1] = activeRequest.cursor
           /\ (activeRequest.cursor = Null \/ activeRequest.cursor \in 1..entries)
<1> DEFINE c == navigation.cursors
<1>1. /\ PathLeads /\ RowsFit /\ c \in Seq(Int \cup {Null}) /\ Len(c) \in Nat \ {0} /\ c[1] = Null
      /\ navigation.index \in 0..(Len(c) - 1) /\ \A i \in 2..Len(c) : c[i] \in 1..entries
  BY DEF PageInv, PathLeads
<1>2. isLoading \/ isLoadingPage
  BY DEF PageInv, RequestFits, Arrived
<1>3. CASE isLoading
  <2>1. activeRequest.index = 0 /\ activeRequest.cursor = Null
    BY <1>3 DEF PageInv, RequestFits, Arrived
  <2>2. navigation' = Audit!FirstPage /\ entries' = entries
    BY <1>3, <2>1 DEF Arrived
  <2>3. PathLeads'
    BY <1>1, <2>2, NewPath
  <2>4. navigation'.cursors = <<Null>> /\ navigation'.index = 0
    BY <2>2 DEF Audit!FirstPage
  <2> QED BY <2>1, <2>3, <2>4
<1>4. CASE ~isLoading /\ isLoadingPage
  <2>1. navigation' = Audit!Reached(activeRequest) /\ UNCHANGED <<filters, entries>>
    BY <1>4 DEF Arrived
  <2>2. auditLog # Null
    BY <1>4 DEF PageInv, OneShown
  <2>3. CASE /\ activeRequest.index \in 0..(Len(c) - 1)
             /\ activeRequest.cursor = c[activeRequest.index + 1]
    <3>1. navigation' = [cursors |-> c, index |-> activeRequest.index]
      BY <1>1, <2>1, <2>3 DEF Audit!Reached
    <3>2. navigation'.cursors = c /\ navigation'.index = activeRequest.index
      BY <3>1
    <3>3. Audit!PathContiguous'
      <4>1. UNCHANGED <<filters, entries>> /\ navigation'.cursors = navigation.cursors
        BY <2>1, <3>2
      <4> QED BY <1>1, <4>1 DEF PathLeads, Audit!PathContiguous
    <3>4. PathLeads'
      BY <1>1, <2>1, <2>3, <3>2, <3>3 DEF PathLeads
    <3>5. activeRequest.index + 1 = 1 \/ activeRequest.index + 1 \in 2..Len(c)
      BY <1>1, <2>3
    <3> QED BY <1>1, <2>3, <3>2, <3>4, <3>5
  <2>4. CASE /\ activeRequest.index = navigation.index + 1
             /\ activeRequest.cursor = auditLog.nextCursor /\ activeRequest.cursor # Null
             /\ ~(activeRequest.index < Len(c) /\ c[activeRequest.index + 1] = activeRequest.cursor)
    <3> DEFINE i == activeRequest.index
    <3>1. i \in Nat \ {0} /\ i = navigation.index + 1 /\ i \in 1..Len(c)
      BY <1>1, <2>4
    <3>2. navigation' = [cursors |-> Append(SubSeq(c, 1, i), auditLog.nextCursor), index |-> i]
      BY <2>1, <2>4 DEF Audit!Reached
    <3>3. auditLog.nextCursor \in 1..entries
      <4>1. PICK n \in 0..entries : auditLog = Audit!getAuditLog(filters, c[navigation.index + 1], n)
        BY <1>1, <2>2 DEF RowsFit
      <4>2. c[navigation.index + 1] \in Int \cup {Null} /\ n \in 0..Events /\ entries \in 0..Events
        BY <1>1, AuditParameters DEF PathLeads, Audit!AuditAssumption
      <4>3. auditLog.nextCursor \in 1..n \cup {Null}
        BY <4>1, <4>2, AnswerType
      <4> QED BY <2>4, <4>2, <4>3
    <3>4. PathLeads'
      <4>1. auditLog.nextCursor \in Int \cup {Null} /\ auditLog.nextCursor # Null
        BY <2>4, <3>3
      <4> HIDE DEF i
      <4> QED BY <1>1, <2>1, <2>2, <3>1, <3>2, <4>1, ReachedLeads
    <3>5. Len(SubSeq(c, 1, i)) = i /\ SubSeq(c, 1, i) \in Seq(Int \cup {Null})
      BY <1>1, <3>1
    <3>6. Append(SubSeq(c, 1, i), auditLog.nextCursor)[i + 1] = auditLog.nextCursor
      <4> DEFINE e == SubSeq(c, 1, i)
      <4> HIDE DEF e
      <4> QED BY <3>1, <3>5 DEF e
    <3> QED BY <2>4, <3>2, <3>3, <3>4, <3>6
  <2>5. CASE /\ activeRequest.index = navigation.index + 1
             /\ activeRequest.index < Len(c) /\ c[activeRequest.index + 1] = activeRequest.cursor
    <3>1. activeRequest.index \in 0..(Len(c) - 1)
      BY <1>1, <2>5
    <3> QED BY <2>3, <2>5, <3>1
  <2>6. activeRequest # Null
    BY DEF Arrived
  <2> QED BY <1>4, <2>3, <2>4, <2>5, <2>6 DEF PageInv, RequestFits
<1> QED BY <1>2, <1>3, <1>4

LEMMA ArrivedPage == ASSUME PageInv, Arrived PROVE PageInv'
<1>1. /\ PathLeads' /\ navigation'.cursors[navigation'.index + 1] = activeRequest.cursor
      /\ activeRequest.cursor = Null \/ activeRequest.cursor \in 1..entries
  BY ArrivedLeads
<1>2. entries \in 0..Events /\ entries' = entries /\ filters' = filters /\ activeRequest.filters = filters
  BY DEF PageInv, PathLeads, RequestFits, Arrived
<1>3. auditLog' = Audit!getAuditLog(filters', activeRequest.cursor, entries) /\ activeRequest' = Null
  BY <1>2 DEF Arrived
<1>4. auditLog' # Null
  <2>1. activeRequest.cursor \in Int \cup {Null}
    BY <1>1, <1>2, AuditParameters DEF Audit!AuditAssumption
  <2> QED BY <1>2, <1>3, <2>1, AnswerType
<1>5. RowsFit'
  <2>1. /\ auditLog' = Audit!getAuditLog(filters', navigation'.cursors[navigation'.index + 1], entries)
        /\ navigation'.cursors[navigation'.index + 1] = Null \/ navigation'.cursors[navigation'.index + 1] <= entries
        /\ entries \in 0..entries'
    BY <1>1, <1>2, <1>3, AuditParameters DEF Audit!AuditAssumption
  <2>2. \A f, e, m : Audit!getAuditLog(f, e, m)' = Audit!getAuditLog(f', e', m')
    OBVIOUS
  <2> QED BY <2>1, <2>2 DEF RowsFit
<1>6. RequestFits'
  BY <1>3 DEF RequestFits
<1>7. OneShown'
  <2>1. isLoading \/ isLoadingPage
    BY DEF PageInv, RequestFits, Arrived
  <2>2. initialError = 0 /\ isLoading' = FALSE
    BY <2>1 DEF PageInv, OneShown, Arrived
  <2> QED BY <1>4, <2>2 DEF PageInv, OneShown, Arrived
<1> QED BY <1>1, <1>5, <1>6, <1>7 DEF PageInv

\* A request fails: the error is shown in place of the rows, or under them.
LEMMA FailedPage ==
  ASSUME PageInv, NEW status \in Audit!Errors, Audit!PageFails(status)
  PROVE  PageInv'
<1>1. activeRequest # Null /\ activeRequest' = Null /\ UNCHANGED <<filters, entries>>
  BY DEF Audit!PageFails, Audit!formVars
<1>2. isLoading \/ isLoadingPage
  BY <1>1 DEF PageInv, RequestFits
<1>3. /\ isLoading => isLoading' = FALSE /\ isLoadingPage' = isLoadingPage
      /\ ~isLoading => isLoadingPage' = FALSE /\ isLoading' = isLoading
  BY DEF Audit!PageFails
<1>4. isLoading \in BOOLEAN /\ isLoadingPage \in BOOLEAN /\ (isLoading => ~isLoadingPage)
  BY DEF PageInv, OneShown
<1>5. isLoading' = FALSE /\ isLoadingPage' = FALSE
  BY <1>2, <1>3, <1>4
<1>6. status # 0
  BY DEF Audit!Errors
<1>7. CASE status = 403
  <2>1. auditLog' = Null /\ navigation' = Audit!FirstPage /\ pageError' = 0 /\ initialError' = 403
    BY <1>7 DEF Audit!PageFails, Audit!Fails
  <2>2. Refused
    BY <1>1, <1>5, <2>1 DEF Refused, Audit!Errors
  <2> QED BY <2>2, RefusedPage
<1>8. CASE status # 403
  <2>1. /\ UNCHANGED <<auditLog, navigation>>
        /\ isLoading => initialError' = status /\ pageError' = pageError
        /\ ~isLoading => pageError' = status /\ initialError' = initialError
    BY <1>8 DEF Audit!PageFails, Audit!Fails
  <2>2. PathLeads'
    <3>1. entries' \in entries..Events
      BY <1>1, AuditParameters DEF PageInv, PathLeads, Audit!AuditAssumption
    <3> QED BY <1>1, <2>1, <3>1, PathStays DEF PageInv
  <2>3. RowsFit'
    BY <1>1, <2>1 DEF PageInv, RowsFit
  <2>4. RequestFits'
    BY <1>1 DEF RequestFits
  <2>5. OneShown'
    <3>1. CASE isLoading
      BY <1>5, <1>6, <2>1, <3>1 DEF PageInv, OneShown
    <3>2. CASE ~isLoading
      BY <1>5, <1>6, <2>1, <3>2 DEF PageInv, OneShown
    <3> QED BY <3>1, <3>2
  <2> QED BY <2>2, <2>3, <2>4, <2>5 DEF PageInv
<1> QED BY <1>7, <1>8

\* The first page is asked for again after an error.
LEMMA RetriedPage == ASSUME PageInv, Audit!retryInitialLoad PROVE PageInv'
<1>1. /\ UNCHANGED <<auditLog, isLoadingPage, pageError, navigation, filters, entries>>
      /\ initialError = 500 /\ initialError' = 0 /\ isLoading' = TRUE
      /\ activeRequest' = [index |-> 0, cursor |-> Null, filters |-> filters']
  BY DEF Audit!retryInitialLoad, Audit!formVars, Audit!Request
<1>2. auditLog = Null /\ isLoadingPage = FALSE
  BY <1>1 DEF PageInv, OneShown
<1>3. PathLeads'
  <2>1. entries' \in entries..Events
    BY <1>1, AuditParameters DEF PageInv, PathLeads, Audit!AuditAssumption
  <2> QED BY <1>1, <2>1, PathStays DEF PageInv
<1>4. RowsFit' /\ RequestFits'
  BY <1>1, <1>2 DEF RowsFit, RequestFits
<1>5. OneShown'
  BY <1>1, <1>2 DEF PageInv, OneShown
<1> QED BY <1>3, <1>4, <1>5 DEF PageInv

\* Another page is asked for: the next, or one that was reached.
LEMMA PageAsked ==
  ASSUME PageInv, Audit!loadNextPage \/ \E index \in 0..Events : Audit!loadKnownPage(index)
  PROVE  PageInv'
<1>1. PICK index, cursor :
        /\ Audit!GoTo(index, cursor)
        /\ \/ index = navigation.index + 1 /\ cursor = auditLog.nextCursor /\ cursor # Null
           \/ index \in 0..(Len(navigation.cursors) - 1) /\ cursor = navigation.cursors[index + 1]
  BY DEF Audit!loadNextPage, Audit!loadKnownPage
<1>2. /\ UNCHANGED <<auditLog, isLoading, initialError, navigation, filters, entries>>
      /\ pageError' = 0 /\ isLoadingPage' = TRUE /\ ~isLoading /\ initialError = 0 /\ auditLog # Null
      /\ activeRequest' = [index |-> index, cursor |-> cursor, filters |-> filters']
  BY <1>1 DEF Audit!GoTo, Audit!RowsShown, Audit!formVars, Audit!Request
<1>3. PathLeads'
  <2>1. entries' \in entries..Events
    BY <1>2, AuditParameters DEF PageInv, PathLeads, Audit!AuditAssumption
  <2> QED BY <1>2, <2>1, PathStays DEF PageInv
<1>4. RowsFit'
  BY <1>2 DEF PageInv, RowsFit
<1>5. OneShown'
  BY <1>2 DEF PageInv, OneShown
<1>6. RequestFits'
  <2>1. activeRequest'.index = index /\ activeRequest'.cursor = cursor /\ activeRequest'.filters = filters'
    BY <1>2
  <2> QED BY <1>1, <1>2, <2>1 DEF RequestFits
<1> QED BY <1>3, <1>4, <1>5, <1>6 DEF PageInv

-----------------------------------------------------------------------------
(* The audit log: the form                                                 *)

\* The form is applied as it is: its values are used, or an error is shown.
Applied ==
  /\ filterValues' \in Audit!FilterValues /\ searchTimer' = Null
  /\ IF Audit!Valid(filterValues')
     THEN filters' = filterValues' /\ filterValidationError' = FALSE /\ Renewed
     ELSE filters' = filters /\ filterValidationError' = TRUE /\ Untouched

LEMMA AppliedForm == ASSUME FormFollows, Applied PROVE FormFollows'
<1>1. CASE Audit!Valid(filterValues')
  BY <1>1 DEF FormFollows, Applied, Audit!FiltersFollowForm, Audit!Valid
<1>2. CASE ~Audit!Valid(filterValues')
  BY <1>2 DEF FormFollows, Applied, Audit!FiltersFollowForm, Audit!Valid
<1> QED BY <1>1, <1>2

\* An untouched page, for an action that only writes a part of it that is not listed.
LEMMA NothingArrives ==
  ASSUME PathLeads, UNCHANGED <<Audit!pageVars, filters, activeRequest, entries>>
  PROVE  Untouched
<1>1. entries' \in entries..Events
  BY AuditParameters DEF PathLeads, Audit!AuditAssumption
<1> QED BY <1>1 DEF Untouched, Audit!pageVars

LEMMA applyFiltersApplies ==
  ASSUME PathLeads, FormFollows, NEW values \in Audit!FilterValues, filterValues' = values, searchTimer' = Null,
         Audit!applyFilters(values), entries' = entries
  PROVE  Applied
<1>1. CASE Audit!Valid(values)
  <2>1. Renewed /\ filters' = values /\ filterValidationError' = FALSE
    BY <1>1 DEF Audit!applyFilters, Audit!Request, Renewed
  <2> QED BY <1>1, <2>1 DEF Applied, Audit!Valid
<1>2. CASE ~Audit!Valid(values)
  <2>1. UNCHANGED <<Audit!pageVars, filters, activeRequest, entries>> /\ filterValidationError' = TRUE
    BY <1>2 DEF Audit!applyFilters, Audit!netVars
  <2>2. Untouched
    BY <2>1, NothingArrives
  <2> QED BY <1>2, <2>1, <2>2 DEF Applied, Audit!Valid
<1> QED BY <1>1, <1>2

\* What a step does to the form: nothing, a keystroke, or the form is applied.
Typed ==
  /\ filterValues' \in Audit!FilterValues /\ searchTimer' = filterValues'
  /\ UNCHANGED <<filters, filterValidationError>>

LEMMA TypedForm == ASSUME FormFollows, Typed PROVE FormFollows'
<1>1. filterValues' # Null
  BY AuditParameters DEF Typed, Audit!AuditAssumption
<1> QED BY <1>1 DEF FormFollows, Typed, Audit!FiltersFollowForm

LEMMA ChangedForm ==
  ASSUME PathLeads, FormFollows, NEW values \in Audit!FilterValues, Audit!changeFilters(values)
  PROVE  Applied
BY applyFiltersApplies DEF Audit!changeFilters, Audit!TimerCleared

LEMMA FormSteps ==
  ASSUME PathLeads, FormFollows,
         \/ Audit!SearchTimer \/ Audit!resetFilters \/ Audit!submitFilters
         \/ \E typed \in BOOLEAN : Audit!changeAction(typed)
         \/ \E range \in {"all", "recent", "reversed"} : Audit!changeDates(range)
  PROVE  Applied
<1>1. filterValues \in Audit!FilterValues
  BY DEF FormFollows
<1>2. CASE Audit!SearchTimer
  <2>1. searchTimer = filterValues /\ filterValues' = filterValues /\ searchTimer' = Null /\ entries' = entries
    BY <1>2 DEF Audit!SearchTimer, FormFollows
  <2>2. Audit!applyFilters(filterValues)
    BY <1>2, <2>1 DEF Audit!SearchTimer
  <2> QED BY <1>1, <2>1, <2>2, applyFiltersApplies
<1>3. CASE Audit!resetFilters
  <2>1. Audit!DEFAULT_AUDIT_FILTERS \in Audit!FilterValues
    BY DEF Audit!DEFAULT_AUDIT_FILTERS, Audit!FilterValues
  <2> QED BY <1>3, <2>1, ChangedForm DEF Audit!resetFilters
<1>4. CASE Audit!submitFilters
  BY <1>1, <1>4, ChangedForm DEF Audit!submitFilters
<1>5. ASSUME NEW typed \in BOOLEAN, Audit!changeAction(typed) PROVE Applied
  <2>1. [filterValues EXCEPT !.action = typed] \in Audit!FilterValues
    BY <1>1 DEF Audit!FilterValues
  <2> QED BY <1>5, <2>1, ChangedForm DEF Audit!changeAction
<1>6. ASSUME NEW range \in {"all", "recent", "reversed"}, Audit!changeDates(range) PROVE Applied
  <2>1. [filterValues EXCEPT !.dateRange = range] \in Audit!FilterValues
    BY <1>1 DEF Audit!FilterValues
  <2> QED BY <1>6, <2>1, ChangedForm DEF Audit!changeDates
<1> QED BY <1>2, <1>3, <1>4, <1>5, <1>6

-----------------------------------------------------------------------------
(* The audit log: every step                                               *)

\* What a step does to the dialog: it stays over its rows, it goes, or a row is opened.
DialogStep ==
  /\ historyLoad' \in {"none", "loading", "loaded", "failed"}
  /\ filterOptions' \in {"loading", "loaded", "failed"} /\ filterOptionsError' \in Audit!Errors \cup {0}
  /\ \/ selectedEntry' = Null
     \/ UNCHANGED <<selectedEntry, auditLog>>
     \/ auditLog # Null /\ auditLog' = auditLog /\ selectedEntry' \in auditLog.entries

LEMMA SteppedDialog == ASSUME DialogFits, DialogStep PROVE DialogFits'
<1>1. selectedEntry' # Null => auditLog' # Null /\ selectedEntry' \in auditLog'.entries
  BY DEF DialogFits, DialogStep
<1> QED BY <1>1 DEF DialogFits, DialogStep

LEMMA DialogSteps == ASSUME DialogFits, Audit!Next PROVE DialogStep
<1> USE DEF Audit!pageVars, Audit!dialogVars, Audit!optionVars, Audit!netVars
<1>0. /\ historyLoad \in {"none", "loading", "loaded", "failed"}
      /\ filterOptions \in {"loading", "loaded", "failed"} /\ filterOptionsError \in Audit!Errors \cup {0}
  BY DEF DialogFits
<1>1. ASSUME Audit!PageArrives PROVE DialogStep
  BY <1>0, <1>1 DEF DialogStep, Audit!PageArrives
<1>2. ASSUME NEW status \in Audit!Errors, Audit!PageFails(status) PROVE DialogStep
  BY <1>0, <1>2 DEF DialogStep, Audit!PageFails, Audit!Fails
<1>3. ASSUME Audit!LateAnswer \/ Audit!retryInitialLoad \/ Audit!NewEvent PROVE DialogStep
  BY <1>0, <1>3 DEF DialogStep, Audit!LateAnswer, Audit!retryInitialLoad, Audit!NewEvent
<1>4. ASSUME Audit!loadNextPage \/ \E index \in 0..Events : Audit!loadKnownPage(index) PROVE DialogStep
  BY <1>0, <1>4 DEF DialogStep, Audit!loadNextPage, Audit!loadKnownPage, Audit!GoTo
<1>5. ASSUME NEW typed \in BOOLEAN, Audit!changeSearch(typed) PROVE DialogStep
  BY <1>0, <1>5 DEF DialogStep, Audit!changeSearch
<1>6. ASSUME NEW values, Audit!applyFilters(values), UNCHANGED Audit!optionVars PROVE DialogStep
  <2>1. \/ selectedEntry' = Null /\ historyLoad' = "none"
        \/ UNCHANGED <<auditLog, selectedEntry, historyLoad>>
    BY <1>6 DEF Audit!applyFilters
  <2> QED BY <1>0, <1>6, <2>1 DEF DialogStep
<1>7. ASSUME NEW typed \in BOOLEAN, Audit!changeAction(typed) PROVE DialogStep
  BY <1>6, <1>7 DEF Audit!changeAction, Audit!changeFilters
<1>8. ASSUME NEW range \in {"all", "recent", "reversed"}, Audit!changeDates(range) PROVE DialogStep
  BY <1>6, <1>8 DEF Audit!changeDates, Audit!changeFilters
<1>9. ASSUME Audit!SearchTimer \/ Audit!resetFilters \/ Audit!submitFilters PROVE DialogStep
  BY <1>6, <1>9 DEF Audit!SearchTimer, Audit!resetFilters, Audit!submitFilters, Audit!changeFilters
<1>10. ASSUME Audit!OptionsArrive \/ Audit!retryOptions PROVE DialogStep
  BY <1>0, <1>10 DEF DialogStep, Audit!OptionsArrive, Audit!retryOptions
<1>11. ASSUME NEW status \in Audit!Errors, Audit!OptionsFail(status) PROVE DialogStep
  BY <1>0, <1>11 DEF DialogStep, Audit!OptionsFail
<1>12. ASSUME NEW e \in 1..Events, Audit!OpenEntry(e) PROVE DialogStep
  BY <1>0, <1>12 DEF DialogStep, Audit!OpenEntry, Audit!RowsShown
<1>13. ASSUME Audit!HistoryAnswers \/ Audit!RetryHistory \/ Audit!CloseEntry PROVE DialogStep
  BY <1>0, <1>13 DEF DialogStep, Audit!HistoryAnswers, Audit!RetryHistory, Audit!CloseEntry
<1> QED BY <1>1, <1>2, <1>3, <1>4, <1>5, <1>7, <1>8, <1>9, <1>10, <1>11, <1>12, <1>13 DEF Audit!Next, Audit!Answers

LEMMA RestFits ==
  ASSUME FormFollows, PageInv, UNCHANGED Audit!formVars, UNCHANGED Audit!pageVars,
         activeRequest' = activeRequest, entries' \in entries..Events
  PROVE  FormFollows' /\ PageInv'
<1>1. Untouched
  BY DEF Untouched, Audit!pageVars, Audit!formVars
<1>2. FormFollows'
  BY DEF FormFollows, Audit!formVars, Audit!FiltersFollowForm, Audit!Valid
<1> QED BY <1>1, <1>2, UntouchedPage

LEMMA FormStays == ASSUME FormFollows, UNCHANGED Audit!formVars PROVE FormFollows'
BY DEF FormFollows, Audit!formVars, Audit!FiltersFollowForm, Audit!Valid

LEMMA AuditNext == AuditInv /\ [Audit!Next]_(Audit!vars) => AuditInv'
<1> SUFFICES ASSUME AuditInv, [Audit!Next]_(Audit!vars) PROVE AuditInv'
  OBVIOUS
<1>0. /\ FormFollows /\ PageInv /\ PathLeads /\ DialogFits
      /\ entries \in 0..Events /\ entries \in entries..Events
  <2>1. entries \in 0..Events
    BY DEF AuditInv, PageInv, PathLeads
  <2> QED BY <2>1, AuditParameters DEF AuditInv, PageInv, Audit!AuditAssumption
<1>1. DialogFits'
  <2>1. CASE Audit!Next
    BY <1>0, <2>1, DialogSteps, SteppedDialog
  <2>2. CASE UNCHANGED Audit!vars
    BY <1>0, <2>2 DEF DialogFits, Audit!vars, Audit!pageVars, Audit!dialogVars, Audit!optionVars
  <2> QED BY <2>1, <2>2
<1>2. SUFFICES FormFollows' /\ PageInv'
  BY <1>1 DEF AuditInv
<1>3. CASE Audit!PageArrives
  <2>1. Arrived /\ UNCHANGED Audit!formVars
    BY <1>3 DEF Arrived, Audit!PageArrives, Audit!formVars
  <2> QED BY <1>0, <2>1, FormStays, ArrivedPage
<1>4. ASSUME NEW status \in Audit!Errors, Audit!PageFails(status) PROVE FormFollows' /\ PageInv'
  <2>1. UNCHANGED Audit!formVars
    BY <1>4 DEF Audit!PageFails
  <2> QED BY <1>0, <1>4, <2>1, FormStays, FailedPage
<1>5. CASE Audit!retryInitialLoad
  <2>1. UNCHANGED Audit!formVars
    BY <1>5 DEF Audit!retryInitialLoad
  <2> QED BY <1>0, <1>5, <2>1, FormStays, RetriedPage
<1>6. CASE Audit!loadNextPage \/ \E index \in 0..Events : Audit!loadKnownPage(index)
  <2>1. UNCHANGED Audit!formVars
    BY <1>6 DEF Audit!loadNextPage, Audit!loadKnownPage, Audit!GoTo
  <2> QED BY <1>0, <1>6, <2>1, FormStays, PageAsked
<1>7. ASSUME NEW typed \in BOOLEAN, Audit!changeSearch(typed) PROVE FormFollows' /\ PageInv'
  <2>1. [filterValues EXCEPT !.search = typed] \in Audit!FilterValues
    BY <1>0 DEF FormFollows, Audit!FilterValues
  <2>2. Typed
    BY <1>7, <2>1 DEF Typed, Audit!changeSearch
  <2>3. UNCHANGED <<Audit!pageVars, filters, activeRequest, entries>>
    BY <1>7 DEF Audit!changeSearch, Audit!netVars
  <2> QED BY <1>0, <2>2, <2>3, TypedForm, NothingArrives, UntouchedPage
<1>8. CASE \/ Audit!SearchTimer \/ Audit!resetFilters \/ Audit!submitFilters
           \/ \E typed \in BOOLEAN : Audit!changeAction(typed)
           \/ \E range \in {"all", "recent", "reversed"} : Audit!changeDates(range)
  <2>1. Applied
    BY <1>0, <1>8, FormSteps
  <2>2. PageInv'
    <3>1. Renewed \/ Untouched
      BY <2>1 DEF Applied
    <3> QED BY <1>0, <3>1, RenewedPage, UntouchedPage
  <2> QED BY <1>0, <2>1, <2>2, AppliedForm
<1>9. ASSUME NEW status \in Audit!Errors, Audit!OptionsFail(status) PROVE FormFollows' /\ PageInv'
  <2>1. UNCHANGED Audit!formVars /\ entries' = entries
    BY <1>9 DEF Audit!OptionsFail
  <2>2. CASE status \in {401, 403}
    <3>1. Refused
      BY <1>0, <1>9, <2>1, <2>2 DEF Refused, Audit!OptionsFail, PageInv, OneShown
    <3> QED BY <1>0, <2>1, <3>1, FormStays, RefusedPage
  <2>3. CASE status \notin {401, 403}
    BY <1>0, <1>9, <2>1, <2>3, RestFits DEF Audit!OptionsFail, Audit!netVars
  <2> QED BY <2>2, <2>3
<1>10. CASE Audit!LateAnswer \/ Audit!OptionsArrive \/ Audit!retryOptions
  BY <1>0, <1>10, RestFits DEF Audit!LateAnswer, Audit!OptionsArrive, Audit!retryOptions, Audit!netVars
<1>11. CASE \/ \E e \in 1..Events : Audit!OpenEntry(e)
            \/ Audit!HistoryAnswers \/ Audit!RetryHistory \/ Audit!CloseEntry
  BY <1>0, <1>11, RestFits DEF Audit!OpenEntry, Audit!HistoryAnswers, Audit!RetryHistory, Audit!CloseEntry, Audit!netVars
<1>12. CASE Audit!NewEvent
  <2>1. entries' \in entries..Events
    BY <1>0, <1>12, AuditParameters DEF Audit!NewEvent, Audit!AuditAssumption
  <2> QED BY <1>0, <1>12, <2>1, RestFits DEF Audit!NewEvent, Audit!netVars
<1>13. CASE UNCHANGED Audit!vars
  BY <1>0, <1>13, RestFits DEF Audit!vars, Audit!netVars
<1> QED BY <1>3, <1>4, <1>5, <1>6, <1>7, <1>8, <1>9, <1>10, <1>11, <1>12, <1>13 DEF Audit!Next, Audit!Answers

LEMMA AuditSafe == AuditInv => Audit!RowsTruthful /\ Audit!PathContiguous
<1> SUFFICES ASSUME AuditInv PROVE Audit!RowsTruthful /\ Audit!PathContiguous
  OBVIOUS
<1>0. FormFollows /\ PathLeads /\ RowsFit /\ OneShown /\ DialogFits
  BY DEF AuditInv, PageInv
<1>1. Audit!RowsOfTheFilters
  BY <1>0 DEF RowsFit, Audit!RowsOfTheFilters
<1>2. auditLog # Null => auditLog.entries \subseteq 1..entries
  <2> SUFFICES ASSUME auditLog # Null PROVE auditLog.entries \subseteq 1..entries
    OBVIOUS
  <2>1. PICK n \in 0..entries : auditLog = Audit!getAuditLog(filters, navigation.cursors[navigation.index + 1], n)
    BY <1>0 DEF RowsFit
  <2>2. navigation.cursors[navigation.index + 1] \in Int \cup {Null} /\ entries \in 0..Events
    BY <1>0 DEF PathLeads
  <2>3. n \in 0..Events /\ 1..n \subseteq 1..entries
    BY <2>2, AuditParameters DEF Audit!AuditAssumption
  <2>4. auditLog.entries \subseteq 1..n
    BY <2>1, <2>2, <2>3, AnswerType
  <2> QED BY <2>3, <2>4
<1>3. Audit!AuditTypeOK
  BY <1>0, <1>2 DEF FormFollows, PathLeads, OneShown, DialogFits, Audit!AuditTypeOK
<1>4. Audit!OneOfThree
  <2> DEFINE shown == {x \in 1..3 : CASE x = 1 -> isLoading [] x = 2 -> initialError # 0 [] x = 3 -> auditLog # Null}
  <2>1. \A x : x \in shown <=> \/ x = 1 /\ isLoading
                               \/ x = 2 /\ initialError # 0
                               \/ x = 3 /\ auditLog # Null
    <3>1. isLoading \in BOOLEAN
      BY <1>0 DEF OneShown
    <3>2. 1 \in shown <=> isLoading
      BY <3>1
    <3>3. 2 \in shown <=> initialError # 0
      OBVIOUS
    <3>4. 3 \in shown <=> auditLog # Null
      OBVIOUS
    <3>5. shown \subseteq {1, 2, 3}
      <4> DEFINE Holds(x) == CASE x = 1 -> isLoading [] x = 2 -> initialError # 0 [] x = 3 -> auditLog # Null
      <4>1. shown = {x \in 1..3 : Holds(x)}
        OBVIOUS
      <4> HIDE DEF Holds, shown
      <4>2. shown \subseteq 1..3
        BY <4>1
      <4>3. 1..3 = {1, 2, 3}
        OBVIOUS
      <4> QED BY <4>2, <4>3
    <3> HIDE DEF shown
    <3> QED BY <3>2, <3>3, <3>4, <3>5
  <2>2. shown \in {{1}, {2}, {3}}
    <3> HIDE DEF shown
    <3>1. CASE isLoading
      <4>1. shown = {1}
        BY <1>0, <2>1, <3>1 DEF OneShown
      <4> QED BY <4>1
    <3>2. CASE initialError # 0
      <4>1. shown = {2}
        BY <1>0, <2>1, <3>2 DEF OneShown
      <4> QED BY <4>1
    <3>3. CASE ~isLoading /\ initialError = 0
      <4>1. shown = {3}
        BY <1>0, <2>1, <3>3 DEF OneShown
      <4> QED BY <4>1
    <3> QED BY <3>1, <3>2, <3>3
  <2>3. Cardinality(shown) = 1
    <3> HIDE DEF shown
    <3> QED BY <2>2, FS_Singleton
  <2> QED BY <2>3 DEF Audit!OneOfThree, Audit!Cardinality, Audit!IsFiniteSet, Cardinality, IsFiniteSet
<1> QED BY <1>0, <1>1, <1>3, <1>4 DEF FormFollows, PathLeads, Audit!RowsTruthful

LEMMA AuditAlways == Spec => []AuditInv
<1>1. Init => AuditInv
  BY AuditStarts DEF Init
<1>2. [Next]_vars => [Audit!Next]_(Audit!vars)
  BY DEF Next, InAudit, InDetails, InList, vars, auditVars, Audit!vars, Audit!pageVars, Audit!formVars,
     Audit!optionVars, Audit!dialogVars, Audit!netVars
<1>3. AuditInv /\ [Next]_vars => AuditInv'
  BY <1>2, AuditNext
<1> QED BY <1>1, <1>3, PTL DEF Spec

\* The card shows exactly one of its three things, and the rows are those of the filters the form
\* shows, for any events, page length and order of answers.
THEOREM RowsAreTruthful == Spec => []RowsTruthful
<1>1. AuditInv => RowsTruthful
  BY AuditSafe DEF RowsTruthful
<1> QED BY <1>1, AuditAlways, PTL

\* No event between two page numbers is skipped or shown twice, however many events arrive
\* between two requests.
THEOREM PathIsContiguous == Spec => []PathContiguous
<1>1. AuditInv => PathContiguous
  BY AuditSafe DEF PathContiguous
<1> QED BY <1>1, AuditAlways, PTL

-----------------------------------------------------------------------------
(* The details of a payment                                                *)

Approved == [status |-> "approved", source |-> "manual"]
Rejected == [status |-> "rejected", source |-> "manual"]
Dropped  == [status |-> "rejected", source |-> "payment_rejected"]

StepState == {Details!Open, Approved, Rejected, Dropped}

\* The steps a person decided.
ByHand(st) == {s \in Step : st[s] \in {Approved, Rejected}}

\* The steps of a payment agree: one at most is rejected by hand, it leaves no other one open,
\* and no step is dropped without it.
OneStory(st) ==
  /\ \A s, t \in Step :
       PaymentOf[s] = PaymentOf[t] /\ st[s] = Rejected =>
         /\ st[t] = Rejected => s = t
         /\ st[t] # Details!Open
  /\ \A s \in Step : st[s] = Dropped => \E t \in Step : PaymentOf[t] = PaymentOf[s] /\ st[t] = Rejected

\* The server's steps agree, and every decision has its entry.
ServerTells ==
  /\ step \in [Step -> StepState] /\ activity \subseteq Step
  /\ OneStory(step) /\ ByHand(step) \subseteq activity

\* The request is for what the page asks for now; what it has read agrees, and the entries that
\* were read after the steps have every decision the steps have.
RequestTells ==
  request # Details!NoRequest =>
    /\ request = [key |-> Details!requestKey, phase |-> request.phase, step |-> request.step,
                  activity |-> request.activity]
    /\ paymentId # Null /\ request.phase \in {"sent", "reading", "answered"}
    /\ request.phase # "sent" => request.step \in [Step -> StepState] /\ OneStory(request.step)
    /\ request.phase = "reading" => ByHand(request.step) \subseteq activity
    /\ request.phase = "answered" => ByHand(request.step) \subseteq request.activity

\* What was loaded last are the steps of one moment and the entries they need.
DetailTells ==
  /\ detail.loading = (detail.key = Null)
  /\ detail = Details!INITIAL_DETAIL_STATE \/ detail.key \in [id : Payment, attempt : Nat]
  /\ detail.step # Null =>
       \E st \in [Step -> StepState] :
         /\ OneStory(st)
         /\ detail.step = [s \in Details!StepsOf(detail.key.id) |-> st[s]]
         /\ ByHand(st) \cap Details!StepsOf(detail.key.id) \subseteq detail.activity

\* Without a request the page has its answer.
PageTells ==
  /\ paymentId \in Payment \cup {Null} /\ attempt \in 0..MaxAttempts
  /\ request = Details!NoRequest /\ paymentId # Null => detail.key = Details!requestKey

DetailInv == ServerTells /\ RequestTells /\ DetailTells /\ PageTells

LEMMA DetailStarts == Details!Init => DetailInv
<1> SUFFICES ASSUME Details!Init PROVE DetailInv
  OBVIOUS
<1> USE DEF Details!Init
<1>1. ServerTells
  BY DEF ServerTells, OneStory, ByHand, StepState, Details!Open, Approved, Rejected, Dropped
<1>2. RequestTells
  BY DetailsParameters DEF RequestTells, Details!NewRequest, Details!NoRequest, Details!requestKey,
     Details!DetailsAssumption
<1>3. DetailTells
  BY DEF DetailTells, Details!INITIAL_DETAIL_STATE
<1>4. request # Details!NoRequest
  <2>1. request.phase = "sent" /\ Details!NoRequest.phase = "none"
    BY DEF Details!NewRequest, Details!NoRequest
  <2> QED BY <2>1
<1>5. PageTells
  BY <1>4, DetailsParameters DEF PageTells, Details!DetailsAssumption
<1> QED BY <1>1, <1>2, <1>3, <1>5 DEF DetailInv

\* A decision and the steps it ends agree with the steps there were.
LEMMA DecideTells ==
  ASSUME ServerTells, NEW s \in Step, NEW decision \in {"approved", "rejected"},
         Details!Decide(s, decision)
  PROVE  ServerTells' /\ activity \subseteq activity'
<1> DEFINE Verdict(t) ==
             IF t = s THEN [status |-> decision, source |-> "manual"]
             ELSE IF decision = "rejected" /\ PaymentOf[t] = PaymentOf[s] /\ step[t] = Details!Open
                  THEN Dropped ELSE step[t]
<1>1. step' = [t \in Step |-> Verdict(t)] /\ activity' = activity \cup {s} /\ step[s] = Details!Open
  BY DEF Details!Decide, Details!StepsOf, Dropped
<1>2. /\ decision = "approved" => Verdict(s) = Approved
      /\ decision = "rejected" => Verdict(s) = Rejected
  BY DEF Approved, Rejected
<1>3. \A t \in Step : /\ step'[t] = Verdict(t) /\ step[t] \in StepState
                      /\ t # s => \/ Verdict(t) = step[t]
                                  \/ Verdict(t) = Dropped /\ step[t] = Details!Open /\ decision = "rejected"
                                     /\ PaymentOf[t] = PaymentOf[s]
  BY <1>1 DEF ServerTells
<1>4. Details!Open \notin {Approved, Rejected, Dropped} /\ Approved # Rejected /\ Dropped \notin {Approved, Rejected}
  BY DEF Details!Open, Approved, Rejected, Dropped
<1>5. decision = "rejected" => \A t \in Step : PaymentOf[t] = PaymentOf[s] => step'[t] # Details!Open
  BY <1>1, <1>2, <1>3, <1>4
<1>6. \A t \in Step : PaymentOf[t] = PaymentOf[s] => step[t] # Rejected
  BY <1>1 DEF ServerTells, OneStory
<1> HIDE DEF Verdict
<1>7. step' \in [Step -> StepState]
  BY <1>1, <1>2, <1>3, <1>4 DEF StepState
<1>8. ByHand(step') \subseteq activity'
  BY <1>1, <1>3, <1>4 DEF ServerTells, ByHand
<1>9. OneStory(step')
  <2>1. ASSUME NEW t \in Step, NEW u \in Step, PaymentOf[t] = PaymentOf[u], step'[t] = Rejected
        PROVE  (step'[u] = Rejected => t = u) /\ step'[u] # Details!Open
    <3>1. CASE t = s
      BY <2>1, <3>1, <1>2, <1>3, <1>4, <1>5, <1>6
    <3>2. CASE t # s
      <4>1. step[t] = Rejected
        BY <2>1, <3>2, <1>3, <1>4
      <4>2. u # s /\ step[u] # Details!Open /\ (step[u] = Rejected => t = u)
        BY <2>1, <4>1, <1>1, <1>6 DEF ServerTells, OneStory
      <4> QED BY <4>2, <1>3, <1>4
    <3> QED BY <3>1, <3>2
  <2>2. ASSUME NEW t \in Step, step'[t] = Dropped
        PROVE  \E u \in Step : PaymentOf[u] = PaymentOf[t] /\ step'[u] = Rejected
    <3>1. t # s
      BY <2>2, <1>2, <1>3, <1>4
    <3>2. CASE step[t] = Dropped
      <4>1. PICK u \in Step : PaymentOf[u] = PaymentOf[t] /\ step[u] = Rejected
        BY <3>2 DEF ServerTells, OneStory
      <4>2. u # s
        BY <4>1, <1>1, <1>4
      <4> QED BY <4>1, <4>2, <1>3, <1>4
    <3>3. CASE step[t] # Dropped
      BY <2>2, <3>1, <3>3, <1>2, <1>3
    <3> QED BY <3>2, <3>3
  <2> QED BY <2>1, <2>2 DEF OneStory
<1> QED BY <1>1, <1>7, <1>8, <1>9 DEF ServerTells

\* A new address or attempt is asked for.
LEMMA LoadTells ==
  ASSUME Details!Load, paymentId' \in Payment \cup {Null}
  PROVE  /\ RequestTells'
         /\ paymentId' # Null => request' # Details!NoRequest
<1>1. CASE paymentId' = Null
  BY <1>1 DEF Details!Load, RequestTells
<1>2. CASE paymentId' # Null
  <2>1. request' = Details!NewRequest(paymentId', attempt')
    BY <1>2 DEF Details!Load
  <2>2. request'.phase = "sent" /\ Details!NoRequest.phase = "none"
    BY <2>1 DEF Details!NewRequest, Details!NoRequest
  <2>3. RequestTells'
    BY <1>2, <2>1 DEF RequestTells, Details!NewRequest, Details!requestKey
  <2> QED BY <2>2, <2>3
<1> QED BY <1>1, <1>2

\* A query reads what the server has at that moment.
LEMMA QueryTells ==
  ASSUME ServerTells, RequestTells, Details!Query
  PROVE  RequestTells' /\ request' # Details!NoRequest /\ UNCHANGED <<step, activity>>
<1> DEFINE n == IF request.phase = "sent" THEN 1 ELSE 2
           phase == IF n = 1 THEN "reading" ELSE "answered"
           read == IF Details!Queries[n] = "payment" THEN step ELSE request.step
           entered == IF Details!Queries[n] = "audit entries" THEN activity ELSE request.activity
<1>1. request.phase \in {"sent", "reading"} /\ Details!NoRequest.phase = "none"
  BY DEF Details!Query, Details!NoRequest
<1>2. request # Details!NoRequest
  BY <1>1
<1>3. request = [key |-> Details!requestKey, phase |-> request.phase, step |-> request.step,
                 activity |-> request.activity] /\ paymentId # Null
  BY <1>2 DEF RequestTells
<1>4. request' = [key |-> Details!requestKey, phase |-> phase, step |-> read, activity |-> entered]
  <2>1. request' = [request EXCEPT !.phase = phase, !.step = read, !.activity = entered]
    BY DEF Details!Query
  <2> HIDE DEF phase, read, entered
  <2>2. ASSUME NEW k, NEW p, NEW s, NEW a,
               request = [key |-> k, phase |-> p, step |-> s, activity |-> a]
        PROVE  [request EXCEPT !.phase = phase, !.step = read, !.activity = entered]
                 = [key |-> k, phase |-> phase, step |-> read, activity |-> entered]
    <3> DEFINE one == [request EXCEPT !.phase = phase]
               two == [one EXCEPT !.step = read]
    <3>1. one = [key |-> k, phase |-> phase, step |-> s, activity |-> a]
      BY <2>2
    <3> HIDE DEF one
    <3>2. two = [key |-> k, phase |-> phase, step |-> read, activity |-> a]
      BY <3>1
    <3> HIDE DEF two
    <3>3. [two EXCEPT !.activity = entered]
            = [key |-> k, phase |-> phase, step |-> read, activity |-> entered]
      BY <3>2
    <3> QED BY <3>3 DEF two, one
  <2> QED BY <1>3, <2>1, <2>2
<1>5. UNCHANGED <<step, activity, paymentId, attempt>>
  BY DEF Details!Query, Details!serverVars
<1>6. Details!requestKey' = Details!requestKey
  BY <1>5 DEF Details!requestKey
<1>7. CASE request.phase = "sent"
  <2>1. phase = "reading" /\ read = step
    BY <1>7 DEF Details!Queries
  <2>2. request'.phase = "reading" /\ request'.step = step /\ request'.activity = entered
    BY <1>4, <2>1
  <2> HIDE DEF phase, read, entered
  <2>3. request' = [key |-> Details!requestKey', phase |-> request'.phase, step |-> request'.step,
                    activity |-> request'.activity]
    BY <1>4, <1>6
  <2> QED BY <1>3, <1>5, <2>2, <2>3, <1>1 DEF RequestTells, ServerTells
<1>8. CASE request.phase = "reading"
  <2>1. phase = "answered" /\ read = request.step /\ entered = activity
    BY <1>8 DEF Details!Queries
  <2>2. request.step \in [Step -> StepState] /\ OneStory(request.step) /\ ByHand(request.step) \subseteq activity
    BY <1>2, <1>8 DEF RequestTells
  <2>3. request'.phase = "answered" /\ request'.step = request.step /\ request'.activity = activity
    BY <1>4, <2>1
  <2> HIDE DEF phase, read, entered
  <2>4. request' = [key |-> Details!requestKey', phase |-> request'.phase, step |-> request'.step,
                    activity |-> request'.activity]
    BY <1>4, <1>6
  <2> QED BY <1>3, <1>5, <2>2, <2>3, <2>4, <1>1 DEF RequestTells
<1> QED BY <1>1, <1>7, <1>8

\* An answer, whole or failed, becomes the page's detail.
LEMMA AnswerTells ==
  ASSUME DetailInv, Details!DetailArrives \/ \E status \in {401, 404, 500} : Details!DetailFails(status)
  PROVE  DetailTells' /\ PageTells' /\ request' = Details!NoRequest /\ UNCHANGED <<step, activity>>
<1>1. Details!NoRequest.phase = "none"
  BY DEF Details!NoRequest
<1>2. request # Details!NoRequest /\ request' = Details!NoRequest /\ UNCHANGED <<step, activity, paymentId, attempt>>
  BY <1>1 DEF Details!DetailArrives, Details!DetailFails, Details!serverVars
<1>3. paymentId \in Payment /\ request.key = Details!requestKey
  BY <1>2 DEF DetailInv, RequestTells, PageTells
<1>4. request.key \in [id : Payment, attempt : Nat] /\ request.key # Null /\ request.key.id = paymentId
  BY <1>3, DetailsParameters DEF Details!requestKey, DetailInv, PageTells, Details!DetailsAssumption
<1>5. detail'.key = request.key /\ detail'.loading = FALSE
  BY DEF Details!DetailArrives, Details!DetailFails
<1>6. PageTells'
  BY <1>2, <1>3, <1>5 DEF DetailInv, PageTells, Details!requestKey
<1>7. CASE Details!DetailArrives
  <2>1. /\ request.step \in [Step -> StepState] /\ OneStory(request.step)
        /\ ByHand(request.step) \subseteq request.activity
    BY <1>2, <1>7 DEF DetailInv, RequestTells, Details!DetailArrives
  <2>2. /\ detail'.step = [s \in Details!StepsOf(request.key.id) |-> request.step[s]]
        /\ detail'.activity = request.activity \cap Details!StepsOf(request.key.id)
    BY <1>7 DEF Details!DetailArrives
  <2>3. ByHand(request.step) \cap Details!StepsOf(request.key.id) \subseteq detail'.activity
    BY <2>1, <2>2
  <2>4. \E st \in [Step -> StepState] :
         /\ OneStory(st)
         /\ detail'.step = [s \in Details!StepsOf(detail'.key.id) |-> st[s]]
         /\ ByHand(st) \cap Details!StepsOf(detail'.key.id) \subseteq detail'.activity
    BY <1>5, <2>1, <2>2, <2>3
  <2> QED BY <1>2, <1>4, <1>5, <1>6, <2>4 DEF DetailTells
<1>8. CASE \E status \in {401, 404, 500} : Details!DetailFails(status)
  <2>1. detail'.step = Null
    BY <1>8 DEF Details!DetailFails
  <2> QED BY <1>2, <1>4, <1>5, <1>6, <2>1 DEF DetailTells
<1> QED BY <1>7, <1>8

LEMMA DetailNext == DetailInv /\ [Details!Next]_(Details!vars) => DetailInv'
<1> SUFFICES ASSUME DetailInv, [Details!Next]_(Details!vars) PROVE DetailInv'
  OBVIOUS
<1>0. ServerTells /\ RequestTells /\ DetailTells /\ PageTells
  BY DEF DetailInv
<1>1. ASSUME NEW s \in Step, NEW decision \in {"approved", "rejected"}, Details!Decide(s, decision)
      PROVE  DetailInv'
  <2>1. ServerTells' /\ activity \subseteq activity'
    BY <1>0, <1>1, DecideTells
  <2>2. UNCHANGED <<paymentId, attempt, detail, request>>
    BY <1>1 DEF Details!Decide
  <2>3. RequestTells'
    BY <1>0, <2>1, <2>2 DEF RequestTells, Details!requestKey
  <2>4. DetailTells' /\ PageTells'
    BY <1>0, <2>2 DEF DetailTells, PageTells, Details!requestKey
  <2> QED BY <2>1, <2>3, <2>4 DEF DetailInv
<1>2. ASSUME NEW p \in Payment \cup {Null}, Details!Visit(p) PROVE DetailInv'
  <2>1. Details!Load /\ paymentId' = p /\ UNCHANGED <<step, activity, attempt, detail>>
    BY <1>2 DEF Details!Visit, Details!serverVars
  <2>2. RequestTells' /\ (paymentId' # Null => request' # Details!NoRequest)
    BY <2>1, LoadTells
  <2>3. ServerTells' /\ DetailTells'
    BY <1>0, <2>1 DEF ServerTells, DetailTells
  <2>4. PageTells'
    BY <1>0, <2>1, <2>2 DEF PageTells
  <2> QED BY <2>2, <2>3, <2>4 DEF DetailInv
<1>3. CASE Details!TryAgain
  <2>1. attempt' = attempt + 1 /\ attempt < MaxAttempts /\ UNCHANGED <<step, activity, paymentId, detail>>
    BY <1>3 DEF Details!TryAgain, Details!serverVars
  <2>2. ServerTells' /\ DetailTells'
    BY <1>0, <2>1 DEF ServerTells, DetailTells
  <2>3. attempt' \in 0..MaxAttempts
    BY <1>0, <2>1, DetailsParameters DEF PageTells, Details!DetailsAssumption
  <2>4. CASE paymentId = Null
    <3>1. request = Details!NoRequest /\ request' = request
      BY <1>0, <1>3, <2>4 DEF RequestTells, Details!TryAgain
    <3>2. RequestTells'
      BY <3>1 DEF RequestTells
    <3>3. PageTells'
      BY <1>0, <2>1, <2>3, <2>4 DEF PageTells
    <3> QED BY <2>2, <3>2, <3>3 DEF DetailInv
  <2>5. CASE paymentId # Null
    <3>1. Details!Load
      BY <1>3, <2>5 DEF Details!TryAgain
    <3>2. RequestTells' /\ (paymentId' # Null => request' # Details!NoRequest)
      BY <1>0, <2>1, <3>1, LoadTells DEF PageTells
    <3>3. PageTells'
      BY <1>0, <2>1, <2>3, <2>5, <3>2 DEF PageTells
    <3> QED BY <2>2, <3>2, <3>3 DEF DetailInv
  <2> QED BY <2>4, <2>5
<1>4. CASE Details!Query
  <2>1. RequestTells' /\ request' # Details!NoRequest /\ UNCHANGED <<step, activity>>
    BY <1>0, <1>4, QueryTells
  <2>2. UNCHANGED <<paymentId, attempt, detail>>
    BY <1>4 DEF Details!Query
  <2>3. ServerTells' /\ DetailTells' /\ PageTells'
    BY <1>0, <2>1, <2>2 DEF ServerTells, DetailTells, PageTells
  <2> QED BY <2>1, <2>3 DEF DetailInv
<1>5. CASE Details!DetailArrives \/ \E status \in {401, 404, 500} : Details!DetailFails(status)
  <2>1. DetailTells' /\ PageTells' /\ request' = Details!NoRequest /\ UNCHANGED <<step, activity>>
    BY <1>5, AnswerTells
  <2>2. RequestTells' /\ ServerTells'
    BY <1>0, <2>1 DEF RequestTells, ServerTells
  <2> QED BY <2>1, <2>2 DEF DetailInv
<1>6. CASE Details!LateDetail \/ UNCHANGED Details!vars
  <2>1. UNCHANGED <<step, activity, paymentId, attempt, detail, request>>
    BY <1>6 DEF Details!LateDetail, Details!vars, Details!serverVars
  <2> QED BY <1>0, <2>1 DEF DetailInv, ServerTells, RequestTells, DetailTells, PageTells, Details!requestKey
<1> QED BY <1>1, <1>2, <1>3, <1>4, <1>5, <1>6 DEF Details!Next, Details!Serve

\* What is shown is the steps of one moment, under the address of the page.
LEMMA ShownTells ==
  ASSUME DetailInv, Details!PaymentShown
  PROVE  /\ paymentId # Null /\ Details!displayedDetail = detail /\ detail.key = Details!requestKey
         /\ \E st \in [Step -> StepState] :
              /\ OneStory(st)
              /\ detail.step = [s \in Details!StepsOf(paymentId) |-> st[s]]
              /\ ByHand(st) \cap Details!StepsOf(paymentId) \subseteq detail.activity
<1>1. paymentId # Null /\ detail.key = Details!requestKey /\ Details!displayedDetail = detail
  BY DEF Details!PaymentShown, Details!displayedDetail, Details!INITIAL_DETAIL_STATE
<1>2. detail.step # Null /\ detail.key.id = paymentId
  BY <1>1 DEF Details!PaymentShown, Details!requestKey
<1> QED BY <1>1, <1>2 DEF DetailInv, DetailTells

\* The payment's status as the page computes it from those steps.
LEMMA ShownStatusIs ==
  ASSUME NEW st \in [Step -> StepState], NEW mine \in SUBSET Step,
         mine = Details!StepsOf(paymentId), Details!displayedDetail.step = [s \in mine |-> st[s]]
  PROVE  /\ (\E s \in mine : st[s] = Rejected) => Details!ShownStatus = "rejected"
         /\ (\A s \in mine : st[s] = Approved) => Details!ShownStatus = "completed"
         /\ (\A s \in mine : st[s] # Rejected) /\ (\E s \in mine : st[s] # Approved)
              => Details!ShownStatus = "pending_approval"
<1> DEFINE f == [s \in Step |-> IF s \in DOMAIN Details!displayedDetail.step
                                THEN Details!displayedDetail.step[s] ELSE Details!Open]
<1>1. \A s \in mine : f[s] = st[s] /\ st[s] \in StepState
  OBVIOUS
<1>2. Details!ShownStatus = Details!paymentStatus(f, paymentId)
  BY DEF Details!ShownStatus
<1> HIDE DEF f
<1>3. \A s \in mine : /\ f[s] = [status |-> "rejected", source |-> "manual"] <=> st[s] = Rejected
                      /\ f[s].status = "approved" <=> st[s] = Approved
  BY <1>1 DEF StepState, Details!Open, Approved, Rejected, Dropped
<1>4. Approved # Rejected
  BY DEF Approved, Rejected
<1>5. Details!paymentStatus(f, paymentId) =
        CASE \E s \in mine : st[s] = Rejected -> "rejected"
          [] \A s \in mine : st[s] = Approved -> "completed"
          [] OTHER -> "pending_approval"
  BY <1>3 DEF Details!paymentStatus
<1>6. CASE \E s \in mine : st[s] = Rejected
  BY <1>2, <1>4, <1>5, <1>6
<1>7. CASE \A s \in mine : st[s] = Approved
  BY <1>2, <1>4, <1>5, <1>7
<1>8. CASE ~(\E s \in mine : st[s] = Rejected) /\ ~(\A s \in mine : st[s] = Approved)
  BY <1>2, <1>5, <1>8
<1> QED BY <1>6, <1>7, <1>8, <1>4

\* The words of the steps.
LEMMA Words ==
  /\ Details!statusText(Details!Open) = "waiting for approval"
  /\ Details!statusText(Approved) = "approved"
  /\ Details!statusText(Rejected) = "rejected"
  /\ Details!statusText(Dropped) = "cancelled"
BY DEF Details!statusText, Details!Open, Approved, Rejected, Dropped

LEMMA DetailSafe == DetailInv => Details!DetailTruthful
<1> SUFFICES ASSUME DetailInv PROVE Details!DetailTruthful
  OBVIOUS
<1>0. ServerTells /\ RequestTells /\ DetailTells /\ PageTells
  BY DEF DetailInv
<1>1. Details!DetailsTypeOK
  <2>1. \A s \in Step : /\ step[s].status \in {"pending", "approved", "rejected"}
                        /\ step[s].source \in {"none", "manual", "payment_rejected"}
    <3>1. \A s \in Step : step[s] \in StepState
      BY <1>0 DEF ServerTells
    <3> QED BY <3>1 DEF StepState, Details!Open, Approved, Rejected, Dropped
  <2>2. Details!ApprovalBar \in {"none", "open the approvals", "an attestant has to approve"}
    BY DEF Details!ApprovalBar
  <2> QED BY <1>0, <2>1, <2>2 DEF Details!DetailsTypeOK, ServerTells, DetailTells, PageTells
<1>2. Details!AnsweredIsShown
  <2> SUFFICES ASSUME request = Details!NoRequest PROVE ~Details!displayedDetail.loading
    BY DEF Details!AnsweredIsShown
  <2>1. CASE paymentId = Null
    BY <2>1 DEF Details!displayedDetail, Details!INITIAL_DETAIL_STATE
  <2>2. CASE paymentId # Null
    <3>1. detail.key = Details!requestKey /\ paymentId \in Payment /\ attempt \in Nat
      BY <1>0, <2>2, DetailsParameters DEF PageTells, Details!DetailsAssumption
    <3>2. detail.key # Null
      BY <3>1, DetailsParameters DEF Details!requestKey, Details!DetailsAssumption
    <3>3. detail.loading = FALSE
      BY <1>0, <3>2 DEF DetailTells
    <3> QED BY <2>2, <3>1, <3>3 DEF Details!displayedDetail
  <2> QED BY <2>1, <2>2
<1>3. ASSUME Details!PaymentShown
      PROVE  Details!DetailOfTheAddress /\ Details!TimelineAgrees /\ Details!ActivityCoversTimeline
  <2> DEFINE mine == Details!StepsOf(paymentId)
  <2>1. /\ paymentId # Null /\ Details!displayedDetail = detail /\ detail.key = Details!requestKey
    BY <1>3, ShownTells
  <2>2. PICK st \in [Step -> StepState] :
              /\ OneStory(st)
              /\ detail.step = [s \in mine |-> st[s]]
              /\ ByHand(st) \cap mine \subseteq detail.activity
    BY <1>3, ShownTells
  <2>3. mine = {s \in Step : PaymentOf[s] = paymentId}
    BY DEF Details!StepsOf
  <2>4. /\ (\E s \in mine : st[s] = Rejected) => Details!ShownStatus = "rejected"
        /\ (\A s \in mine : st[s] = Approved) => Details!ShownStatus = "completed"
        /\ (\A s \in mine : st[s] # Rejected) /\ (\E s \in mine : st[s] # Approved)
              => Details!ShownStatus = "pending_approval"
    BY <2>1, <2>2, <2>3, ShownStatusIs
  <2>5. Details!DetailOfTheAddress
    BY <2>1, <2>2 DEF Details!DetailOfTheAddress
  <2>6. \A text : Details!Timeline(text) = {s \in mine : Details!statusText(st[s]) = text}
    BY <2>1, <2>2 DEF Details!Timeline
  <2>7. \A s \in mine : st[s] \in StepState /\ s \in Step
    BY <2>2, <2>3
  <2>8. /\ Details!Timeline("approved") = {s \in mine : st[s] = Approved}
        /\ Details!Timeline("rejected") = {s \in mine : st[s] = Rejected}
        /\ Details!Timeline("waiting for approval") = {s \in mine : st[s] = Details!Open}
        /\ Details!Timeline("cancelled") = {s \in mine : st[s] = Dropped}
    <3> HIDE DEF mine
    <3> QED BY <2>6, <2>7, Words DEF StepState
  <2> HIDE DEF mine
  <2>9. Details!ActivityCoversTimeline
    BY <2>1, <2>2, <2>7, <2>8 DEF Details!ActivityCoversTimeline, ByHand
  <2>10. CASE \E s \in mine : st[s] = Rejected
    <3>1. PICK s \in mine : st[s] = Rejected
      BY <2>10
    <3>2. \A t \in mine : PaymentOf[t] = PaymentOf[s]
      BY <2>3
    <3>3. Details!Timeline("rejected") = {s} /\ Details!Timeline("waiting for approval") = {}
      <4>1. \A t \in mine : (st[t] = Rejected => s = t) /\ st[t] # Details!Open
        BY <2>2, <2>7, <3>1, <3>2 DEF OneStory
      <4> QED BY <2>8, <3>1, <4>1
    <3>4. Cardinality(Details!Timeline("rejected")) = 1
      BY <3>3, FS_Singleton
    <3>5. Details!ShownStatus = "rejected"
      BY <2>4, <3>1
    <3> QED BY <2>5, <2>9, <3>3, <3>4, <3>5 DEF Details!TimelineAgrees, Details!Cardinality, Details!IsFiniteSet, Cardinality, IsFiniteSet
  <2>11. CASE \A s \in mine : st[s] = Approved
    <3>1. Details!ShownStatus = "completed" /\ Details!Timeline("approved") = mine
      BY <2>4, <2>8, <2>11
    <3> QED BY <2>5, <2>9, <3>1 DEF Details!TimelineAgrees, mine
  <2>12. CASE (\A s \in mine : st[s] # Rejected) /\ (\E s \in mine : st[s] # Approved)
    <3>1. \A s \in mine : st[s] \in {Details!Open, Approved}
      <4>1. ASSUME NEW s \in mine, st[s] = Dropped PROVE FALSE
        <5>1. PICK t \in Step : PaymentOf[t] = PaymentOf[s] /\ st[t] = Rejected
          BY <2>2, <2>7, <4>1 DEF OneStory
        <5>2. t \in mine
          BY <2>3, <5>1
        <5> QED BY <2>12, <5>1, <5>2
      <4> QED BY <2>7, <2>12, <4>1 DEF StepState
    <3>2. Details!Open # Dropped /\ Approved # Dropped
      BY DEF Details!Open, Approved, Dropped
    <3>3. /\ Details!Timeline("waiting for approval") # {}
          /\ Details!Timeline("rejected") = {} /\ Details!Timeline("cancelled") = {}
      BY <2>8, <2>12, <3>1, <3>2
    <3>4. Details!ShownStatus = "pending_approval"
      BY <2>4, <2>12
    <3> QED BY <2>5, <2>9, <3>3, <3>4 DEF Details!TimelineAgrees
  <2> QED BY <2>10, <2>11, <2>12
<1>4. ~Details!PaymentShown => Details!DetailOfTheAddress /\ Details!TimelineAgrees /\ Details!ActivityCoversTimeline
  BY DEF Details!DetailOfTheAddress, Details!TimelineAgrees, Details!ActivityCoversTimeline
<1> QED BY <1>1, <1>2, <1>3, <1>4 DEF Details!DetailTruthful

LEMMA DetailAlways == Spec => []DetailInv
<1>1. Init => DetailInv
  BY DetailStarts DEF Init
<1>2. [Next]_vars => [Details!Next]_(Details!vars)
  BY DEF Next, InAudit, InDetails, InList, vars, detailsVars, Details!vars, Details!serverVars
<1>3. DetailInv /\ [Next]_vars => DetailInv'
  BY <1>2, DetailNext
<1> QED BY <1>1, <1>3, PTL DEF Spec

\* The page tells one story of one payment, for any payments, steps and decisions between the two
\* queries of GetPaymentAsync.
THEOREM DetailIsTruthful == Spec => []DetailTruthful
<1>1. DetailInv => DetailTruthful
  BY DetailSafe DEF DetailTruthful
<1> QED BY <1>1, DetailAlways, PTL

-----------------------------------------------------------------------------
(* The payment list                                                        *)

\* The list's copies of the shared operators.
LEMMA ListCounts == \A S : List!Cardinality(S) = Cardinality(S)
BY DEF List!Cardinality, List!IsFiniteSet, Cardinality, IsFiniteSet

LEMMA ListItems == \A list, places : List!ItemsAt(list, places) = ItemsAt(list, places)
BY DEF List!ItemsAt, ItemsAt, List!Cardinality, List!IsFiniteSet, Cardinality, IsFiniteSet

LEMMA ListSlots == \A total, current : List!pageSlots(total, current) = pageSlots(total, current)
BY DEF List!pageSlots, List!UpTo, List!Larger, List!Smaller, List!Ellipsis, pageSlots, UpTo, Larger, Smaller, Ellipsis

LEMMA ListPages ==
  \A total, size, n : List!getPaymentPagination(total, size, n) = getPaymentPagination(total, size, n)
BY ListSlots DEF List!getPaymentPagination, List!Ceiling, List!Smaller, getPaymentPagination, Ceiling, Smaller

Listed == [status : STRING, day : Int, amount : Nat, currency : STRING, account : Nat]

\* What was loaded are some payments of the server, the newest first; while a load is under way
\* or has failed there are none, and then no account is chosen.
ListInv ==
  /\ stored \in 0..Len(Catalog)
  /\ isLoadingList \in BOOLEAN /\ error \in {0, 401, 500}
  /\ data = Null \/ \E n \in 0..stored : data = List!Reverse(SubSeq(Catalog, 1, n))
  /\ isLoadingList \/ error # 0 => data = Null
  /\ accountId \in List!accountOptions \cup {0}
  /\ page \in Nat \ {0}

LEMMA LoadedIs ==
  ASSUME NEW n \in 0..Len(Catalog)
  PROVE  List!Reverse(SubSeq(Catalog, 1, n)) \in Seq(Listed) /\ Len(List!Reverse(SubSeq(Catalog, 1, n))) = n
<1> DEFINE part1 == SubSeq(Catalog, 1, n)
<1>1. Catalog \in Seq(Listed)
  BY ListParameters DEF List!PaymentListAssumption, Listed
<1>2. part1 \in Seq(Listed) /\ Len(part1) = n /\ n \in Nat
  BY <1>1
<1> HIDE DEF part1
<1>3. \A i \in 1..n : part1[(n - i) + 1] \in Listed
  BY <1>2
<1>4. List!Reverse(part1) = [i \in 1..n |-> part1[(n - i) + 1]]
  BY <1>2 DEF List!Reverse
<1> QED BY <1>2, <1>3, <1>4 DEF part1

LEMMA PaymentsAre == ASSUME ListInv PROVE List!payments \in Seq(Listed)
<1>1. CASE data = Null
  BY <1>1 DEF List!payments
<1>2. CASE data # Null
  <2>1. PICK n \in 0..stored : data = List!Reverse(SubSeq(Catalog, 1, n))
    BY <1>2 DEF ListInv
  <2>2. n \in 0..Len(Catalog)
    <3>1. Len(Catalog) \in Nat
      BY ListParameters DEF List!PaymentListAssumption
    <3> QED BY <3>1 DEF ListInv
  <2> QED BY <1>2, <2>1, <2>2, LoadedIs DEF List!payments
<1> QED BY <1>1, <1>2

LEMMA FilteredAre ==
  ASSUME ListInv
  PROVE  List!filteredPayments \in Seq(Listed)
<1> DEFINE places == {i \in DOMAIN List!payments : List!Matches(List!payments[i], listFilters)}
           matching == ItemsAt(List!payments, places)
           chosen == {i \in DOMAIN matching : accountId \in {0, matching[i].account}}
<1>1. List!payments \in Seq(Listed)
  BY PaymentsAre
<1>2. matching \in Seq(Listed)
  <2>1. places \in SUBSET DOMAIN List!payments
    OBVIOUS
  <2> HIDE DEF places
  <2> QED BY <1>1, <2>1, ItemsAtAre
<1>3. List!filteredPayments = ItemsAt(matching, chosen)
  BY ListItems DEF List!filteredPayments, List!filterRecentPayments
<1> HIDE DEF matching
<1>4. chosen \in SUBSET DOMAIN matching
  OBVIOUS
<1> HIDE DEF chosen
<1> QED BY <1>2, <1>3, <1>4, ItemsAtAre

LEMMA ListStarts == List!Init => ListInv
BY ListParameters DEF List!Init, ListInv, List!PaymentListAssumption

\* The number of pages, and the pages the buttons lead to.
LEMMA PagesLead ==
  ASSUME ListInv
  PROVE  /\ List!pagination = getPaymentPagination(Len(List!filteredPayments), PAGE_SIZE, page)
         /\ Len(List!filteredPayments) \in Nat /\ PAGE_SIZE \in Nat \ {0}
         /\ List!pagination.totalPages \in Nat /\ List!pagination.currentPage \in 0..List!pagination.totalPages
         /\ List!pagination.totalPages > 0 => List!pagination.currentPage > 0
         /\ List!pagination.pages = pageSlots(List!pagination.totalPages, List!pagination.currentPage)
<1> DEFINE n == Len(List!filteredPayments)
           p == getPaymentPagination(n, PAGE_SIZE, page)
<1>1. List!pagination = p
  BY ListPages DEF List!pagination
<1>2. n \in Nat /\ PAGE_SIZE \in Nat \ {0} /\ page \in Nat \ {0}
  BY FilteredAre, ListParameters DEF ListInv, List!PaymentListAssumption
<1> HIDE DEF n
<1>3. /\ p.totalPages \in Nat /\ p.pages = pageSlots(p.totalPages, p.currentPage)
      /\ n = 0 => p.totalPages = 0 /\ p.currentPage = 0
      /\ n > 0 => p.currentPage \in 1..p.totalPages
  BY <1>2, PageOf
<1> HIDE DEF p
<1>4. p.currentPage \in 0..p.totalPages /\ (p.totalPages > 0 => p.currentPage > 0)
  <2>1. CASE n = 0
    BY <1>3, <2>1
  <2>2. CASE n > 0
    BY <1>3, <2>2
  <2> QED BY <1>2, <2>1, <2>2
<1> QED BY <1>1, <1>2, <1>3, <1>4 DEF n, p

LEMMA ListNext == ListInv /\ [List!Next]_(List!vars) => ListInv'
<1> SUFFICES ASSUME ListInv, [List!Next]_(List!vars) PROVE ListInv'
  OBVIOUS
<1> USE DEF List!overviewVars
<1>0. Len(Catalog) \in Nat /\ stored \in 0..stored /\ stored \in Nat
  BY ListParameters DEF List!PaymentListAssumption, ListInv
<1>1. ASSUME UNCHANGED data PROVE List!accountOptions' = List!accountOptions
  BY <1>1 DEF List!accountOptions, List!payments
<1>2. data = Null => List!accountOptions = {}
  BY DEF List!accountOptions, List!payments
<1>3. CASE List!OverviewArrives
  <2>1. accountId = 0
    BY <1>2, <1>3 DEF List!OverviewArrives, ListInv
  <2> QED BY <1>0, <1>3, <2>1 DEF List!OverviewArrives, ListInv
<1>4. ASSUME NEW status \in {401, 500}, List!OverviewFails(status) PROVE ListInv'
  <2>1. accountId = 0
    BY <1>2, <1>4 DEF List!OverviewFails, ListInv
  <2> QED BY <1>4, <2>1 DEF List!OverviewFails, ListInv
<1>5. CASE List!retry
  <2>1. accountId = 0
    BY <1>2, <1>5 DEF List!retry, ListInv
  <2> QED BY <1>5, <2>1 DEF List!retry, ListInv
<1>6. ASSUME NEW update, List!changeFilters(update) PROVE ListInv'
  BY <1>1, <1>6 DEF List!changeFilters, ListInv
<1>7. ASSUME \/ \E s \in {List!All, "completed", "pending_approval", "rejected"} : List!changeStatus(s)
             \/ \E d \in {0, 7, 30, 90} : List!changeDateRange(d)
             \/ \E r \in List!Ranges \cup {List!All} : List!changeAmounts(r)
      PROVE  ListInv'
  <2>1. PICK update : List!changeFilters(update)
    <3>1. ASSUME NEW s, List!changeStatus(s) PROVE \E update : List!changeFilters(update)
      BY <3>1 DEF List!changeStatus
    <3>2. ASSUME NEW d, List!changeDateRange(d) PROVE \E update : List!changeFilters(update)
      BY <3>2 DEF List!changeDateRange
    <3>3. ASSUME NEW r, List!changeAmounts(r) PROVE \E update : List!changeFilters(update)
      BY <3>3 DEF List!changeAmounts
    <3> QED BY <1>7, <3>1, <3>2, <3>3
  <2> QED BY <1>6, <2>1
<1>8. CASE List!resetFilters
  BY <1>1, <1>8 DEF List!resetFilters, ListInv
<1>9. ASSUME NEW id, List!chooseAccount(id) PROVE ListInv'
  BY <1>1, <1>9 DEF List!chooseAccount, ListInv
<1>10. ASSUME NEW to \in 0..(List!pagination.totalPages + 1), List!turnPage(to) PROVE ListInv'
  <2>1. /\ List!pagination.totalPages \in Nat /\ List!pagination.currentPage \in 0..List!pagination.totalPages
        /\ List!pagination.totalPages > 0 => List!pagination.currentPage > 0
        /\ List!pagination.pages = pageSlots(List!pagination.totalPages, List!pagination.currentPage)
    BY PagesLead
  <2>2. ToSet(List!pagination.pages) \ {Ellipsis} \subseteq 1..List!pagination.totalPages
    <3> DEFINE t == List!pagination.totalPages
               c == List!pagination.currentPage
    <3> HIDE DEF t, c
    <3>1. t \in Nat /\ c \in 0..t /\ (t > 0 => c > 0)
      BY <2>1 DEF t, c
    <3>2. ToSet(pageSlots(t, c)) \ {Ellipsis} \subseteq 1..t
      BY <3>1, SlotsArePages
    <3> QED BY <2>1, <3>2 DEF t, c
  <2>3. to \in Nat \ {0}
    <3>1. \/ to \in ToSet(List!pagination.pages) \ {Ellipsis}
          \/ to = List!pagination.currentPage - 1 /\ List!pagination.currentPage > 1
          \/ to = List!pagination.currentPage + 1
      BY <1>10 DEF List!turnPage, List!ToSet, List!Ellipsis, ToSet, Ellipsis
    <3> QED BY <2>1, <2>2, <3>1
  <2> QED BY <1>1, <1>10, <2>3 DEF List!turnPage, ListInv
<1>11. CASE List!NewPayment
  <2>1. stored' = stored + 1 /\ stored' \in 0..Len(Catalog) /\ UNCHANGED <<data, isLoadingList, error, listFilters, accountId, page>>
    BY <1>0, <1>11 DEF List!NewPayment, ListInv
  <2>2. \A n \in 0..stored : n \in 0..stored'
    BY <1>0, <2>1
  <2> QED BY <1>1, <2>1, <2>2 DEF ListInv
<1>12. CASE UNCHANGED List!vars
  <2>1. UNCHANGED <<data, isLoadingList, error, listFilters, accountId, page, stored>>
    BY <1>12 DEF List!vars
  <2> QED BY <1>1, <2>1 DEF ListInv
<1>13. ASSUME List!Next PROVE ListInv'
  <2>1. ASSUME List!Answers PROVE ListInv'
    BY <1>3, <1>4, <2>1 DEF List!Answers
  <2>2. ASSUME NEW id \in List!accountOptions \cup {0}, List!chooseAccount(id) PROVE ListInv'
    BY <1>9, <2>2
  <2>3. ASSUME \E to \in 0..(List!pagination.totalPages + 1) : List!turnPage(to) PROVE ListInv'
    BY <1>10, <2>3
  <2> QED BY <1>5, <1>7, <1>8, <1>11, <1>13, <2>1, <2>2, <2>3 DEF List!Next
<1> QED BY <1>12, <1>13

\* The pages follow each other, and the one that is shown is not empty.
LEMMA MatchesArePaged == ASSUME ListInv PROVE List!EveryMatchOnOnePage
<1> DEFINE total == Len(List!filteredPayments)
           Page(n) == getPaymentPagination(total, PAGE_SIZE, n)
           last == Ceiling(total, PAGE_SIZE)
<1>1. /\ List!pagination = Page(page) /\ total \in Nat /\ PAGE_SIZE \in Nat \ {0} /\ page \in Nat \ {0}
      /\ List!filteredPayments \in Seq(Listed)
  BY PagesLead, FilteredAre DEF ListInv
<1> HIDE DEF total
<1>2. last \in Nat /\ (last = 0 <=> total = 0)
  BY <1>1, CeilingIs
<1>3. Page(page).totalPages = last
  BY <1>1, PageOf
<1>4. ASSUME NEW n \in 1..last
      PROVE  /\ Page(n).currentPage = n /\ Page(n).startIndex = (n - 1) * PAGE_SIZE
             /\ Page(n).startIndex < Page(n).endIndex
             /\ n = last => Page(n).endIndex = total
             /\ n < last => Page(n).endIndex = n * PAGE_SIZE
  <2>1. n \in Nat \ {0} /\ total > 0 /\ total \in Nat /\ PAGE_SIZE \in Nat \ {0}
    BY <1>1, <1>2
  <2>2. /\ Page(n).totalPages = last
        /\ Page(n).currentPage = Smaller(n, Page(n).totalPages)
        /\ Page(n).startIndex = (Page(n).currentPage - 1) * PAGE_SIZE
        /\ Page(n).startIndex < Page(n).endIndex
        /\ Page(n).currentPage = Page(n).totalPages => Page(n).endIndex = total
        /\ Page(n).currentPage < Page(n).totalPages => Page(n).endIndex = Page(n).currentPage * PAGE_SIZE
    BY ONLY <2>1, PageOf
  <2> HIDE DEF last, Page
  <2> QED BY <1>2, <2>2 DEF Smaller
<1>5. ASSUME List!visiblePayments = << >> PROVE List!filteredPayments = << >>
  <2> DEFINE f == List!filteredPayments
             p == Page(page)
  <2>1. List!visiblePayments = SubSeq(f, p.startIndex + 1, p.endIndex)
    BY <1>1 DEF List!visiblePayments
  <2>2. ASSUME total > 0 PROVE FALSE
    <3>1. p.startIndex \in Nat /\ p.startIndex < p.endIndex /\ p.endIndex <= total /\ p.endIndex \in Nat
      <4>1. /\ p.startIndex \in Nat /\ p.startIndex < p.endIndex /\ p.endIndex <= total
            /\ p.endIndex = Smaller(p.startIndex + PAGE_SIZE, total)
        BY <1>1, <2>2, PageOf
      <4> HIDE DEF p
      <4> QED BY <1>1, <4>1 DEF Smaller
    <3> HIDE DEF p, f
    <3>2. f \in Seq(Listed) /\ Len(f) = total
      BY <1>1 DEF f, total
    <3>3. Len(SubSeq(f, p.startIndex + 1, p.endIndex)) = p.endIndex - (p.startIndex + 1) + 1
      BY <1>1, <3>1, <3>2
    <3>4. Len(<< >>) = 0
      OBVIOUS
    <3>5. p.endIndex - (p.startIndex + 1) + 1 = 0
      BY <1>5, <2>1, <3>3, <3>4
    <3> QED BY <3>1, <3>5
  <2>3. total = 0
    BY <1>1, <2>2
  <2> QED BY <1>1, <2>3 DEF total
<1>6. \A n \in 1..(last - 1) : Page(n + 1).startIndex = Page(n).endIndex
  <2> SUFFICES ASSUME NEW n \in 1..(last - 1) PROVE Page(n + 1).startIndex = Page(n).endIndex
    OBVIOUS
  <2>1. n \in 1..last /\ n + 1 \in 1..last /\ n < last /\ (n + 1) - 1 = n
    BY <1>2
  <2>2. Page(n + 1).startIndex = ((n + 1) - 1) * PAGE_SIZE
    BY <1>4, <2>1
  <2>3. Page(n).endIndex = n * PAGE_SIZE
    BY <1>4, <2>1
  <2> QED BY <2>1, <2>2, <2>3
<1>7. IF last = 0 THEN total = 0 ELSE Page(1).startIndex = 0 /\ Page(last).endIndex = total
  <2>1. ASSUME last # 0 PROVE Page(1).startIndex = 0 /\ Page(last).endIndex = total
    <3>1. 1 \in 1..last /\ last \in 1..last
      BY <1>2, <2>1
    <3>2. Page(1).startIndex = (1 - 1) * PAGE_SIZE
      BY <1>4, <3>1
    <3>3. (1 - 1) * PAGE_SIZE = 0
      BY <1>1
    <3> QED BY <1>4, <3>1, <3>2, <3>3
  <2> QED BY <1>2, <2>1
<1>8. \A n : List!getPaymentPagination(total, PAGE_SIZE, n) = Page(n)
  BY ListPages
<1>9. List!pagination.totalPages = last
  BY <1>1, <1>3
<1>10. \A n \in 1..last : Page(n).currentPage = n /\ Page(n).startIndex < Page(n).endIndex
  BY <1>4
<1> HIDE DEF last, Page
<1> QED BY <1>5, <1>6, <1>7, <1>8, <1>9, <1>10 DEF List!EveryMatchOnOnePage, total

\* Every amount is in one of the ranges.
LEMMA OneRange ==
  ASSUME NEW cents \in Nat
  PROVE  \E r : {s \in List!Ranges : List!matchesPaymentAmount(cents, s)} = {r}
<1> DEFINE fits == {s \in List!Ranges : List!matchesPaymentAmount(cents, s)}
           Low == cents < 1000000
           Middle == cents >= 1000000 /\ cents < 5000000
           High == cents >= 5000000 /\ cents <= 10000000
           Top == cents > 10000000
<1>1. \/ Low /\ ~Middle /\ ~High /\ ~Top
      \/ ~Low /\ Middle /\ ~High /\ ~Top
      \/ ~Low /\ ~Middle /\ High /\ ~Top
      \/ ~Low /\ ~Middle /\ ~High /\ Top
  BY SMT
<1>2. List!matchesPaymentAmount(cents, "under10000") <=> Low
  BY SMT DEF List!matchesPaymentAmount, List!All
<1>3. List!matchesPaymentAmount(cents, "10000to50000") <=> Middle
  BY SMT DEF List!matchesPaymentAmount, List!All
<1>4. List!matchesPaymentAmount(cents, "50000to100000") <=> High
  BY SMT DEF List!matchesPaymentAmount, List!All
<1>5. List!matchesPaymentAmount(cents, "over100000") <=> Top
  BY SMT DEF List!matchesPaymentAmount, List!All
<1> HIDE DEF Low, Middle, High, Top
<1>6. fits = {s \in {"under10000", "10000to50000", "50000to100000", "over100000"} :
                List!matchesPaymentAmount(cents, s)}
  BY DEF List!Ranges
<1>7. fits \in {{"under10000"}, {"10000to50000"}, {"50000to100000"}, {"over100000"}}
  <2> HIDE DEF fits
  <2>1. ASSUME Low, ~Middle, ~High, ~Top PROVE fits = {"under10000"}
    BY <1>2, <1>3, <1>4, <1>5, <1>6, <2>1
  <2>2. ASSUME ~Low, Middle, ~High, ~Top PROVE fits = {"10000to50000"}
    BY <1>2, <1>3, <1>4, <1>5, <1>6, <2>2
  <2>3. ASSUME ~Low, ~Middle, High, ~Top PROVE fits = {"50000to100000"}
    BY <1>2, <1>3, <1>4, <1>5, <1>6, <2>3
  <2>4. ASSUME ~Low, ~Middle, ~High, Top PROVE fits = {"over100000"}
    BY <1>2, <1>3, <1>4, <1>5, <1>6, <2>4
  <2> QED BY <1>1, <2>1, <2>2, <2>3, <2>4
<1> QED BY <1>7

LEMMA ListSafe == ListInv => List!ListComplete
<1> SUFFICES ASSUME ListInv PROVE List!ListComplete
  OBVIOUS
<1>1. List!PaymentListTypeOK
  <2>1. data = Null \/ \E n \in 0..stored : Len(data) = n
    <3> SUFFICES ASSUME data # Null PROVE \E n \in 0..stored : Len(data) = n
      OBVIOUS
    <3>1. PICK n \in 0..stored : data = List!Reverse(SubSeq(Catalog, 1, n))
      BY DEF ListInv
    <3>2. n \in 0..Len(Catalog)
      <4>1. Len(Catalog) \in Nat
        BY ListParameters DEF List!PaymentListAssumption
      <4> QED BY <4>1 DEF ListInv
    <3> QED BY <3>1, <3>2, LoadedIs
  <2>2. accountId \in Nat
    <3>1. CASE accountId = 0
      BY <3>1
    <3>2. CASE accountId # 0
      <4>1. PICK i \in DOMAIN List!payments : accountId = List!payments[i].account
        BY <3>2 DEF ListInv, List!accountOptions
      <4>2. List!payments[i] \in Listed
        BY PaymentsAre
      <4> QED BY <4>1, <4>2 DEF Listed
    <3> QED BY <3>1, <3>2
  <2> QED BY <2>1, <2>2 DEF List!PaymentListTypeOK, ListInv
<1>2. List!EveryMatchOnOnePage
  BY MatchesArePaged
<1>3. List!SlotsLead
  <2> DEFINE t == List!pagination.totalPages
             c == List!pagination.currentPage
  <2>1. t \in Nat /\ c \in 0..t /\ (t > 0 => c > 0) /\ List!pagination.pages = pageSlots(t, c)
    BY PagesLead
  <2> HIDE DEF t, c
  <2>2. SlotsComplete(pageSlots(t, c), t, c)
    BY <2>1, SlotsAreComplete
  <2>3. \A slots, total, current : SlotsComplete(slots, total, current) = List!SlotsComplete(slots, total, current)
    BY DEF SlotsComplete, List!SlotsComplete, ToSet, List!ToSet, Ellipsis, List!Ellipsis
  <2>4. List!SlotsComplete(List!pagination.pages, t, c)
    BY <2>1, <2>2, <2>3
  <2> QED BY <2>4 DEF List!SlotsLead, t, c
<1>4. List!RangesPart
  <2> SUFFICES ASSUME NEW i \in DOMAIN List!payments
               PROVE  Cardinality({r \in List!Ranges : List!matchesPaymentAmount(List!payments[i].amount, r)}) = 1
    BY ListCounts DEF List!RangesPart
  <2>1. List!payments[i].amount \in Nat
    <3>1. List!payments[i] \in Listed
      BY PaymentsAre
    <3> QED BY <3>1 DEF Listed
  <2> QED BY <2>1, OneRange, FS_Singleton
<1>5. List!AccountOffered
  BY DEF ListInv, List!AccountOffered
<1> QED BY <1>1, <1>2, <1>3, <1>4, <1>5 DEF List!ListComplete

LEMMA ListAlways == Spec => []ListInv
<1>1. Init => ListInv
  BY ListStarts DEF Init
<1>2. [Next]_vars => [List!Next]_(List!vars)
  BY DEF Next, InAudit, InDetails, InList, vars, listVars, List!vars, List!overviewVars
<1>3. ListInv /\ [Next]_vars => ListInv'
  BY <1>2, ListNext
<1> QED BY <1>1, <1>3, PTL DEF Spec

\* Every payment that matches is on one page that can be reached, for any payments, page length
\* and order of filters, pages, loads and failures.
THEOREM ListIsComplete == Spec => []ListComplete
<1>1. ListInv => ListComplete
  BY ListSafe DEF ListComplete
<1> QED BY <1>1, ListAlways, PTL

===============================================================================
