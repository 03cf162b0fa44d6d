------------------------------ MODULE PageNumbers ------------------------------
(***************************************************************************)
(* The arithmetic of the paged lists: which items are on a page, which     *)
(* page numbers are offered, and the path of cursors of a list whose       *)
(* length is not known.                                                    *)
(***************************************************************************)
EXTENDS FilteredLists, SequencesExt

Ellipsis == 0

Larger(a, b)  == IF a > b THEN a ELSE b
Smaller(a, b) == IF a < b THEN a ELSE b
UpTo(a, b)    == [i \in 1..Larger(0, b - a + 1) |-> a + i - 1]

\* Up to seven pages are all offered; of more the first, the last and those around the current.
pageSlots(totalPages, current) ==
  IF totalPages <= 7 THEN UpTo(1, totalPages)
  ELSE LET first == Larger(2, Smaller(current - 1, totalPages - 3))
           last  == Smaller(totalPages - 1, Larger(current + 1, 4))
       IN  <<1>> \o (IF first > 2 THEN <<Ellipsis>> ELSE << >>) \o UpTo(first, last)
                 \o (IF last < totalPages - 1 THEN <<Ellipsis>> ELSE << >>) \o <<totalPages>>

\* The audit log and the batch lists have copies of the same computation.
getReachedPageSlots(knownPages, currentPage) == pageSlots(knownPages, currentPage)
getBatchPageSlots(totalPages, current) == pageSlots(totalPages, current)

\* Mutant: a page that is not full is none.
Floor(a, b) == a \div b

Ceiling(a, b) == (a + b - 1) \div b

\* A page beyond the last one is the last one; no items are no pages.
getPaymentPagination(totalItems, pageSize, page) ==
  LET totalPages  == Ceiling(totalItems, pageSize)
      currentPage == IF totalPages = 0 THEN 0 ELSE Smaller(page, totalPages)
      startIndex  == IF currentPage = 0 THEN 0 ELSE (currentPage - 1) * pageSize
  IN  [currentPage |-> currentPage, totalPages |-> totalPages, startIndex |-> startIndex,
       endIndex |-> Smaller(startIndex + pageSize, totalItems), pages |-> pageSlots(totalPages, currentPage)]

\* The batch lists do the same under other names.
getBatchPagination(total, requestedPage, pageSize) ==
  LET p == getPaymentPagination(total, pageSize, requestedPage)
  IN  [page |-> p.currentPage, totalPages |-> p.totalPages, start |-> p.startIndex, end |-> p.endIndex,
       slots |-> getBatchPageSlots(p.totalPages, p.currentPage)]

\* The path of cursors after a page was loaded: a new one takes the place of what followed, and
\* what followed the page stays only if the page still leads there.
commitBatchCursor(history, index, cursor, nextCursor) ==
  LET known   == index < Len(history.cursors) /\ history.cursors[index + 1] = cursor
      cursors == IF known THEN history.cursors
                 ELSE Append(SubSeq(history.cursors, 1, index), cursor)
  IN  [cursors |-> IF Len(cursors) > index + 1 /\ cursors[index + 2] = nextCursor
                   THEN cursors ELSE SubSeq(cursors, 1, index + 1),
       index |-> index]

-----------------------------------------------------------------------------
(* What is expected of the slots: from every page the first, the last and  *)
(* the neighbours are offered, in order, and an ellipsis hides a page.     *)

SlotsComplete(slots, totalPages, current) ==
  LET numbers == ToSet(slots) \ {Ellipsis}
  IN  /\ Len(slots) <= 7
      /\ {1, current - 1, current, current + 1, totalPages} \cap (1..totalPages) \subseteq numbers
      /\ numbers \subseteq 1..totalPages
      /\ \A i, j \in DOMAIN slots :
           i < j /\ slots[i] # Ellipsis /\ slots[j] # Ellipsis => slots[i] < slots[j]
      /\ \A i \in 1..(Len(slots) - 1) :
           slots[i] # Ellipsis /\ slots[i + 1] # Ellipsis => slots[i + 1] = slots[i] + 1
      /\ \A i \in DOMAIN slots :
           slots[i] = Ellipsis => i \in 2..(Len(slots) - 1) /\ slots[i + 1] - slots[i - 1] >= 2
=============================================================================
