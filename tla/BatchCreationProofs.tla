------------------------- MODULE BatchCreationProofs -------------------------
(***************************************************************************)
(* BatchAllOrNothing, BatchChain and BatchMoney for every number of        *)
(* batches, rows and single payments: a batch that is not committed yet is *)
(* only in the memory of its request, the tenant's lock keeps the log as   *)
(* it is while a transaction adds to it, and what a request knows of an    *)
(* account is true of it or of an older version of it.                     *)
(***************************************************************************)
EXTENDS BatchCreation, SharedLemmas

-----------------------------------------------------------------------------
(* Files and their rows                                                    *)

\* No file has more than MaxRows rows: one of the finitely many files is the longest.
LEMMA RowsBounded ==
  ASSUME NEW f \in Files
  PROVE  /\ Len(f) \in Nat \ {0} /\ DOMAIN f = 1..Len(f)
         /\ MaxRows \in Nat /\ Len(f) <= MaxRows
         /\ \A i \in DOMAIN f : f[i] \in Row
<1> DEFINE Longer(g) == {h \in Files : Len(h) > Len(g)}
           T == {Longer(g) : g \in Files}
           Lengths == {Len(g) : g \in Files}
<1>1. \A g \in Files : g \in Seq(Row) /\ Len(g) \in Nat \ {0} /\ DOMAIN g = 1..Len(g)
  BY BatchAssumption, EmptySeq
<1>2. T \subseteq FiniteSubsetsOf(Files) /\ T # {}
  <2>1. \A g \in Files : Longer(g) \in SUBSET Files /\ IsFiniteSet(Longer(g))
    BY BatchAssumption, FS_Subset
  <2> QED BY <2>1 DEF FiniteSubsetsOf
<1>3. PICK x \in T : \A y \in T : <<y, x>> \notin StrictSubsetOrdering(Files)
  <2>1. IsWellFoundedOn(StrictSubsetOrdering(Files), FiniteSubsetsOf(Files))
    BY FS_StrictSubsetOrderingWellFounded
  <2> HIDE DEF T
  <2> QED BY <1>2, <2>1, WFMin
<1>4. PICK g \in Files : x = Longer(g)
  OBVIOUS
<1>5. ASSUME NEW h \in Files, Len(h) > Len(g) PROVE FALSE
  <2>1. Longer(h) \subseteq Longer(g) /\ h \in Longer(g) /\ h \notin Longer(h)
    BY <1>1, <1>5
  <2>2. <<Longer(h), Longer(g)>> \in StrictSubsetOrdering(Files)
    BY <2>1 DEF StrictSubsetOrdering
  <2> QED BY <2>2, <1>3, <1>4
<1>6. Len(g) \in Lengths /\ \A n \in Lengths : Len(g) >= n
  BY <1>1, <1>5
<1>7. MaxRows \in Lengths /\ \A n \in Lengths : MaxRows >= n
  <2> HIDE DEF Lengths
  <2> QED BY <1>6 DEF MaxRows, Max, Lengths
<1>8. \A i \in DOMAIN f : f[i] \in Row
  BY <1>1, ElementOfSeq
<1> QED BY <1>1, <1>7, <1>8

-----------------------------------------------------------------------------
(* All rows of a batch or none                                             *)

PaymentNames == (Batches \X (1..MaxRows)) \cup Singles

PcLabels == {"idle", "validate", "debit", "lock", "insert", "append", "log", "commit",
             "finally", "done"}

TypeInv ==
  /\ payments \in [PaymentNames -> Payment \cup {Null}]
  /\ pc \in [Batches -> PcLabels]
  /\ file \in [Batches -> Files \cup {<<>>}]
  /\ at \in [Batches -> Nat]
  /\ reply = [b \in Batches |-> reply[b]]
  /\ entries = [b \in Batches |-> entries[b]]

\* The entries of a log that describe payment p, and a log with one of them.
For(log, p) == {e \in log : e.payment = p}
One(log, p) == \E e \in log : For(log, p) = {e}

Over(b) == pc[b] \in {"finally", "done"}

\* No row of the batch was stored or audited; or each of them was.
Clean(b) == \A i \in Nat : <<b, i>> \notin Stored /\ For(audit, <<b, i>>) = {}
Saved(b) == \A i \in RowsOf(b) : <<b, i>> \in Stored /\ One(audit, <<b, i>>)

\* The rows whose entries the open transaction has added.
Written(b) ==
  {i \in RowsOf(b) : \/ pc[b] = "append" /\ i < at[b]
                     \/ pc[b] = "log" /\ i <= at[b]
                     \/ pc[b] = "commit"}

\* The open transaction has one entry of each row that was handled, and no other.
Drafted(b) ==
  /\ \A e \in entries[b] : \E i \in RowsOf(b) : e.payment = <<b, i>>
  /\ \A i \in RowsOf(b) : IF i \in Written(b) THEN One(entries[b], <<b, i>>)
                                              ELSE For(entries[b], <<b, i>>) = {}

BatchOk(b) ==
  /\ ~Over(b) => Clean(b) /\ reply[b] = "none" /\ Drafted(b)
  /\ ~Over(b) /\ pc[b] # "idle" => file[b] \in Files /\ at[b] \in RowsOf(b)
  /\ pc[b] = "idle" => file[b] = <<>>
  /\ pc[b] \in {"idle", "lock", "insert"} => at[b] = 1
  /\ Over(b) => \/ Clean(b) /\ reply[b] # "created"
                \/ Saved(b) /\ reply[b] \notin Refusals

Inv == TypeInv /\ \A b \in Batches : BatchOk(b)

\* The invariant is enough.
LEMMA InvGivesAllOrNothing ==
  ASSUME Inv
  PROVE  BatchAllOrNothing
<1> SUFFICES ASSUME NEW b \in Batches
             PROVE  /\ StoredOf(b) \in {{}, RowsOf(b)}
                    /\ reply[b] = "created" => StoredOf(b) = RowsOf(b)
                    /\ reply[b] \in Refusals => StoredOf(b) = {}
                    /\ \A i \in RowsOf(b) :
                         IF i \in StoredOf(b)
                         THEN \E e \in audit : EntriesFor(<<b, i>>) = {e}
                         ELSE EntriesFor(<<b, i>>) = {}
  BY DEF BatchAllOrNothing
<1>1. \A i \in RowsOf(b) : i \in Nat
  <2>1. file[b] = <<>> => RowsOf(b) = {}
    BY DEF RowsOf
  <2>2. file[b] \in Files => RowsOf(b) \subseteq Nat
    BY RowsBounded DEF RowsOf
  <2> QED BY <2>1, <2>2 DEF Inv, TypeInv
<1>2. \A p : EntriesFor(p) = For(audit, p)
  BY DEF EntriesFor, For
<1>3. CASE Clean(b) /\ reply[b] # "created"
  <2>1. StoredOf(b) = {}
    BY <1>1, <1>3 DEF Clean, StoredOf
  <2> QED BY <1>1, <1>2, <1>3, <2>1 DEF Clean
<1>4. CASE Saved(b) /\ reply[b] \notin Refusals
  <2>1. StoredOf(b) = RowsOf(b)
    BY <1>4 DEF Saved, StoredOf
  <2> QED BY <1>2, <1>4, <2>1 DEF Saved, One
<1> QED BY <1>3, <1>4 DEF Inv, BatchOk

LEMMA InitInv == Init => Inv
<1> SUFFICES ASSUME Init PROVE Inv
  OBVIOUS
<1> USE DEF Init
<1>1. TypeInv
  BY DEF TypeInv, PaymentNames, PcLabels
<1>2. ASSUME NEW b \in Batches PROVE BatchOk(b)
  <2>1. RowsOf(b) = {}
    BY DEF RowsOf
  <2>2. Clean(b)
    BY DEF Clean, Stored, For
  <2> QED BY <2>1, <2>2 DEF BatchOk, Drafted, Over
<1> QED BY <1>1, <1>2 DEF Inv

\* What a step must leave alone for the other batches to be as they were.
Untouched(c) ==
  /\ pc'[c] = pc[c] /\ file'[c] = file[c] /\ at'[c] = at[c]
  /\ reply'[c] = reply[c] /\ entries'[c] = entries[c]
  /\ \A i \in Nat : /\ <<c, i>> \in Stored' <=> <<c, i>> \in Stored
                    /\ For(audit', <<c, i>>) = For(audit, <<c, i>>)

LEMMA UntouchedStaysOk ==
  ASSUME Inv, NEW c \in Batches, Untouched(c)
  PROVE  BatchOk(c)'
<1>1. \A i \in RowsOf(c) : i \in Nat
  <2>1. file[c] = <<>> => RowsOf(c) = {}
    BY DEF RowsOf
  <2>2. file[c] \in Files => RowsOf(c) \subseteq Nat
    BY RowsBounded DEF RowsOf
  <2> QED BY <2>1, <2>2 DEF Inv, TypeInv
<1>2. RowsOf(c)' = RowsOf(c) /\ Written(c)' = Written(c) /\ Over(c)' = Over(c)
  BY DEF Untouched, RowsOf, Written, Over
<1>3. Clean(c)' <=> Clean(c)
  BY DEF Untouched, Clean
<1>4. Saved(c) => Saved(c)'
  <2> SUFFICES ASSUME Saved(c), NEW i \in RowsOf(c)
               PROVE  <<c, i>> \in Stored' /\ One(audit', <<c, i>>)
    BY <1>2 DEF Saved
  <2>1. <<c, i>> \in Stored'
    BY <1>1 DEF Untouched, Saved
  <2>2. For(audit', <<c, i>>) = For(audit, <<c, i>>)
    BY <1>1 DEF Untouched
  <2>3. One(audit', <<c, i>>)
    BY <2>2 DEF Saved, One, For
  <2> QED BY <2>1, <2>3
<1>5. Drafted(c) => Drafted(c)'
  BY <1>2 DEF Untouched, Drafted
<1> QED BY <1>2, <1>3, <1>4, <1>5 DEF Inv, BatchOk, Untouched

\* A step within one batch that writes no row of the database.
OnlyMoves(b) ==
  /\ UNCHANGED <<payments, audit, entries>>
  /\ TypeInv'
  /\ \A c \in Batches \ {b} :
       pc'[c] = pc[c] /\ file'[c] = file[c] /\ at'[c] = at[c] /\ reply'[c] = reply[c]

LEMMA OthersUntouched ==
  ASSUME NEW b, OnlyMoves(b)
  PROVE  \A c \in Batches \ {b} : Untouched(c)
BY DEF OnlyMoves, Untouched, Stored, For

\* The first steps: the file arrives, or is refused.
LEMMA ReceiveInv ==
  ASSUME Inv, NEW b \in Batches, CreatePaymentsBatch(b) \/ RefuseFile(b)
  PROVE  Inv'
<1> USE DEF Inv, CreatePaymentsBatch, RefuseFile, Goto, Answer, database, memory
<1>1. OnlyMoves(b)
  <2>1. TypeInv'
    BY DEF TypeInv, PcLabels
  <2> QED BY <2>1 DEF OnlyMoves, TypeInv
<1>2. Clean(b) /\ reply[b] = "none" /\ at[b] = 1 /\ entries[b] = {} /\ pc[b] = "idle"
  <2>1. Clean(b) /\ reply[b] = "none" /\ Drafted(b) /\ at[b] = 1 /\ RowsOf(b) = {}
    BY DEF BatchOk, Over, RowsOf
  <2>2. \A e \in entries[b] : FALSE
    BY <2>1 DEF Drafted
  <2> QED BY <2>1, <2>2
<1>3. Clean(b)'
  BY <1>2 DEF Clean, Stored, For
<1>4. CASE CreatePaymentsBatch(b)
  <2>1. PICK f \in Files : file' = [file EXCEPT ![b] = f]
    BY <1>4
  <2>2. file'[b] = f /\ pc'[b] = "validate" /\ reply'[b] = "none"
    BY <1>2, <1>4, <2>1 DEF TypeInv
  <2>3. at'[b] \in RowsOf(b)'
    BY <1>2, <1>4, <2>2, RowsBounded DEF RowsOf
  <2>4. Drafted(b)'
    BY <1>2, <1>4, <2>2 DEF Drafted, Written, For
  <2> QED BY <1>1, <1>3, <2>2, <2>3, <2>4, OthersUntouched, UntouchedStaysOk
          DEF BatchOk, Over, OnlyMoves
<1>5. CASE RefuseFile(b)
  <2>1. pc'[b] = "done" /\ reply'[b] \in {"forbidden", "bad_request"}
    BY <1>5 DEF TypeInv
  <2>2. BatchOk(b)'
    BY <1>3, <2>1 DEF BatchOk, Over
  <2> QED BY <1>1, <2>2, OthersUntouched, UntouchedStaysOk DEF OnlyMoves
<1> QED BY <1>4, <1>5

\* Steps that end a batch before anything was committed, or after it with no new answer.
EndsUncommitted(b) ==
  /\ ~Over(b) /\ OnlyMoves(b) /\ UNCHANGED <<file, at>>
  /\ pc'[b] \in {"finally", "done"} /\ reply'[b] # "created"

LEMMA EndInv ==
  ASSUME Inv, NEW b \in Batches, EndsUncommitted(b)
  PROVE  Inv'
<1> USE DEF Inv, EndsUncommitted
<1>1. Clean(b)'
  BY DEF BatchOk, Clean, OnlyMoves, Stored, For
<1>2. BatchOk(b)'
  BY <1>1 DEF BatchOk, Over
<1> QED BY <1>2, OthersUntouched, UntouchedStaysOk DEF OnlyMoves

\* Steps before the insert: a row is checked or debited, or the lock is taken.
LEMMA PrepareInv ==
  ASSUME Inv, NEW b \in Batches, OnlyMoves(b), UNCHANGED <<file, reply>>,
         pc[b] \in {"validate", "debit", "lock", "insert"},
         pc'[b] \in {"validate", "debit", "lock", "insert", "append"},
         at'[b] \in RowsOf(b),
         pc'[b] \in {"lock", "insert", "append"} => at'[b] = 1
  PROVE  Inv'
<1> USE DEF Inv, OnlyMoves
<1>1. Clean(b)'
  BY DEF BatchOk, Over, Clean, Stored, For
<1>2. file[b] \in Files /\ RowsOf(b)' = RowsOf(b) /\ RowsOf(b) \subseteq Nat \ {0}
  <2>1. file[b] \in Files
    BY DEF BatchOk, Over
  <2> QED BY <2>1, RowsBounded DEF RowsOf
<1>3. Written(b) = {} /\ Written(b)' = {}
  <2>1. \A i \in RowsOf(b) : ~(i < 1)
    BY <1>2
  <2> QED BY <1>2, <2>1 DEF Written
<1>4. Drafted(b)'
  <2>1. Drafted(b) /\ entries'[b] = entries[b]
    BY DEF BatchOk, Over
  <2> QED BY ONLY <1>2, <1>3, <2>1 DEF Drafted, One, For
<1>5. BatchOk(b)'
  BY <1>1, <1>2, <1>4 DEF BatchOk, Over
<1> QED BY <1>5, OthersUntouched, UntouchedStaysOk

LEMMA NextRowType ==
  ASSUME Inv, NEW b \in Batches, NEW k \in PcLabels, NEW l \in PcLabels,
         ~Over(b), pc[b] # "idle", NextRow(b, k, l)
  PROVE  /\ at' \in [Batches -> Nat] /\ pc' \in [Batches -> PcLabels] /\ reply' = reply
         /\ at'[b] \in RowsOf(b)
         /\ \/ at[b] < Len(file[b]) /\ at'[b] = at[b] + 1 /\ pc'[b] = k
            \/ at[b] = Len(file[b]) /\ at'[b] = 1 /\ pc'[b] = l
         /\ \A c \in Batches \ {b} : pc'[c] = pc[c] /\ at'[c] = at[c]
<1> USE DEF Inv, NextRow, Goto, TypeInv
<1>1. file[b] \in Files /\ at[b] \in 1..Len(file[b]) /\ Len(file[b]) \in Nat \ {0}
      /\ RowsOf(b) = 1..Len(file[b])
  <2>1. file[b] \in Files /\ at[b] \in RowsOf(b)
    BY DEF BatchOk
  <2> QED BY <2>1, RowsBounded DEF RowsOf
<1> QED BY <1>1

LEMMA ValidateInv ==
  ASSUME Inv, NEW b \in Batches, ValidateRow(b)
  PROVE  Inv'
<1>1. pc[b] = "validate" /\ UNCHANGED <<payments, audit, entries, file>>
  BY DEF ValidateRow, database
<1>2. CASE Answer(b, "invalid_rows") /\ UNCHANGED at
  <2>1. EndsUncommitted(b)
    BY <1>1, <1>2 DEF EndsUncommitted, OnlyMoves, Inv, TypeInv, Answer, Over, PcLabels
  <2> QED BY <2>1, EndInv
<1>3. CASE NextRow(b, "validate", "debit")
  <2>1. /\ OnlyMoves(b) /\ UNCHANGED reply
        /\ pc'[b] \in {"validate", "debit"} /\ at'[b] \in RowsOf(b)
    BY <1>1, <1>3, NextRowType DEF OnlyMoves, Inv, TypeInv, Over, PcLabels
  <2> QED BY <1>1, <2>1, PrepareInv
<1> QED BY <1>2, <1>3 DEF ValidateRow

LEMMA DebitInv ==
  ASSUME Inv, NEW b \in Batches, DebitRow(b)
  PROVE  Inv'
<1>1. pc[b] = "debit" /\ UNCHANGED <<payments, audit, entries, file>>
  BY DEF DebitRow, database
<1>2. CASE Answer(b, "insufficient_funds") /\ UNCHANGED at
  <2>1. EndsUncommitted(b)
    BY <1>1, <1>2 DEF EndsUncommitted, OnlyMoves, Inv, TypeInv, Answer, Over, PcLabels
  <2> QED BY <2>1, EndInv
<1>3. CASE NextRow(b, "debit", "lock")
  <2>1. /\ OnlyMoves(b) /\ UNCHANGED reply
        /\ pc'[b] \in {"debit", "lock"} /\ at'[b] \in RowsOf(b)
        /\ pc'[b] = "lock" => at'[b] = 1
    BY <1>1, <1>3, NextRowType DEF OnlyMoves, Inv, TypeInv, Over, PcLabels
  <2> QED BY <1>1, <2>1, PrepareInv
<1> QED BY <1>2, <1>3 DEF DebitRow

LEMMA EnterInv ==
  ASSUME Inv, NEW b \in Batches, EnterBatch(b) \/ AddPayments(b)
  PROVE  Inv'
<1> USE DEF EnterBatch, AddPayments, database, memory
<1>1. pc[b] \in {"lock", "insert"} /\ UNCHANGED <<payments, audit, entries, file, at>>
  OBVIOUS
<1>2. at[b] = 1 /\ at[b] \in RowsOf(b)
  BY <1>1 DEF Inv, BatchOk, Over
<1>3. CASE Leave(b, "account_changed")
  <2>1. EndsUncommitted(b)
    BY <1>1, <1>3 DEF EndsUncommitted, OnlyMoves, Inv, TypeInv, Leave, Over, PcLabels
  <2> QED BY <2>1, EndInv
<1>4. ASSUME NEW l \in {"insert", "append"}, Goto(b, l)
      PROVE  Inv'
  <2>1. OnlyMoves(b) /\ UNCHANGED reply /\ pc'[b] = l
    BY <1>1, <1>4 DEF OnlyMoves, Inv, TypeInv, Goto, PcLabels
  <2> QED BY <1>1, <1>2, <2>1, PrepareInv
<1> QED BY <1>3, <1>4

\* The entry of the current row is the first one for it.
LEMMA AppendInv ==
  ASSUME Inv, NEW b \in Batches, AppendEntry(b)
  PROVE  Inv'
<1> DEFINE new == [id |-> nextEntry, prev |-> GetLatestSignature(b), payment |-> <<b, at[b]>>]
<1> USE DEF Inv
<1>1. /\ pc[b] = "append" /\ pc' = [pc EXCEPT ![b] = "log"]
      /\ entries' = [entries EXCEPT ![b] = @ \cup {new}]
      /\ UNCHANGED <<payments, audit, file, at, reply>>
  BY DEF AppendEntry, Goto, database, memory
<1>2. pc'[b] = "log" /\ entries'[b] = entries[b] \cup {new}
  BY <1>1 DEF TypeInv
<1>3. file[b] \in Files /\ at[b] \in RowsOf(b) /\ RowsOf(b)' = RowsOf(b)
      /\ RowsOf(b) \subseteq Nat \ {0} /\ Clean(b) /\ Drafted(b)
  <2>1. file[b] \in Files /\ at[b] \in RowsOf(b) /\ Clean(b) /\ Drafted(b)
    BY <1>1 DEF BatchOk, Over
  <2> QED BY <1>1, <2>1, RowsBounded DEF RowsOf
<1>4. TypeInv'
  BY <1>1 DEF TypeInv, PcLabels
<1>5. Drafted(b)'
  <2>1. \A e \in entries'[b] : \E i \in RowsOf(b)' : e.payment = <<b, i>>
    BY <1>2, <1>3 DEF Drafted
  <2>2. ASSUME NEW i \in RowsOf(b)
        PROVE  IF i \in Written(b)' THEN One(entries'[b], <<b, i>>)
                                    ELSE For(entries'[b], <<b, i>>) = {}
    <3> HIDE DEF new
    <3>1. new.payment = <<b, at[b]>>
      BY DEF new
    <3>2. CASE i = at[b]
      <4>1. i \in Written(b)'
        BY <1>1, <1>2, <1>3, <3>2 DEF Written
      <4>2. i \notin Written(b)
        BY <1>1, <1>3, <3>2 DEF Written
      <4>3. For(entries'[b], <<b, i>>) = {new}
        BY <1>2, <1>3, <3>1, <3>2, <4>2 DEF Drafted, For
      <4> QED BY <1>2, <4>1, <4>3 DEF One
    <3>3. CASE i # at[b]
      <4>1. i \in Written(b)' <=> i \in Written(b)
        BY <1>1, <1>2, <1>3, <3>3 DEF Written
      <4>2. For(entries'[b], <<b, i>>) = For(entries[b], <<b, i>>)
        BY <1>2, <3>1, <3>3 DEF For
      <4> QED BY <1>3, <4>1, <4>2 DEF Drafted, One, For
    <3> QED BY <3>2, <3>3
  <2> QED BY <1>3, <2>1, <2>2 DEF Drafted
<1>6. BatchOk(b)'
  BY <1>1, <1>2, <1>3, <1>5 DEF BatchOk, Over, Clean, Stored, For
<1>7. ASSUME NEW c \in Batches \ {b} PROVE BatchOk(c)'
  <2>1. Untouched(c)
    BY <1>1 DEF Untouched, TypeInv, Stored, For
  <2> QED BY <2>1, UntouchedStaysOk
<1> QED BY <1>4, <1>6, <1>7

\* After it was saved, the next row is the one without an entry.
LEMMA SaveInv ==
  ASSUME Inv, NEW b \in Batches, SaveEntry(b)
  PROVE  Inv'
<1> USE DEF Inv
<1>1. /\ pc[b] = "log" /\ NextRow(b, "append", "commit")
      /\ UNCHANGED <<payments, audit, entries, file>>
  BY DEF SaveEntry, memory
<1>2. /\ at' \in [Batches -> Nat] /\ pc' \in [Batches -> PcLabels] /\ reply' = reply
      /\ at'[b] \in RowsOf(b)
      /\ \/ at[b] < Len(file[b]) /\ at'[b] = at[b] + 1 /\ pc'[b] = "append"
         \/ at[b] = Len(file[b]) /\ at'[b] = 1 /\ pc'[b] = "commit"
      /\ \A c \in Batches \ {b} : pc'[c] = pc[c] /\ at'[c] = at[c]
  BY <1>1, NextRowType DEF Over, PcLabels
<1>3. OnlyMoves(b)
  BY <1>1, <1>2 DEF OnlyMoves, TypeInv
<1>4. file[b] \in Files /\ at[b] \in RowsOf(b) /\ RowsOf(b)' = RowsOf(b)
      /\ RowsOf(b) = 1..Len(file[b]) /\ Len(file[b]) \in Nat /\ Clean(b) /\ Drafted(b)
  <2>1. file[b] \in Files /\ at[b] \in RowsOf(b) /\ Clean(b) /\ Drafted(b)
    BY <1>1 DEF BatchOk, Over
  <2> QED BY <1>1, <2>1, RowsBounded DEF RowsOf
<1>5. Written(b)' = Written(b)
  BY <1>1, <1>2, <1>4 DEF Written
<1>6. Drafted(b)'
  BY <1>1, <1>4, <1>5 DEF Drafted
<1>7. BatchOk(b)'
  BY <1>1, <1>2, <1>4, <1>6 DEF BatchOk, Over, Clean, Stored, For
<1> QED BY <1>3, <1>7, OthersUntouched, UntouchedStaysOk DEF OnlyMoves

\* The commit stores all of the rows with their entries, whether it is answered or not.
LEMMA PersistInv ==
  ASSUME Inv, NEW b \in Batches, Commit(b) \/ CommitAnswerLost(b)
  PROVE  Inv'
<1> USE DEF Inv
<1>1. /\ pc[b] = "commit" /\ pc' = [pc EXCEPT ![b] = "finally"]
      /\ payments' = WithPayments(b) /\ audit' = audit \cup entries[b]
      /\ UNCHANGED <<entries, file, at>>
      /\ \E r \in {"created", "error"} : reply' = [reply EXCEPT ![b] = r]
  BY DEF Commit, CommitAnswerLost, Leave, Persist, memory
<1>2. file[b] \in Files /\ Clean(b) /\ Drafted(b) /\ RowsOf(b)' = RowsOf(b)
  BY <1>1 DEF BatchOk, Over, RowsOf
<1>3. \A i \in RowsOf(b) : /\ i \in 1..MaxRows /\ i \in Nat
                           /\ file[b][i] \in Row /\ PaymentOf(file[b][i]) \in Payment
  BY <1>2, RowsBounded DEF RowsOf, Row, Payment, PaymentOf
<1>4. DOMAIN payments = PaymentNames /\ \A i \in RowsOf(b) : <<b, i>> \in PaymentNames
  BY <1>3 DEF TypeInv, PaymentNames
<1>5. \A p \in PaymentNames :
        payments'[p] = IF p \in {b} \X RowsOf(b) THEN PaymentOf(file[b][p[2]]) ELSE payments[p]
  BY <1>1, <1>4 DEF WithPayments
<1>6. TypeInv'
  <2>1. payments' \in [PaymentNames -> Payment \cup {Null}]
    <3>1. \A p \in PaymentNames : payments'[p] \in Payment \cup {Null}
      BY <1>3, <1>5 DEF TypeInv
    <3> QED BY <1>1, <1>4, <3>1 DEF WithPayments
  <2>2. pc' \in [Batches -> PcLabels] /\ reply' = [c \in Batches |-> reply'[c]]
    BY <1>1 DEF TypeInv, PcLabels
  <2> QED BY <1>1, <2>1, <2>2 DEF TypeInv
<1>7. Saved(b)'
  <2> SUFFICES ASSUME NEW i \in RowsOf(b)
               PROVE  <<b, i>> \in Stored' /\ One(audit', <<b, i>>)
    BY <1>2 DEF Saved
  <2>1. payments'[<<b, i>>] = PaymentOf(file[b][i])
    BY <1>4, <1>5
  <2>2. <<b, i>> \in DOMAIN payments' /\ payments'[<<b, i>>] # Null
    BY <1>3, <1>4, <1>6, <2>1, BatchAssumption DEF TypeInv
  <2>3. One(entries[b], <<b, i>>)
    BY <1>1, <1>2 DEF Drafted, Written
  <2>4. For(audit', <<b, i>>) = For(entries[b], <<b, i>>)
    BY <1>1, <1>2, <1>3 DEF Clean, For
  <2>5. One(audit', <<b, i>>)
    BY <1>1, <2>3, <2>4 DEF One
  <2> QED BY <2>2, <2>5 DEF Stored
<1>8. BatchOk(b)'
  <2>1. pc'[b] = "finally" /\ reply'[b] \in {"created", "error"}
    BY <1>1 DEF TypeInv
  <2> QED BY <1>7, <2>1 DEF BatchOk, Over, Refusals
<1>9. ASSUME NEW c \in Batches \ {b} PROVE BatchOk(c)'
  <2>1. \A i \in Nat : <<c, i>> \in Stored' <=> <<c, i>> \in Stored
    BY <1>4, <1>5, <1>6 DEF Stored, TypeInv
  <2>2. \A i \in Nat : For(audit', <<c, i>>) = For(audit, <<c, i>>)
    BY <1>1, <1>2 DEF Drafted, For
  <2>3. Untouched(c)
    BY <1>1, <2>1, <2>2 DEF Untouched, TypeInv
  <2> QED BY <2>3, UntouchedStaysOk
<1> QED BY <1>6, <1>8, <1>9

\* A failed call, and the finally block, store nothing.
LEMMA FailInv ==
  ASSUME Inv, NEW b \in Batches, CallFails(b)
  PROVE  Inv'
<1>1. EndsUncommitted(b)
  BY DEF EndsUncommitted, OnlyMoves, CallFails, Answer, Leave, Inv, TypeInv, Over, PcLabels,
         database, memory
<1> QED BY <1>1, EndInv

\* Batches that are over stay as they were stored, unless an answer is lost.
LEMMA OverInv ==
  ASSUME Inv, UNCHANGED <<payments, audit, entries, file, at>>,
         pc' \in [Batches -> PcLabels], reply' = [c \in Batches |-> reply'[c]],
         \A c \in Batches : \/ pc'[c] = pc[c] /\ reply'[c] = reply[c]
                            \/ /\ pc'[c] = "done" /\ reply'[c] \in {reply[c], "lost"}
                               /\ Over(c) \/ reply'[c] = "lost"
  PROVE  Inv'
<1> USE DEF Inv
<1>1. TypeInv'
  BY DEF TypeInv
<1>2. ASSUME NEW c \in Batches PROVE BatchOk(c)'
  <2>1. CASE pc'[c] = pc[c] /\ reply'[c] = reply[c]
    <3>1. Untouched(c)
      BY <2>1 DEF Untouched, Stored, For
    <3> QED BY <3>1, UntouchedStaysOk
  <2>2. CASE /\ pc'[c] = "done" /\ reply'[c] \in {reply[c], "lost"}
             /\ Over(c) \/ reply'[c] = "lost"
    <3>1. Over(c)' /\ (Clean(c) => Clean(c)') /\ (Saved(c) => Saved(c)')
      BY <2>2 DEF Over, Clean, Saved, RowsOf, Stored, One, For
    <3>2. (Clean(c) /\ reply'[c] # "created") \/ (Saved(c) /\ reply'[c] \notin Refusals)
      BY <2>2 DEF BatchOk, Refusals
    <3> QED BY <2>2, <3>1, <3>2 DEF BatchOk, Over
  <2> QED BY <2>1, <2>2
<1> QED BY <1>1, <1>2

LEMMA EndsInv ==
  ASSUME Inv, (\E b \in Batches : Release(b)) \/ Restart \/ UNCHANGED vars
  PROVE  Inv'
<1> USE DEF Inv, database, memory
<1>1. ASSUME NEW b \in Batches, Release(b) PROVE Inv'
  <2>1. Over(b)
    BY <1>1 DEF Release, Over
  <2> QED BY <1>1, <2>1, OverInv DEF Release, TypeInv, PcLabels
<1>2. CASE Restart
  BY <1>2, OverInv DEF Restart, InFlight, TypeInv, PcLabels
<1>3. CASE UNCHANGED vars
  BY <1>3, OverInv DEF vars, TypeInv
<1> QED BY <1>1, <1>2, <1>3

\* A single payment is no row of a batch.
LEMMA SingleInv ==
  ASSUME Inv, NEW p \in Singles, SinglePayment(p)
  PROVE  Inv'
<1> USE DEF Inv
<1>1. PICK a \in OwnAccounts, n \in Amounts :
        /\ payments' = [payments EXCEPT
                          ![p] = [account |-> a, amount |-> n, status |-> "completed"]]
        /\ audit' = audit \cup
             {[id |-> nextEntry, prev |-> Latest(audit), payment |-> p]}
        /\ UNCHANGED <<file, pc, reply, at, entries>>
  BY DEF SinglePayment, memory
<1>2. TypeInv'
  <2>1. [account |-> a, amount |-> n, status |-> "completed"] \in Payment
    BY BatchAssumption DEF Payment
  <2> QED BY <1>1, <2>1 DEF TypeInv
<1>3. ASSUME NEW c \in Batches PROVE BatchOk(c)'
  <2>1. \A i \in Nat : <<c, i>> # p
    BY BatchAssumption
  <2>2. \A i \in Nat : <<c, i>> \in Stored' <=> <<c, i>> \in Stored
    BY <1>1, <2>1 DEF Stored, TypeInv
  <2>3. \A i \in Nat : For(audit', <<c, i>>) = For(audit, <<c, i>>)
    BY <1>1, <2>1 DEF For
  <2> QED BY <1>1, <2>2, <2>3, UntouchedStaysOk DEF Untouched
<1> QED BY <1>2, <1>3

LEMMA NextInv ==
  ASSUME Inv, [Next]_vars
  PROVE  Inv'
<1>1. ASSUME NEW b \in Batches, BatchStep(b) PROVE Inv'
  BY <1>1, ReceiveInv, ValidateInv, DebitInv, EnterInv, AppendInv, SaveInv, PersistInv,
     FailInv, EndsInv DEF BatchStep
<1> QED BY <1>1, SingleInv, EndsInv DEF Next

\* Always, a batch is stored with all its rows, each with one audit entry, or with none;
\* 201 means all of them and a refusal means none: for every number of batches and of
\* rows, whatever call fails and whenever the process dies (CreatePaymentsAsync).
THEOREM BatchesAtomic == Spec => []BatchAllOrNothing
<1>1. Init => Inv
  BY InitInv
<1>2. Inv /\ [Next]_vars => Inv'
  BY NextInv
<1>3. Inv => BatchAllOrNothing
  BY InvGivesAllOrNothing
<1> QED BY <1>1, <1>2, <1>3, PTL DEF Spec

-----------------------------------------------------------------------------
(* The chain of the log                                                    *)

InSection(b) == pc[b] \in {"insert", "append", "log", "commit", "finally"}
Appends(b)   == pc[b] \in {"append", "log", "commit"}

\* The log as b's open transaction sees it.
Seen(b) == audit \cup entries[b]

\* An entry of a log links to the one before it, which describes the row before its own.
LinkedEntry(e, log) ==
  /\ e.prev = Latest({f \in log : f.id < e.id})
  /\ \A b \in Batches, i \in Nat :
       i >= 2 /\ e.payment = <<b, i>> =>
         \E f \in log : f.id = e.prev /\ f.payment = <<b, i - 1>>
Linked(log) == \A e \in log : LinkedEntry(e, log)

\* The entry of row i is in the log, and no entry is newer.
NewestIs(log, b, i) == \E f \in log : f.payment = <<b, i>> /\ \A g \in log : g.id <= f.id

\* Whoever is between the lock and the finally block holds the lock.
Exclusive == lock \in Batches \cup {Null} /\ \A b \in Batches : InSection(b) => lock = b

DraftLinked(b) ==
  /\ Linked(Seen(b))
  /\ \A e \in Seen(b) : e.id \in Nat /\ e.id <= nextEntry
  /\ pc[b] # "log" => \A e \in Seen(b) : e.id < nextEntry
  /\ pc[b] = "append" /\ at[b] >= 2 => NewestIs(Seen(b), b, at[b] - 1)
  /\ pc[b] = "log" => NewestIs(Seen(b), b, at[b])

ChainInv ==
  /\ Exclusive /\ nextEntry \in Nat
  /\ Linked(audit) /\ \A e \in audit : e.id \in Nat /\ e.id < nextEntry
  /\ \A b \in Batches : Appends(b) => DraftLinked(b)

LEMMA InitChain == Init => ChainInv
BY DEF Init, ChainInv, Exclusive, InSection, Appends, Linked

\* The invariant is enough.
LEMMA ChainInvGivesChain ==
  ASSUME ChainInv
  PROVE  BatchChain
<1>1. \A i \in 2..MaxRows : i \in Nat /\ i >= 2
  OBVIOUS
<1> QED BY <1>1 DEF BatchChain, ChainInv, Linked, LinkedEntry

\* The id of an entry that is as new as any other is the latest signature.
LEMMA LatestOfNewest ==
  ASSUME NEW log, NEW f \in log, \A g \in log : g.id \in Nat /\ g.id <= f.id
  PROVE  Latest(log) = f.id
<1> DEFINE ids == {e.id : e \in log}
<1>1. f.id \in ids /\ \A n \in ids : n \in Nat /\ f.id >= n
  OBVIOUS
<1>2. Max(ids) \in ids /\ \A n \in ids : Max(ids) >= n
  <2> HIDE DEF ids
  <2> QED BY <1>1 DEF Max
<1>3. Max(ids) = f.id
  <2> HIDE DEF ids
  <2> QED BY <1>1, <1>2
<1> QED BY <1>3 DEF Latest

\* An entry with a new id that names the latest one extends a linked log.
LEMMA LinkOneMore ==
  ASSUME NEW log, Linked(log), NEW e,
         e.id \in Nat, \A f \in log : f.id \in Nat /\ f.id < e.id,
         e.prev = Latest(log),
         \A b \in Batches, i \in Nat :
           i >= 2 /\ e.payment = <<b, i>> => NewestIs(log, b, i - 1)
  PROVE  Linked(log \cup {e})
<1>1. {f \in log \cup {e} : f.id < e.id} = log
  OBVIOUS
<1>2. \A g \in log : {f \in log \cup {e} : f.id < g.id} = {f \in log : f.id < g.id}
  OBVIOUS
<1>3. ASSUME NEW g \in log PROVE LinkedEntry(g, log \cup {e})
  BY <1>2 DEF Linked, LinkedEntry
<1>4. LinkedEntry(e, log \cup {e})
  <2> SUFFICES ASSUME NEW b \in Batches, NEW i \in Nat, i >= 2, e.payment = <<b, i>>
               PROVE  \E f \in log \cup {e} : f.id = e.prev /\ f.payment = <<b, i - 1>>
    BY <1>1 DEF LinkedEntry
  <2>1. PICK f \in log : f.payment = <<b, i - 1>> /\ \A g \in log : g.id <= f.id
    BY DEF NewestIs
  <2>2. f.id = e.prev
    BY <2>1, LatestOfNewest
  <2> QED BY <2>1, <2>2
<1> QED BY <1>3, <1>4 DEF Linked

\* Only one batch appends, and it holds the lock.
LEMMA OneAppends ==
  ASSUME ChainInv
  PROVE  /\ \A b, c \in Batches : InSection(b) /\ InSection(c) => b = c
         /\ lock = Null => \A b \in Batches : ~InSection(b)
         /\ \A b \in Batches : Appends(b) => InSection(b)
BY BatchAssumption DEF ChainInv, Exclusive, Appends, InSection

\* Steps outside the section, and those that leave it with nothing stored.
LEMMA QuietChain ==
  ASSUME ChainInv, Exclusive', UNCHANGED <<audit, nextEntry>>,
         \A b \in Batches : Appends(b)' => /\ Appends(b) /\ pc'[b] = pc[b]
                                           /\ entries'[b] = entries[b] /\ at'[b] = at[b]
  PROVE  ChainInv'
<1>1. Linked(audit')
  BY DEF ChainInv
<1>2. ASSUME NEW b \in Batches, Appends(b)' PROVE DraftLinked(b)'
  <2>1. DraftLinked(b) /\ pc'[b] = pc[b] /\ Seen(b)' = Seen(b) /\ at'[b] = at[b]
    BY <1>2 DEF ChainInv, Seen
  <2>2. Linked(Seen(b)')
    BY <2>1 DEF DraftLinked
  <2> QED BY <2>1, <2>2 DEF DraftLinked, NewestIs
<1> QED BY <1>1, <1>2 DEF ChainInv

\* The steps before and after the section write nothing.
LEMMA OutsideChain ==
  ASSUME Inv, ChainInv,
         \/ \E b \in Batches : \/ CreatePaymentsBatch(b) \/ RefuseFile(b) \/ ValidateRow(b)
                               \/ DebitRow(b) \/ EnterBatch(b) \/ CallFails(b) \/ Release(b)
         \/ Restart \/ UNCHANGED vars
  PROVE  ChainInv'
<1> USE DEF database, memory, Goto, Answer, Leave
<1>1. ASSUME NEW b \in Batches,
             \/ CreatePaymentsBatch(b) \/ RefuseFile(b) \/ ValidateRow(b) \/ DebitRow(b)
      PROVE  ChainInv'
  <2>1. /\ UNCHANGED <<lock, audit, nextEntry, entries>>
        /\ pc[b] \in {"idle", "validate", "debit"}
        /\ pc'[b] \in {"validate", "debit", "lock", "done"}
        /\ \A c \in Batches \ {b} : pc'[c] = pc[c] /\ at'[c] = at[c]
    <3>1. CASE CreatePaymentsBatch(b) \/ RefuseFile(b)
      BY <1>1, <3>1 DEF CreatePaymentsBatch, RefuseFile, Inv, TypeInv
    <3>2. CASE ValidateRow(b) \/ DebitRow(b)
      BY <1>1, <3>2 DEF ValidateRow, DebitRow, NextRow, Inv, TypeInv
    <3> QED BY <1>1, <3>1, <3>2
  <2>2. Exclusive'
    BY <2>1 DEF ChainInv, Exclusive, InSection
  <2> QED BY <2>1, <2>2, QuietChain DEF Appends
<1>2. ASSUME NEW b \in Batches, EnterBatch(b) PROVE ChainInv'
  <2>1. /\ UNCHANGED <<audit, nextEntry, entries, at>> /\ lock = Null /\ lock' = b
        /\ pc'[b] = "insert" /\ \A c \in Batches \ {b} : pc'[c] = pc[c]
    BY <1>2 DEF EnterBatch, Inv, TypeInv
  <2>2. Exclusive'
    BY <2>1, OneAppends DEF Exclusive, InSection
  <2> QED BY <2>1, <2>2, QuietChain DEF Appends
<1>3. ASSUME NEW b \in Batches, CallFails(b) PROVE ChainInv'
  <2>1. /\ UNCHANGED <<audit, nextEntry, entries, at, lock>>
        /\ pc'[b] \in {"done", "finally"} /\ (pc'[b] = "finally" => InSection(b))
        /\ \A c \in Batches \ {b} : pc'[c] = pc[c]
    BY <1>3 DEF CallFails, InSection, Inv, TypeInv
  <2>2. Exclusive'
    BY <2>1 DEF ChainInv, Exclusive, InSection
  <2> QED BY <2>1, <2>2, QuietChain DEF Appends
<1>4. ASSUME NEW b \in Batches, Release(b) PROVE ChainInv'
  <2>1. /\ UNCHANGED <<audit, nextEntry, entries, at>> /\ lock' = Null
        /\ InSection(b) /\ pc'[b] = "done" /\ \A c \in Batches \ {b} : pc'[c] = pc[c]
    BY <1>4 DEF Release, InSection, Inv, TypeInv
  <2>2. Exclusive'
    BY <2>1, OneAppends DEF Exclusive, InSection
  <2> QED BY <2>1, <2>2, QuietChain DEF Appends
<1>5. CASE Restart
  <2>1. \A c \in Batches : pc'[c] \in {"idle", "done"}
    BY <1>5 DEF Restart, InFlight
  <2>2. Exclusive'
    BY <1>5, <2>1 DEF Restart, Exclusive, InSection
  <2> QED BY <1>5, <2>1, <2>2, QuietChain DEF Restart, Appends
<1>6. CASE UNCHANGED vars
  BY <1>6, QuietChain DEF vars, ChainInv, Exclusive, InSection, Appends
<1> QED BY <1>1, <1>2, <1>3, <1>4, <1>5, <1>6

\* The transaction begins with what is in the log, as no row was handled yet.
LEMMA InsertChain ==
  ASSUME Inv, ChainInv, NEW b \in Batches, AddPayments(b)
  PROVE  ChainInv'
<1>1. /\ UNCHANGED <<lock, audit, nextEntry, entries, at>> /\ pc[b] = "insert"
      /\ pc'[b] \in {"append", "finally"} /\ \A c \in Batches \ {b} : pc'[c] = pc[c]
  BY DEF AddPayments, Goto, Leave, database, memory, Inv, TypeInv
<1>2. Exclusive'
  BY <1>1 DEF ChainInv, Exclusive, InSection
<1>3. \A c \in Batches \ {b} : ~Appends(c) /\ ~Appends(c)'
  BY <1>1, OneAppends DEF InSection, Appends
<1>4. Seen(b) = audit /\ at[b] = 1
  <2>1. Drafted(b) /\ at[b] = 1 /\ Written(b) = {}
    BY <1>1 DEF Inv, BatchOk, Over, Written
  <2>2. \A e \in entries[b] : FALSE
    BY <2>1 DEF Drafted, For
  <2> QED BY <2>1, <2>2 DEF Seen
<1>5. Seen(b)' = audit
  BY <1>1, <1>4 DEF Seen
<1>6. Appends(b)' => DraftLinked(b)'
  <2>1. Linked(Seen(b)')
    BY <1>5 DEF ChainInv
  <2> QED BY <1>1, <1>4, <1>5, <2>1 DEF ChainInv, DraftLinked, Appends
<1>7. Linked(audit')
  BY <1>1 DEF ChainInv
<1> QED BY <1>1, <1>2, <1>3, <1>6, <1>7 DEF ChainInv

\* The entry of the current row names the latest one, which is that of the row before.
LEMMA AppendChain ==
  ASSUME Inv, ChainInv, NEW b \in Batches, AppendEntry(b)
  PROVE  ChainInv'
<1> DEFINE new == [id |-> nextEntry, prev |-> GetLatestSignature(b), payment |-> <<b, at[b]>>]
<1>1. /\ UNCHANGED <<lock, audit, nextEntry, at>> /\ pc[b] = "append" /\ pc'[b] = "log"
      /\ entries'[b] = entries[b] \cup {new}
      /\ \A c \in Batches \ {b} : pc'[c] = pc[c]
  BY DEF AppendEntry, Goto, database, memory, Inv, TypeInv
<1>2. Exclusive'
  BY <1>1 DEF ChainInv, Exclusive, InSection
<1>3. \A c \in Batches \ {b} : ~Appends(c)'
  BY <1>1, OneAppends DEF InSection, Appends
<1>4. DraftLinked(b) /\ at[b] \in Nat /\ nextEntry \in Nat
  BY <1>1 DEF ChainInv, Appends, Inv, TypeInv
<1>5. Seen(b)' = Seen(b) \cup {new}
  BY <1>1 DEF Seen
<1>6. new.id = nextEntry /\ new.prev = Latest(Seen(b)) /\ new.payment = <<b, at[b]>>
  BY DEF GetLatestSignature, Seen
<1>7. \A f \in Seen(b) : f.id \in Nat /\ f.id < nextEntry
  BY <1>1, <1>4 DEF DraftLinked
<1> HIDE DEF new
<1>8. Linked(Seen(b) \cup {new})
  <2>1. Linked(Seen(b))
    BY <1>4 DEF DraftLinked
  <2>2. ASSUME NEW c \in Batches, NEW i \in Nat, i >= 2, new.payment = <<c, i>>
        PROVE  NewestIs(Seen(b), c, i - 1)
    BY <1>1, <1>4, <1>6, <2>2 DEF DraftLinked
  <2> QED BY <1>4, <1>6, <1>7, <2>1, <2>2, LinkOneMore
<1>9. NewestIs(Seen(b) \cup {new}, b, at[b])
  BY <1>4, <1>6, <1>7 DEF NewestIs
<1>10. DraftLinked(b)'
  <2>1. Linked(Seen(b)') /\ NewestIs(Seen(b)', b, at'[b])
    BY <1>1, <1>5, <1>8, <1>9
  <2>2. \A e \in Seen(b)' : e.id \in Nat /\ e.id <= nextEntry'
    BY <1>1, <1>4, <1>5, <1>6, <1>7
  <2> QED BY <1>1, <2>1, <2>2 DEF DraftLinked
<1>11. Linked(audit')
  BY <1>1 DEF ChainInv
<1> QED BY <1>1, <1>2, <1>3, <1>10, <1>11 DEF ChainInv

\* The next id is above every entry, and the row that was saved is now the one before.
LEMMA SaveChain ==
  ASSUME Inv, ChainInv, NEW b \in Batches, SaveEntry(b)
  PROVE  ChainInv'
<1>1. /\ UNCHANGED <<lock, audit, entries>> /\ nextEntry' = nextEntry + 1
      /\ pc[b] = "log" /\ NextRow(b, "append", "commit")
  BY DEF SaveEntry, memory
<1>2. /\ \/ at'[b] = at[b] + 1 /\ pc'[b] = "append"
         \/ pc'[b] = "commit"
      /\ \A c \in Batches \ {b} : pc'[c] = pc[c] /\ at'[c] = at[c]
  BY <1>1, NextRowType DEF Over, PcLabels
<1>3. Exclusive'
  BY <1>1, <1>2 DEF ChainInv, Exclusive, InSection
<1>4. \A c \in Batches \ {b} : ~Appends(c)'
  BY <1>1, <1>2, OneAppends DEF InSection, Appends
<1>5. DraftLinked(b) /\ at[b] \in Nat /\ nextEntry \in Nat /\ Seen(b)' = Seen(b)
  BY <1>1 DEF ChainInv, Appends, Inv, TypeInv, Seen
<1>6. DraftLinked(b)'
  <2>1. Linked(Seen(b)')
    BY <1>5 DEF DraftLinked
  <2>2. \A e \in Seen(b)' : e.id \in Nat /\ e.id < nextEntry'
    BY <1>1, <1>5 DEF DraftLinked
  <2>3. NewestIs(Seen(b)', b, at[b])
    BY <1>1, <1>5 DEF DraftLinked
  <2>4. pc'[b] = "append" => NewestIs(Seen(b)', b, at'[b] - 1)
    BY <1>2, <1>5, <2>3
  <2>5. \A e \in Seen(b)' : e.id <= nextEntry'
    BY <1>1, <1>5, <2>2
  <2> QED BY <1>2, <2>1, <2>2, <2>4, <2>5 DEF DraftLinked
<1>7. Linked(audit') /\ \A e \in audit' : e.id \in Nat /\ e.id < nextEntry'
  BY <1>1, <1>5 DEF ChainInv
<1> QED BY <1>1, <1>3, <1>4, <1>5, <1>6, <1>7 DEF ChainInv

\* The commit shows everybody the log that the transaction saw.
LEMMA PersistChain ==
  ASSUME Inv, ChainInv, NEW b \in Batches, Commit(b) \/ CommitAnswerLost(b)
  PROVE  ChainInv'
<1>1. /\ UNCHANGED <<lock, nextEntry>> /\ audit' = Seen(b)
      /\ pc[b] = "commit" /\ pc'[b] = "finally" /\ \A c \in Batches \ {b} : pc'[c] = pc[c]
  BY DEF Commit, CommitAnswerLost, Persist, Leave, memory, Inv, TypeInv, Seen
<1>2. Exclusive'
  BY <1>1 DEF ChainInv, Exclusive, InSection
<1>3. \A c \in Batches : ~Appends(c)'
  BY <1>1, OneAppends DEF InSection, Appends
<1>4. DraftLinked(b)
  BY <1>1 DEF ChainInv, Appends
<1>5. Linked(audit') /\ \A e \in audit' : e.id \in Nat /\ e.id < nextEntry'
  BY <1>1, <1>4 DEF DraftLinked
<1> QED BY <1>1, <1>2, <1>3, <1>5 DEF ChainInv

\* A single payment adds its entry while no batch is in the section.
LEMMA SingleChain ==
  ASSUME Inv, ChainInv, NEW p \in Singles, SinglePayment(p)
  PROVE  ChainInv'
<1> DEFINE new == [id |-> nextEntry, prev |-> Latest(audit), payment |-> p]
<1>1. /\ UNCHANGED <<lock, pc>> /\ lock = Null /\ nextEntry' = nextEntry + 1
      /\ audit' = audit \cup {new}
  BY DEF SinglePayment
<1>2. Exclusive' /\ \A c \in Batches : ~Appends(c)'
  BY <1>1, OneAppends DEF ChainInv, Exclusive, InSection, Appends
<1>3. new.id = nextEntry /\ new.prev = Latest(audit) /\ new.payment = p
  OBVIOUS
<1> HIDE DEF new
<1>4. Linked(audit')
  <2>1. \A c \in Batches, i \in Nat : new.payment # <<c, i>>
    BY <1>3, BatchAssumption
  <2> QED BY <1>1, <1>3, <2>1, LinkOneMore DEF ChainInv
<1>5. \A e \in audit' : e.id \in Nat /\ e.id < nextEntry'
  BY <1>1, <1>3 DEF ChainInv
<1> QED BY <1>1, <1>2, <1>4, <1>5 DEF ChainInv

LEMMA NextChain ==
  ASSUME Inv, ChainInv, [Next]_vars
  PROVE  ChainInv'
<1>1. ASSUME NEW b \in Batches, BatchStep(b) PROVE ChainInv'
  BY <1>1, OutsideChain, InsertChain, AppendChain, SaveChain, PersistChain DEF BatchStep
<1> QED BY <1>1, SingleChain, OutsideChain DEF Next

\* Always, every audit entry links to the one before it in id order, and that of a batch's
\* row to that of the row before it: for every number of batches, of rows and of single
\* payments between them (AppendEntryAsync in the loop of CreatePaymentsAsync).
THEOREM BatchesChained == Spec => []BatchChain
<1>1. Init => Inv /\ ChainInv
  BY InitInv, InitChain
<1>2. Inv /\ ChainInv /\ [Next]_vars => Inv' /\ ChainInv'
  BY NextInv, NextChain
<1>3. ChainInv => BatchChain
  BY ChainInvGivesChain
<1> QED BY <1>1, <1>2, <1>3, PTL DEF Spec

-----------------------------------------------------------------------------
(* The money                                                               *)

\* An account as a request has read it.
AccountRead == [version : Nat, balance : Nat, running : Nat]

\* The rows of file f that are taken from account a, those before row n, and the others.
DirectOf(f, a)  == {j \in DOMAIN f : Direct(f[j]) /\ f[j].account = a}
Before(f, a, n) == {j \in DirectOf(f, a) : j < n}
From(f, a, n)   == {j \in DirectOf(f, a) : j >= n}

LEMMA FileSums ==
  ASSUME NEW f \in Files, NEW a, NEW S, S \subseteq DirectOf(f, a)
  PROVE  IsFiniteSet(S) /\ HaveAmounts(f, S) /\ Sum(f, S) \in Nat
<1>1. Len(f) \in Nat /\ DOMAIN f = 1..Len(f) /\ \A j \in DOMAIN f : f[j].amount \in Nat
  BY RowsBounded, BatchAssumption DEF Row
<1>2. S \subseteq 1..Len(f) /\ IsFiniteSet(1..Len(f))
  BY <1>1, FS_Interval DEF DirectOf
<1>3. IsFiniteSet(S)
  BY <1>2, FS_Subset
<1>4. \A j \in S : f[j].amount \in Nat
  BY <1>1, <1>2
<1> QED BY <1>3, <1>4, SumIsNatural DEF HaveAmounts

\* Row n goes from those to come to those that were handled.
LEMMA RowsMoveOn ==
  ASSUME NEW f \in Files, NEW a, NEW n \in DOMAIN f, n \in DirectOf(f, a)
  PROVE  /\ Sum(f, Before(f, a, n + 1)) = Sum(f, Before(f, a, n)) + f[n].amount
         /\ Sum(f, From(f, a, n)) = Sum(f, From(f, a, n + 1)) + f[n].amount
<1>1. DOMAIN f = 1..Len(f) /\ Len(f) \in Nat /\ DirectOf(f, a) \subseteq DOMAIN f
  BY RowsBounded DEF DirectOf
<1>2. /\ Before(f, a, n + 1) = Before(f, a, n) \cup {n} /\ n \notin Before(f, a, n)
      /\ From(f, a, n) = From(f, a, n + 1) \cup {n} /\ n \notin From(f, a, n + 1)
  BY <1>1 DEF Before, From
<1>3. /\ Before(f, a, n) \subseteq DirectOf(f, a) /\ Before(f, a, n + 1) \subseteq DirectOf(f, a)
      /\ From(f, a, n) \subseteq DirectOf(f, a) /\ From(f, a, n + 1) \subseteq DirectOf(f, a)
  BY DEF Before, From
<1>4. Sum(f, Before(f, a, n) \cup {n}) = Sum(f, Before(f, a, n)) + f[n].amount
  <2>1. IsFiniteSet(Before(f, a, n)) /\ HaveAmounts(f, Before(f, a, n) \cup {n})
    BY <1>2, <1>3, FileSums
  <2> QED BY <1>2, <2>1, SumWith
<1>5. Sum(f, From(f, a, n + 1) \cup {n}) = Sum(f, From(f, a, n + 1)) + f[n].amount
  <2>1. IsFiniteSet(From(f, a, n + 1)) /\ HaveAmounts(f, From(f, a, n + 1) \cup {n})
    BY <1>2, <1>3, FileSums
  <2> QED BY <1>2, <2>1, SumWith
<1> QED BY <1>2, <1>4, <1>5

LEMMA RowsStay ==
  ASSUME NEW f \in Files, NEW a, NEW n \in DOMAIN f, n \notin DirectOf(f, a)
  PROVE  Before(f, a, n + 1) = Before(f, a, n) /\ From(f, a, n) = From(f, a, n + 1)
BY RowsBounded DEF DirectOf, Before, From

\* At the first row nothing was handled, after the last everything.
LEMMA RowsEnd ==
  ASSUME NEW f \in Files, NEW a
  PROVE  /\ Before(f, a, 1) = {} /\ From(f, a, 1) = DirectOf(f, a)
         /\ Before(f, a, Len(f) + 1) = DirectOf(f, a)
         /\ Sum(f, {}) = 0
<1>1. Sum(f, {}) = 0
  BY FS_EmptySet, SumOfRest
<1> QED BY <1>1, RowsBounded DEF DirectOf, Before, From

Holding == {"lock", "insert", "append", "log", "commit"}
Working == {"validate", "debit"} \cup Holding

\* What a request at label l and row n of its file f knows of account a: while it validates,
\* the running balance is the one that was read less the rows so far; while it debits, what is
\* left in memory is enough for the rows to come.  w: a row was found wrong.
Known(l, f, n, w, a, t) ==
  /\ l = "validate" /\ ~w =>
       IF t = Null THEN \A j \in DOMAIN f : j < n => f[j].account # a
       ELSE t.balance = t.running + Sum(f, Before(f, a, n))
  /\ l = "debit" =>
       IF t = Null THEN \A j \in DOMAIN f : f[j].account # a
       ELSE t.balance = t.running + Sum(f, From(f, a, n))
  /\ l \in Holding => (t = Null => \A j \in DOMAIN f : f[j].account # a)

\* The rows that were taken from the balance in memory.
Taken(l, f, a, n) == IF l = "validate" THEN {}
                     ELSE IF l = "debit" THEN Before(f, a, n) ELSE DirectOf(f, a)

\* The account, of version v and balance m, was read with that version and balance, or has a
\* newer version.
Fits(l, f, n, a, t, v, m) ==
  t # Null => t.version <= v /\ (t.version = v => m = t.balance + Sum(f, Taken(l, f, a, n)))

\* The account a lookup returns, and what a row leaves of its running balance and of its
\* balance.
Read(t, v, m) == IF t # Null THEN t ELSE [version |-> v, balance |-> m, running |-> m]
Less(u, x) == [u EXCEPT !.running = @ - x]
Paid(u, x) == [u EXCEPT !.balance = @ - x]

\* A row that is validated.
LEMMA ValidatedElsewhere ==
  ASSUME NEW f \in Files, NEW n \in DOMAIN f, NEW w \in BOOLEAN, NEW x \in BOOLEAN, NEW a, NEW t,
         Known("validate", f, n, w, a, t), f[n].account # a, x = FALSE => w = FALSE
  PROVE  Known("validate", f, n + 1, x, a, t)
<1>1. n \notin DirectOf(f, a)
  BY DEF DirectOf
<1>2. DOMAIN f = 1..Len(f) /\ Len(f) \in Nat
  BY RowsBounded
<1>3. \A j \in DOMAIN f : j < n + 1 => j < n \/ j = n
  BY <1>2
<1> QED BY <1>1, <1>3, RowsStay DEF Known, Holding

LEMMA ValidatedHere ==
  ASSUME NEW f \in Files, NEW n \in DOMAIN f, NEW a, NEW t \in AccountRead \cup {Null},
         NEW v \in Nat, NEW m \in Nat,
         Known("validate", f, n, FALSE, a, t), Fits("validate", f, n, a, t, v, m),
         f[n].account = a,
         NEW u, u = Read(t, v, m),
         Direct(f[n]) => u.running >= f[n].amount
  PROVE  /\ Direct(f[n]) => Known("validate", f, n + 1, FALSE, a, Less(u, f[n].amount))
         /\ ~Direct(f[n]) => Known("validate", f, n + 1, FALSE, a, u)
<1>1. DOMAIN f = 1..Len(f) /\ Len(f) \in Nat /\ f[n].amount \in Nat
  BY RowsBounded, BatchAssumption DEF Row
<1>2. u \in AccountRead /\ u.balance = u.running + Sum(f, Before(f, a, n))
  <2>1. CASE t # Null
    BY <2>1 DEF Known, Read
  <2>2. CASE t = Null
    <3>1. Before(f, a, n) = {}
      BY <2>2 DEF Known, Before, DirectOf
    <3> QED BY <2>2, <3>1, RowsEnd DEF AccountRead, Read
  <2> QED BY <2>1, <2>2
<1>3. AccountRead = [version : Nat, balance : Nat, running : Nat] /\ Null \notin AccountRead
  BY BatchAssumption DEF AccountRead
<1>4. Sum(f, Before(f, a, n)) \in Nat /\ Sum(f, Before(f, a, n + 1)) \in Nat
  BY FileSums DEF Before
<1>5. CASE Direct(f[n])
  <2> PICK r : r = Less(u, f[n].amount)
    OBVIOUS
  <2>1. r \in AccountRead /\ r.balance = u.balance /\ r.running = u.running - f[n].amount
    BY <1>1, <1>2, <1>5 DEF AccountRead, Less
  <2>2. Sum(f, Before(f, a, n + 1)) = Sum(f, Before(f, a, n)) + f[n].amount
    BY <1>5, RowsMoveOn DEF DirectOf
  <2>3. r.balance = r.running + Sum(f, Before(f, a, n + 1))
    <3> PICK e, g, h, k : /\ e = u.running /\ g = f[n].amount
                          /\ h = Sum(f, Before(f, a, n)) /\ k = Sum(f, Before(f, a, n + 1))
      OBVIOUS
    <3>1. e \in Int /\ g \in Int /\ h \in Int /\ k \in Int
      BY <1>1, <1>2, <1>4 DEF AccountRead
    <3>2. r.balance = e + h /\ r.running = e - g /\ k = h + g
      BY <1>2, <2>1, <2>2
    <3>3. e + h = e - g + k
      BY ONLY <3>1, <3>2
    <3> QED BY <3>2, <3>3
  <2> QED BY <1>3, <1>5, <2>1, <2>3 DEF Known, Holding
<1>6. CASE ~Direct(f[n])
  <2>1. Before(f, a, n + 1) = Before(f, a, n)
    BY <1>6, RowsStay DEF DirectOf
  <2> QED BY <1>2, <1>3, <1>6, <2>1 DEF Known, Holding
<1> QED BY <1>5, <1>6

\* Every row was validated: the debits can begin.
LEMMA ValidatedAll ==
  ASSUME NEW f \in Files, NEW a, NEW t \in AccountRead \cup {Null}, NEW v, NEW m,
         Known("validate", f, Len(f) + 1, FALSE, a, t), Fits("validate", f, Len(f) + 1, a, t, v, m),
         NEW w
  PROVE  Known("debit", f, 1, w, a, t) /\ Fits("debit", f, 1, a, t, v, m)
<1>1. DOMAIN f = 1..Len(f) /\ Len(f) \in Nat /\ \A j \in DOMAIN f : j < Len(f) + 1
  BY RowsBounded
<1> QED BY <1>1, RowsEnd DEF Known, Fits, Taken, Holding

\* A row that is taken is covered, and the account goes on fitting.
LEMMA DebitedHere ==
  ASSUME NEW f \in Files, NEW n \in DOMAIN f, NEW w, NEW a, NEW t \in AccountRead \cup {Null},
         NEW v \in Nat, NEW m \in Nat,
         Known("debit", f, n, w, a, t), Fits("debit", f, n, a, t, v, m),
         f[n].account = a, Direct(f[n])
  PROVE  /\ t # Null /\ t.balance >= f[n].amount
         /\ Paid(t, f[n].amount) \in AccountRead
         /\ Known("debit", f, n + 1, w, a, Paid(t, f[n].amount))
         /\ Fits("debit", f, n + 1, a, Paid(t, f[n].amount), v, m)
<1>1. DOMAIN f = 1..Len(f) /\ Len(f) \in Nat /\ f[n].amount \in Nat
  BY RowsBounded, BatchAssumption DEF Row
<1>2. t # Null /\ t.balance = t.running + Sum(f, From(f, a, n))
  BY DEF Known
<1>3. t \in [version : Nat, balance : Nat, running : Nat] /\ Null \notin AccountRead
  BY <1>2, BatchAssumption DEF AccountRead
<1>4. /\ Sum(f, Before(f, a, n)) \in Nat /\ Sum(f, Before(f, a, n + 1)) \in Nat
      /\ Sum(f, From(f, a, n)) \in Nat /\ Sum(f, From(f, a, n + 1)) \in Nat
  BY FileSums DEF Before, From
<1>5. /\ Sum(f, Before(f, a, n + 1)) = Sum(f, Before(f, a, n)) + f[n].amount
      /\ Sum(f, From(f, a, n)) = Sum(f, From(f, a, n + 1)) + f[n].amount
  BY RowsMoveOn DEF DirectOf
<1>6. t.balance >= f[n].amount
  BY <1>1, <1>2, <1>3, <1>4, <1>5
<1> PICK r : r = Paid(t, f[n].amount)
  OBVIOUS
<1>7. /\ r \in AccountRead /\ r.version = t.version /\ r.running = t.running
      /\ r.balance = t.balance - f[n].amount
  BY <1>1, <1>3, <1>6 DEF AccountRead, Paid
<1>8. Known("debit", f, n + 1, w, a, r)
  <2>1. r.balance = r.running + Sum(f, From(f, a, n + 1))
    <3> PICK c, e, g, h, k : /\ c = t.balance /\ e = t.running /\ g = f[n].amount
                             /\ h = Sum(f, From(f, a, n)) /\ k = Sum(f, From(f, a, n + 1))
      OBVIOUS
    <3>1. c \in Int /\ e \in Int
      BY <1>3
    <3>2. g \in Int /\ h \in Int /\ k \in Int
      BY <1>1, <1>4
    <3>3. c = e + h /\ h = k + g
      BY <1>2, <1>5
    <3>4. c - g = e + k
      BY ONLY <3>1, <3>2, <3>3
    <3> QED BY <1>7, <3>4
  <2> QED BY <1>3, <1>7, <2>1 DEF Known, Holding
<1>9. Fits("debit", f, n + 1, a, r, v, m)
  <2>1. t.version <= v /\ (t.version = v => m = t.balance + Sum(f, Before(f, a, n)))
    BY <1>2 DEF Fits, Taken
  <2>2. t.version = v => m = r.balance + Sum(f, Before(f, a, n + 1))
    <3>1. t.balance \in Int
      BY <1>3
    <3> QED BY ONLY <1>1, <1>4, <1>5, <1>7, <2>1, <3>1
  <2> QED BY <1>7, <2>1, <2>2 DEF Fits, Taken
<1> QED BY <1>2, <1>6, <1>7, <1>8, <1>9

LEMMA DebitedElsewhere ==
  ASSUME NEW f \in Files, NEW n \in DOMAIN f, NEW w, NEW a, NEW t, NEW v, NEW m,
         Known("debit", f, n, w, a, t), Fits("debit", f, n, a, t, v, m),
         ~(f[n].account = a /\ Direct(f[n]))
  PROVE  Known("debit", f, n + 1, w, a, t) /\ Fits("debit", f, n + 1, a, t, v, m)
<1>1. n \notin DirectOf(f, a)
  BY DEF DirectOf
<1> QED BY <1>1, RowsStay DEF Known, Fits, Taken, Holding

\* Every row was taken: from here on neither the row nor the label matters.
LEMMA DebitedAll ==
  ASSUME NEW f \in Files, NEW a, NEW t, NEW v, NEW m, NEW w, NEW n,
         Known("debit", f, Len(f) + 1, w, a, t), Fits("debit", f, Len(f) + 1, a, t, v, m)
  PROVE  Known("lock", f, n, w, a, t) /\ Fits("lock", f, n, a, t, v, m)
BY RowsEnd DEF Known, Fits, Taken, Holding

LEMMA HeldAll ==
  ASSUME NEW f, NEW a, NEW t, NEW v, NEW m, NEW w, NEW n, NEW k \in Holding,
         NEW l \in Holding, NEW i, Known(k, f, n, w, a, t), Fits(k, f, n, a, t, v, m)
  PROVE  Known(l, f, i, w, a, t) /\ Fits(l, f, i, a, t, v, m)
BY DEF Known, Fits, Taken, Holding

\* The payments made, by what they took from account a.
Spent(a) == Sum(payments, CompletedFrom(a))

LEMMA SpentNext ==
  ASSUME NEW a
  PROVE  Spent(a)' = Sum(payments', CompletedFrom(a)')
BY DEF Spent, Sum, MapThenSumSet, MapThenFoldSet

FundsType ==
  /\ balance \in [Accounts -> Nat] /\ version \in [Accounts -> Nat]
  /\ tracked \in [Batches -> [Accounts -> AccountRead \cup {Null}]]
  /\ wrong \in [Batches -> BOOLEAN]

Books ==
  \A a \in Accounts :
    IsFiniteSet(CompletedFrom(a)) /\ balance[a] = OpeningBalance[a] - Spent(a)

\* What a request knows of the accounts is so; while its transaction is open, the rows it
\* writes have the version that was read.
BatchFunds(b) ==
  /\ pc[b] = "idle" => ~wrong[b] /\ \A a \in Accounts : tracked[b][a] = Null
  /\ pc[b] \in Working =>
       \A a \in Accounts :
         /\ Known(pc[b], file[b], at[b], wrong[b], a, tracked[b][a])
         /\ Fits(pc[b], file[b], at[b], a, tracked[b][a], version[a], balance[a])
  /\ Appends(b) => \A a \in Accounts \cap DebitedAccounts(b) : version[a] = tracked[b][a].version
  /\ reply[b] # "insufficient_funds"

FundsInv == FundsType /\ Books /\ \A b \in Batches : BatchFunds(b)

\* The invariant is enough.
LEMMA FundsInvGivesMoney ==
  ASSUME FundsInv
  PROVE  BatchMoney
<1>1. NoOverdraft
  BY DEF FundsInv, FundsType, NoOverdraft
<1>2. ASSUME NEW a \in Accounts
      PROVE  balance[a] = OpeningBalance[a]
                            - MapThenSumSet(LAMBDA p : payments[p].amount, CompletedFrom(a))
  BY DEF FundsInv, Books, Spent, Sum
<1>3. \A b \in Batches : reply[b] # "insufficient_funds"
  BY DEF FundsInv, BatchFunds
<1> QED BY <1>1, <1>2, <1>3 DEF BatchMoney

LEMMA InitFunds == Init => FundsInv
<1> SUFFICES ASSUME Init PROVE FundsInv
  OBVIOUS
<1>1. FundsType
  BY BatchAssumption DEF Init, FundsType
<1>2. ASSUME NEW a \in Accounts
      PROVE  IsFiniteSet(CompletedFrom(a)) /\ balance[a] = OpeningBalance[a] - Spent(a)
  <2>1. CompletedFrom(a) = {}
    BY DEF Init, CompletedFrom, Stored
  <2>2. Sum(payments, {}) = 0
    BY FS_EmptySet, SumOfRest
  <2> QED BY <2>1, <2>2, FS_EmptySet, BatchAssumption DEF Spent, Init
<1>3. ASSUME NEW b \in Batches PROVE BatchFunds(b)
  BY DEF Init, BatchFunds, Working, Holding, Appends
<1> QED BY <1>1, <1>2, <1>3 DEF FundsInv, Books

\* An account that gets a newer version goes on fitting.
LEMMA FitsNewer ==
  ASSUME NEW l, NEW f, NEW n, NEW a, NEW t \in AccountRead \cup {Null}, NEW v \in Nat, NEW m,
         NEW k, Fits(l, f, n, a, t, v, m)
  PROVE  Fits(l, f, n, a, t, v + 1, k)
<1>1. t # Null => t.version \in Nat /\ t.version <= v
  BY DEF Fits, AccountRead
<1>2. t # Null => t.version <= v + 1 /\ t.version # v + 1
  BY <1>1
<1> QED BY <1>2 DEF Fits

\* The memory of request c.
SameMemory(c) ==
  /\ pc'[c] = pc[c] /\ file'[c] = file[c] /\ at'[c] = at[c] /\ reply'[c] = reply[c]
  /\ tracked'[c] = tracked[c] /\ wrong'[c] = wrong[c]

\* A request at rest keeps what it knows when others change accounts, unless its own
\* transaction is open.
LEMMA RestKeepsFunds ==
  ASSUME FundsInv, NEW c \in Batches, SameMemory(c),
         \A a \in Accounts : \/ version'[a] = version[a] /\ balance'[a] = balance[a]
                             \/ version'[a] = version[a] + 1 /\ ~Appends(c)
  PROVE  BatchFunds(c)'
<1>1. ASSUME NEW a \in Accounts, pc[c] \in Working
      PROVE  /\ Known(pc'[c], file'[c], at'[c], wrong'[c], a, tracked'[c][a])
             /\ Fits(pc'[c], file'[c], at'[c], a, tracked'[c][a], version'[a], balance'[a])
  <2> PICK l, f, n, t, v, m : /\ l = pc[c] /\ f = file[c] /\ n = at[c] /\ t = tracked[c][a]
                              /\ v = version[a] /\ m = balance[a]
    OBVIOUS
  <2>1. Known(l, f, n, wrong[c], a, t) /\ Fits(l, f, n, a, t, v, m)
    BY <1>1 DEF FundsInv, BatchFunds
  <2>2. t \in AccountRead \cup {Null} /\ v \in Nat
    BY DEF FundsInv, FundsType
  <2>3. Fits(l, f, n, a, t, version'[a], balance'[a])
    <3>1. CASE version'[a] = v /\ balance'[a] = m
      BY <2>1, <3>1
    <3>2. CASE version'[a] = v + 1
      <4> PICK k : k = balance'[a]
        OBVIOUS
      <4>1. Fits(l, f, n, a, t, v + 1, k)
        BY <2>1, <2>2, FitsNewer
      <4> QED BY <3>2, <4>1
    <3> QED BY <3>1, <3>2
  <2> QED BY <2>1, <2>3 DEF SameMemory
<1>2. ASSUME Appends(c), NEW a \in Accounts \cap DebitedAccounts(c)'
      PROVE  version'[a] = tracked'[c][a].version
  <2>1. a \in Accounts \cap DebitedAccounts(c)
    BY DEF SameMemory, DebitedAccounts, RowsOf
  <2> QED BY <1>2, <2>1 DEF FundsInv, BatchFunds, SameMemory
<1> QED BY <1>1, <1>2 DEF FundsInv, BatchFunds, SameMemory, Appends

\* A step of request b that writes no row that has to do with money.
LEMMA MemoryKeepsFunds ==
  ASSUME FundsInv, NEW b \in Batches, UNCHANGED <<balance, version, payments>>,
         \A c \in Batches \ {b} : SameMemory(c),
         FundsType', BatchFunds(b)'
  PROVE  FundsInv'
<1>1. \A c \in Batches \ {b} : BatchFunds(c)'
  BY RestKeepsFunds
<1>2. ASSUME NEW a \in Accounts
      PROVE  IsFiniteSet(CompletedFrom(a)') /\ balance'[a] = OpeningBalance[a] - Spent(a)'
  <2>1. CompletedFrom(a)' = CompletedFrom(a)
    BY DEF CompletedFrom, Stored
  <2>2. Spent(a)' = Spent(a)
    BY <2>1, SpentNext DEF Spent
  <2> QED BY <2>1, <2>2 DEF FundsInv, Books
<1> QED BY <1>1, <1>2 DEF FundsInv, Books

\* The steps before the first row.
LEMMA ReceiveFunds ==
  ASSUME Inv, FundsInv, NEW b \in Batches, CreatePaymentsBatch(b) \/ RefuseFile(b)
  PROVE  FundsInv'
<1>1. /\ UNCHANGED <<balance, version, payments, tracked, wrong, at>> /\ pc[b] = "idle"
      /\ \A c \in Batches \ {b} : SameMemory(c)
  BY DEF CreatePaymentsBatch, RefuseFile, Goto, Answer, database, memory, SameMemory, Inv, TypeInv
<1>2. FundsType'
  BY <1>1 DEF FundsInv, FundsType
<1>3. at[b] = 1 /\ ~wrong[b] /\ (\A a \in Accounts : tracked[b][a] = Null)
      /\ reply[b] # "insufficient_funds"
  BY <1>1 DEF Inv, BatchOk, FundsInv, BatchFunds
<1>4. CASE CreatePaymentsBatch(b)
  <2>1. file'[b] \in Files /\ pc'[b] = "validate" /\ UNCHANGED reply
    BY <1>4 DEF CreatePaymentsBatch, Goto, Inv, TypeInv
  <2> PICK f : f = file'[b]
    OBVIOUS
  <2>2. \A a \in Accounts : /\ Known("validate", f, 1, FALSE, a, Null)
                            /\ Fits("validate", f, 1, a, Null, version[a], balance[a])
    BY <2>1, RowsBounded DEF Known, Fits, Holding
  <2>3. ~Appends(b)'
    BY <2>1 DEF Appends
  <2>4. BatchFunds(b)'
    BY <1>1, <1>3, <2>1, <2>2, <2>3 DEF BatchFunds, FundsInv, FundsType
  <2> QED BY <1>1, <1>2, <2>4, MemoryKeepsFunds
<1>5. CASE RefuseFile(b)
  <2>1. pc'[b] = "done" /\ reply'[b] \in {"forbidden", "bad_request"}
    BY <1>5 DEF RefuseFile, Answer, Inv, TypeInv
  <2>2. BatchFunds(b)'
    BY <2>1 DEF BatchFunds, Appends, Working, Holding
  <2> QED BY <1>1, <1>2, <2>2, MemoryKeepsFunds
<1> QED BY <1>4, <1>5

\* A batch that ends without a commit.
LEMMA EndFunds ==
  ASSUME Inv, FundsInv, NEW b \in Batches,
         UNCHANGED <<balance, version, payments>>, FundsType',
         \A c \in Batches \ {b} : SameMemory(c),
         pc'[b] \in {"finally", "done"}, reply'[b] # "insufficient_funds"
  PROVE  FundsInv'
<1>1. BatchFunds(b)'
  BY DEF BatchFunds, Appends, Working, Holding
<1> QED BY <1>1, MemoryKeepsFunds

LEMMA FailFunds ==
  ASSUME Inv, FundsInv, NEW b \in Batches, CallFails(b) \/ Release(b)
  PROVE  FundsInv'
<1>1. /\ UNCHANGED <<balance, version, payments, tracked, wrong>>
      /\ \A c \in Batches \ {b} : SameMemory(c)
      /\ pc'[b] \in {"finally", "done"} /\ reply'[b] \in {"error", reply[b]}
  BY DEF CallFails, Release, Answer, Leave, database, memory, SameMemory, Inv, TypeInv
<1>2. reply'[b] # "insufficient_funds" /\ FundsType'
  BY <1>1 DEF FundsInv, FundsType, BatchFunds
<1> QED BY <1>1, <1>2, EndFunds

\* The steps between the debits and the commit: what the request knows stays.
LEMMA HoldFunds ==
  ASSUME Inv, FundsInv, NEW b \in Batches,
         UNCHANGED <<balance, version, payments, tracked, wrong, file, reply>>,
         \A c \in Batches \ {b} : SameMemory(c),
         pc[b] \in Holding, pc'[b] \in Holding,
         \/ Appends(b) \/ ~Appends(b)'
         \/ \A a \in DebitedAccounts(b) : version[a] = tracked[b][a].version
  PROVE  FundsInv'
<1>1. FundsType'
  BY DEF FundsInv, FundsType
<1>2. ASSUME NEW a \in Accounts
      PROVE  /\ Known(pc'[b], file[b], at'[b], wrong[b], a, tracked[b][a])
             /\ Fits(pc'[b], file[b], at'[b], a, tracked[b][a], version[a], balance[a])
  <2>1. /\ Known(pc[b], file[b], at[b], wrong[b], a, tracked[b][a])
        /\ Fits(pc[b], file[b], at[b], a, tracked[b][a], version[a], balance[a])
    BY DEF FundsInv, BatchFunds, Working
  <2> PICK f, n, i, k, l, w, t, v, m :
         /\ f = file[b] /\ n = at[b] /\ i = at'[b] /\ k = pc[b] /\ l = pc'[b] /\ w = wrong[b]
         /\ t = tracked[b][a] /\ v = version[a] /\ m = balance[a]
    OBVIOUS
  <2>2. k \in Holding /\ l \in Holding /\ Known(k, f, n, w, a, t) /\ Fits(k, f, n, a, t, v, m)
    BY <2>1
  <2>3. Known(l, f, i, w, a, t) /\ Fits(l, f, i, a, t, v, m)
    BY <2>2, HeldAll
  <2> QED BY <2>3
<1>3. Appends(b)' => \A a \in Accounts \cap DebitedAccounts(b) : version[a] = tracked[b][a].version
  BY DEF FundsInv, BatchFunds
<1>4. DebitedAccounts(b)' = DebitedAccounts(b)
  BY DEF DebitedAccounts, RowsOf
<1>5. reply[b] # "insufficient_funds"
  BY DEF FundsInv, BatchFunds
<1>6. BatchFunds(b)'
  <2>1. pc'[b] # "idle"
    BY DEF Holding
  <2> QED BY <1>2, <1>3, <1>4, <1>5, <2>1 DEF BatchFunds
<1> QED BY <1>1, <1>6, MemoryKeepsFunds

LEMMA SectionFunds ==
  ASSUME Inv, FundsInv, NEW b \in Batches,
         EnterBatch(b) \/ AddPayments(b) \/ AppendEntry(b) \/ SaveEntry(b)
  PROVE  FundsInv'
<1>1. /\ UNCHANGED <<balance, version, payments, tracked, wrong, file>>
      /\ pc[b] \in Holding
  BY DEF EnterBatch, AddPayments, AppendEntry, SaveEntry, database, memory, Holding
<1>2. CASE EnterBatch(b)
  <2>1. /\ UNCHANGED reply /\ pc'[b] = "insert"
        /\ \A c \in Batches \ {b} : SameMemory(c)
    BY <1>2 DEF EnterBatch, Goto, database, memory, SameMemory, Inv, TypeInv
  <2> QED BY <1>1, <2>1, HoldFunds DEF Holding, Appends
<1>3. CASE AddPayments(b)
  <2>1. CASE Leave(b, "account_changed")
    <3>1. pc'[b] = "finally" /\ reply'[b] = "account_changed"
          /\ \A c \in Batches \ {b} : SameMemory(c)
      BY <1>3, <2>1 DEF AddPayments, Leave, database, memory, SameMemory, Inv, TypeInv
    <3>2. FundsType'
      BY <1>1 DEF FundsInv, FundsType
    <3> QED BY <1>1, <3>1, <3>2, EndFunds
  <2>2. CASE ~AccountChanged(b) /\ Goto(b, "append")
    <3>1. /\ UNCHANGED reply /\ pc'[b] = "append"
          /\ \A c \in Batches \ {b} : SameMemory(c)
      BY <1>3, <2>2 DEF AddPayments, Goto, database, memory, SameMemory, Inv, TypeInv
    <3>2. \A a \in DebitedAccounts(b) : version[a] = tracked[b][a].version
      BY <2>2 DEF AccountChanged
    <3> QED BY <1>1, <3>1, <3>2, HoldFunds DEF Holding
  <2> QED BY <1>3, <2>1, <2>2 DEF AddPayments
<1>4. CASE AppendEntry(b)
  <2>1. /\ UNCHANGED reply /\ pc[b] = "append" /\ pc'[b] = "log"
        /\ \A c \in Batches \ {b} : SameMemory(c)
    BY <1>4 DEF AppendEntry, Goto, database, memory, SameMemory, Inv, TypeInv
  <2> QED BY <1>1, <2>1, HoldFunds DEF Holding, Appends
<1>5. CASE SaveEntry(b)
  <2>1. pc[b] = "log" /\ NextRow(b, "append", "commit")
    BY <1>5 DEF SaveEntry
  <2>2. /\ UNCHANGED reply /\ pc'[b] \in {"append", "commit"}
        /\ \A c \in Batches \ {b} : pc'[c] = pc[c] /\ at'[c] = at[c]
    BY <2>1, NextRowType DEF Over, PcLabels
  <2>3. \A c \in Batches \ {b} : SameMemory(c)
    BY <1>1, <2>2 DEF SameMemory
  <2> QED BY <1>1, <2>1, <2>2, <2>3, HoldFunds DEF Holding, Appends
<1> QED BY <1>2, <1>3, <1>4, <1>5


\* A row that is looked up goes on fitting.
LEMMA ReadFits ==
  ASSUME NEW f \in Files, NEW n \in DOMAIN f, NEW a, NEW t \in AccountRead \cup {Null},
         NEW v \in Nat, NEW m \in Nat, Fits("validate", f, n, a, t, v, m),
         NEW u, u = Read(t, v, m)
  PROVE  /\ u \in AccountRead /\ Fits("validate", f, n + 1, a, u, v, m)
         /\ u.running >= f[n].amount =>
              /\ Less(u, f[n].amount) \in AccountRead
              /\ Fits("validate", f, n + 1, a, Less(u, f[n].amount), v, m)
<1>1. f[n].amount \in Nat
  BY RowsBounded, BatchAssumption DEF Row
<1>2. u \in AccountRead /\ u.version <= v /\ (u.version = v => m = u.balance)
  <2>1. CASE t # Null
    <3>1. t.version <= v /\ (t.version = v => m = t.balance + 0)
      BY <2>1, RowsEnd DEF Fits, Taken
    <3> QED BY <2>1, <3>1 DEF AccountRead, Read
  <2>2. CASE t = Null
    BY <2>2 DEF AccountRead, Read
  <2> QED BY <2>1, <2>2
<1>3. ASSUME NEW r \in AccountRead, r.version = u.version, r.balance = u.balance
      PROVE  Fits("validate", f, n + 1, a, r, v, m)
  <2>1. r.version <= v /\ (r.version = v => m = r.balance + 0)
    BY <1>2, <1>3 DEF AccountRead
  <2> QED BY <2>1, RowsEnd DEF Fits, Taken
<1>4. ASSUME u.running >= f[n].amount
      PROVE  /\ Less(u, f[n].amount) \in AccountRead
             /\ Fits("validate", f, n + 1, a, Less(u, f[n].amount), v, m)
  <2> PICK r : r = Less(u, f[n].amount)
    OBVIOUS
  <2>1. r \in AccountRead /\ r.version = u.version /\ r.balance = u.balance
    BY <1>1, <1>2, <1>4 DEF AccountRead, Less
  <2> QED BY <1>3, <2>1
<1> QED BY <1>2, <1>3, <1>4

\* The loop over the rows, for a step that has handled row n at label k.
LEMMA LoopFunds ==
  ASSUME Inv, FundsInv, NEW b \in Batches, NEW k \in {"validate", "debit"},
         pc[b] = k, UNCHANGED <<balance, version, payments, file>>, FundsType',
         NextRow(b, k, IF k = "validate" THEN "debit" ELSE "lock"),
         k = "validate" /\ at[b] = Len(file[b]) => ~wrong'[b],
         \A c \in Batches \ {b} : tracked'[c] = tracked[c] /\ wrong'[c] = wrong[c],
         \A a \in Accounts :
           /\ Known(k, file[b], at[b] + 1, wrong'[b], a, tracked'[b][a])
           /\ Fits(k, file[b], at[b] + 1, a, tracked'[b][a], version[a], balance[a])
  PROVE  FundsInv'
<1> DEFINE l == IF k = "validate" THEN "debit" ELSE "lock"
<1>1. /\ reply' = reply
      /\ \/ at'[b] = at[b] + 1 /\ pc'[b] = k
         \/ at[b] = Len(file[b]) /\ at'[b] = 1 /\ pc'[b] = l
      /\ \A c \in Batches \ {b} : pc'[c] = pc[c] /\ at'[c] = at[c]
  <2>1. k \in PcLabels /\ l \in PcLabels /\ ~Over(b) /\ pc[b] # "idle"
    BY DEF PcLabels, Over
  <2> QED BY <2>1, NextRowType
<1>2. \A c \in Batches \ {b} : SameMemory(c)
  BY <1>1 DEF SameMemory
<1>3. file[b] \in Files
  BY DEF Inv, BatchOk, Over
<1>4. ASSUME NEW a \in Accounts
      PROVE  /\ Known(pc'[b], file[b], at'[b], wrong'[b], a, tracked'[b][a])
             /\ Fits(pc'[b], file[b], at'[b], a, tracked'[b][a], version[a], balance[a])
  <2> PICK f, w, t, v, m : /\ f = file[b] /\ w = wrong'[b] /\ t = tracked'[b][a]
                           /\ v = version[a] /\ m = balance[a]
    OBVIOUS
  <2>1. f \in Files /\ t \in AccountRead \cup {Null}
    BY <1>3 DEF FundsType
  <2>2. CASE at'[b] = at[b] + 1 /\ pc'[b] = k
    BY <2>2
  <2>3. CASE at[b] = Len(f) /\ at'[b] = 1 /\ pc'[b] = l
    <3>1. Known(k, f, Len(f) + 1, w, a, t) /\ Fits(k, f, Len(f) + 1, a, t, v, m)
      BY <2>3
    <3>2. CASE k = "validate"
      <4>1. w = FALSE
        BY <2>3, <3>2 DEF FundsType
      <4>2. Known("debit", f, 1, w, a, t) /\ Fits("debit", f, 1, a, t, v, m)
        <5>1. /\ Known("validate", f, Len(f) + 1, FALSE, a, t)
              /\ Fits("validate", f, Len(f) + 1, a, t, v, m)
          BY ONLY <3>1, <3>2, <4>1
        <5> QED BY ONLY <2>1, <5>1, ValidatedAll, ZenonT(60)
      <4> QED BY <2>3, <3>2, <4>2
    <3>3. CASE k = "debit"
      <4>1. Known("lock", f, 1, w, a, t) /\ Fits("lock", f, 1, a, t, v, m)
        BY <2>1, <3>1, <3>3, DebitedAll
      <4> QED BY <2>3, <3>3, <4>1
    <3> QED BY <3>2, <3>3
  <2> QED BY <1>1, <2>2, <2>3
<1>5. BatchFunds(b)'
  <2>1. pc'[b] # "idle" /\ ~Appends(b)'
    BY <1>1 DEF Appends
  <2>2. reply'[b] # "insufficient_funds"
    BY <1>1 DEF FundsInv, BatchFunds
  <2> QED BY <1>4, <2>1, <2>2 DEF BatchFunds
<1> QED BY <1>2, <1>5, MemoryKeepsFunds

LEMMA ValidateFunds ==
  ASSUME Inv, FundsInv, NEW b \in Batches, ValidateRow(b)
  PROVE  FundsInv'
<1> PICK f, n, x, t, v, m : /\ f = file[b] /\ n = at[b] /\ x = f[n].account
                            /\ t = tracked[b][x] /\ v = version[x] /\ m = balance[x]
  OBVIOUS
<1> PICK u : u = Read(t, v, m)
  OBVIOUS
<1> DEFINE found   == x \in OwnAccounts
           takes   == found /\ f[n].correct /\ Direct(f[n])
           covered == u.running >= f[n].amount
           invalid == wrong[b] \/ ~found \/ ~f[n].correct \/ (takes /\ ~covered)
           r == IF takes /\ covered THEN Less(u, f[n].amount) ELSE u
<1>0. pc[b] = "validate"
  BY DEF ValidateRow
<1>1. /\ UNCHANGED <<balance, version, payments, file>>
      /\ tracked' = IF ~found THEN tracked ELSE [tracked EXCEPT ![b][x] = r]
      /\ wrong' = [wrong EXCEPT ![b] = invalid]
      /\ \/ n = Len(f) /\ invalid /\ Answer(b, "invalid_rows") /\ UNCHANGED at
         \/ ~(n = Len(f) /\ invalid) /\ NextRow(b, "validate", "debit")
  BY DEF ValidateRow, CurrentRow, GetAccount, Read, Less, database
<1>2. f \in Files /\ n \in DOMAIN f /\ f[n] \in Row
  <2>1. f \in Files /\ n \in DOMAIN f
    BY <1>0 DEF Inv, BatchOk, Over, RowsOf
  <2> QED BY <2>1, RowsBounded
<1>3. x \in Accounts
  BY <1>2 DEF Row
<1>4. /\ t \in AccountRead \cup {Null} /\ v \in Nat /\ m \in Nat
      /\ Known("validate", f, n, wrong[b], x, t) /\ Fits("validate", f, n, x, t, v, m)
  <2>1. t \in AccountRead \cup {Null} /\ v \in Nat /\ m \in Nat
    BY <1>3 DEF FundsInv, FundsType
  <2>2. Known("validate", f, n, wrong[b], x, t) /\ Fits("validate", f, n, x, t, v, m)
    <3>1. /\ Known("validate", f, n, wrong[b], x, tracked[b][x])
          /\ Fits("validate", f, n, x, tracked[b][x], version[x], balance[x])
      BY ONLY FundsInv, b \in Batches, f = file[b], n = at[b], <1>0, <1>3
         DEF FundsInv, BatchFunds, Working
    <3> QED BY <3>1
  <2> QED BY <2>1, <2>2
<1>5. r \in AccountRead /\ Fits("validate", f, n + 1, x, r, v, m)
  <2>1. /\ u \in AccountRead /\ Fits("validate", f, n + 1, x, u, v, m)
        /\ u.running >= f[n].amount =>
             /\ Less(u, f[n].amount) \in AccountRead
             /\ Fits("validate", f, n + 1, x, Less(u, f[n].amount), v, m)
    BY ONLY <1>2, <1>4, u = Read(t, v, m), ReadFits, ZenonT(60)
  <2> QED BY <2>1
<1>6. invalid \in BOOLEAN
  BY <1>2 DEF FundsInv, FundsType, Row, Direct
<1>7. ~invalid => Known("validate", f, n + 1, FALSE, x, r)
  <2> SUFFICES ASSUME ~invalid PROVE Known("validate", f, n + 1, FALSE, x, r)
    OBVIOUS
  <2>1. ~wrong[b] /\ (takes <=> Direct(f[n])) /\ (Direct(f[n]) => covered)
    BY <1>2 DEF Row
  <2>2. u = Read(t, v, m)
    OBVIOUS
  <2>3. /\ Direct(f[n]) => Known("validate", f, n + 1, FALSE, x, Less(u, f[n].amount))
        /\ ~Direct(f[n]) => Known("validate", f, n + 1, FALSE, x, u)
    <3>1. f[n].account = x /\ (Direct(f[n]) => u.running >= f[n].amount)
      BY <2>1
    <3>2. wrong[b] = FALSE
      BY <2>1 DEF FundsInv, FundsType
    <3>3. Known("validate", f, n, FALSE, x, t) /\ Fits("validate", f, n, x, t, v, m)
      BY <1>4, <3>2
    <3> HIDE DEF found, takes, covered, invalid, r
    <3> QED BY ONLY <1>2, <1>4, <2>2, <3>1, <3>3, ValidatedHere, ZenonT(60)
  <2>4. r = IF Direct(f[n]) THEN Less(u, f[n].amount) ELSE u
    BY <2>1
  <2> QED BY <2>3, <2>4
<1> PICK y : y = r
  OBVIOUS
<1> PICK w : w = invalid
  OBVIOUS
<1>8. /\ y \in AccountRead /\ Fits("validate", f, n + 1, x, y, v, m)
      /\ w \in BOOLEAN /\ wrong'[b] = w /\ (~w => Known("validate", f, n + 1, FALSE, x, y))
      /\ wrong' = [wrong EXCEPT ![b] = w]
      /\ \/ tracked' = tracked /\ w
         \/ tracked' = [tracked EXCEPT ![b][x] = y]
      /\ ~w => ~wrong[b]
  BY <1>1, <1>5, <1>6, <1>7 DEF FundsInv, FundsType
<1>9. /\ \/ n = Len(f) /\ w /\ Answer(b, "invalid_rows") /\ UNCHANGED at
         \/ ~(n = Len(f) /\ w) /\ NextRow(b, "validate", "debit")
  BY <1>1
<1> HIDE DEF r, invalid
<1>10. FundsType' /\ \A c \in Batches \ {b} : tracked'[c] = tracked[c] /\ wrong'[c] = wrong[c]
  BY <1>1, <1>3, <1>8 DEF FundsInv, FundsType
<1>11. ASSUME NEW a \in Accounts
       PROVE  /\ Known("validate", f, n + 1, w, a, tracked'[b][a])
              /\ Fits("validate", f, n + 1, a, tracked'[b][a], version[a], balance[a])
  <2> PICK s, i, k : s = tracked[b][a] /\ i = version[a] /\ k = balance[a]
    OBVIOUS
  <2>1. Known("validate", f, n, wrong[b], a, s) /\ Fits("validate", f, n, a, s, i, k)
    BY <1>0 DEF FundsInv, BatchFunds, Working
  <2>2. Fits("validate", f, n + 1, a, s, i, k)
    BY <2>1 DEF Fits, Taken
  <2>3. CASE tracked' = tracked /\ w
    BY <2>2, <2>3 DEF Known, Holding
  <2>4. CASE tracked' = [tracked EXCEPT ![b][x] = y]
    <3>1. CASE a = x
      <4>1. tracked'[b][a] = y
        BY <1>3, <2>4, <3>1 DEF FundsInv, FundsType
      <4>2. Known("validate", f, n + 1, w, x, y)
        <5>1. CASE w = TRUE
          BY <5>1 DEF Known, Holding
        <5>2. CASE w = FALSE
          BY <1>8, <5>2
        <5> QED BY <1>8, <5>1, <5>2
      <4> QED BY <1>8, <3>1, <4>1, <4>2
    <3>2. CASE a # x
      <4>1. tracked'[b][a] = s
        BY <1>3, <2>4, <3>2 DEF FundsInv, FundsType
      <4>2. Known("validate", f, n + 1, w, a, s)
        <5>1. /\ f[n].account # a /\ w \in BOOLEAN /\ wrong[b] \in BOOLEAN
              /\ w = FALSE => wrong[b] = FALSE
          BY <1>8, <3>2 DEF FundsInv, FundsType
        <5> QED BY ONLY <1>2, <2>1, <5>1, ValidatedElsewhere, ZenonT(60)
      <4> QED BY <2>2, <4>1, <4>2
    <3> QED BY <3>1, <3>2
  <2> QED BY <1>8, <2>3, <2>4
<1>12. CASE Answer(b, "invalid_rows") /\ UNCHANGED at
  <2>1. /\ pc'[b] = "done" /\ reply'[b] = "invalid_rows"
        /\ \A c \in Batches \ {b} : pc'[c] = pc[c] /\ reply'[c] = reply[c]
    BY <1>12 DEF Answer, Inv, TypeInv
  <2>2. \A c \in Batches \ {b} : SameMemory(c)
    BY <1>1, <1>10, <1>12, <2>1 DEF SameMemory
  <2> QED BY <1>1, <1>10, <2>1, <2>2, EndFunds
<1>13. CASE ~(n = Len(f) /\ w) /\ NextRow(b, "validate", "debit")
  <2>1. UNCHANGED <<balance, version, payments, file>>
    BY <1>1
  <2>2. at[b] = Len(file[b]) => ~wrong'[b]
    BY <1>8, <1>13
  <2>3. ASSUME NEW a \in Accounts
        PROVE  /\ Known("validate", file[b], at[b] + 1, wrong'[b], a, tracked'[b][a])
               /\ Fits("validate", file[b], at[b] + 1, a, tracked'[b][a], version[a], balance[a])
    BY <1>8, <1>11
  <2> QED BY ONLY Inv, FundsInv, b \in Batches, <1>0, <1>10, <1>13, <2>1, <2>2, <2>3, LoopFunds
<1> QED BY <1>9, <1>12, <1>13

LEMMA DebitFunds ==
  ASSUME Inv, FundsInv, NEW b \in Batches, DebitRow(b)
  PROVE  FundsInv'
<1> PICK f, n, x, t, v, m : /\ f = file[b] /\ n = at[b] /\ x = f[n].account
                            /\ t = tracked[b][x] /\ v = version[x] /\ m = balance[x]
  OBVIOUS
<1>1. pc[b] = "debit" /\ UNCHANGED <<balance, version, payments, file, wrong>>
  BY DEF DebitRow, database
<1>2. f \in Files /\ n \in DOMAIN f /\ f[n] \in Row
  <2>1. f \in Files /\ n \in DOMAIN f
    BY <1>1 DEF Inv, BatchOk, Over, RowsOf
  <2> QED BY <2>1, RowsBounded
<1>3. x \in Accounts
  BY <1>2 DEF Row
<1>4. /\ t \in AccountRead \cup {Null} /\ v \in Nat /\ m \in Nat
      /\ Known("debit", f, n, wrong[b], x, t) /\ Fits("debit", f, n, x, t, v, m)
  <2>1. t \in AccountRead \cup {Null} /\ v \in Nat /\ m \in Nat
    BY <1>3 DEF FundsInv, FundsType
  <2>2. Known("debit", f, n, wrong[b], x, t) /\ Fits("debit", f, n, x, t, v, m)
    BY <1>1, <1>3 DEF FundsInv, BatchFunds, Working
  <2> QED BY <2>1, <2>2
<1> PICK r, w : r = Paid(t, f[n].amount) /\ w = wrong[b]
  OBVIOUS
<1>5. Direct(f[n]) =>
        /\ t # Null /\ t.balance >= f[n].amount /\ r \in AccountRead
        /\ Known("debit", f, n + 1, w, x, r) /\ Fits("debit", f, n + 1, x, r, v, m)
  <2> SUFFICES ASSUME Direct(f[n])
               PROVE  /\ t # Null /\ t.balance >= f[n].amount /\ r \in AccountRead
                      /\ Known("debit", f, n + 1, w, x, r) /\ Fits("debit", f, n + 1, x, r, v, m)
    OBVIOUS
  <2>1. f[n].account = x /\ Known("debit", f, n, w, x, t)
    BY <1>4
  <2>2. /\ t # Null /\ t.balance >= f[n].amount /\ Paid(t, f[n].amount) \in AccountRead
        /\ Known("debit", f, n + 1, w, x, Paid(t, f[n].amount))
        /\ Fits("debit", f, n + 1, x, Paid(t, f[n].amount), v, m)
    BY ONLY <1>2, <1>4, <2>1, Direct(f[n]), DebitedHere, ZenonT(60)
  <2> QED BY <2>2
<1>6. /\ NextRow(b, "debit", "lock")
      /\ \/ Direct(f[n]) /\ tracked' = [tracked EXCEPT ![b][x] = r]
         \/ ~Direct(f[n]) /\ tracked' = tracked
  <2>1. CASE Direct(f[n])
    <3>1. GetAccount(b, x) = t
      BY <1>5, <2>1 DEF GetAccount
    <3>2. t.balance \in Nat /\ f[n].amount \in Nat
      BY <1>2, <1>4, <1>5, <2>1, BatchAssumption DEF AccountRead, Row
    <3>3. ~(t.balance < f[n].amount)
      <4>1. t.balance >= f[n].amount
        BY <1>5, <2>1
      <4> QED BY ONLY <3>2, <4>1
    <3> QED BY <2>1, <3>1, <3>3 DEF DebitRow, CurrentRow, Paid
  <2>2. CASE ~Direct(f[n])
    BY <2>2 DEF DebitRow, CurrentRow
  <2> QED BY <2>1, <2>2
<1>7. FundsType' /\ \A c \in Batches \ {b} : tracked'[c] = tracked[c] /\ wrong'[c] = wrong[c]
  <2>1. tracked' \in [Batches -> [Accounts -> AccountRead \cup {Null}]]
    BY ONLY FundsInv, b \in Batches, <1>3, <1>5, <1>6 DEF FundsInv, FundsType
  <2>2. \A c \in Batches \ {b} : tracked'[c] = tracked[c]
    BY ONLY FundsInv, <1>6 DEF FundsInv, FundsType
  <2> QED BY ONLY FundsInv, <1>1, <2>1, <2>2 DEF FundsInv, FundsType
<1>8. ASSUME NEW a \in Accounts
      PROVE  /\ Known("debit", f, n + 1, w, a, tracked'[b][a])
             /\ Fits("debit", f, n + 1, a, tracked'[b][a], version[a], balance[a])
  <2> PICK s, i, k : s = tracked[b][a] /\ i = version[a] /\ k = balance[a]
    OBVIOUS
  <2>1. Known("debit", f, n, w, a, s) /\ Fits("debit", f, n, a, s, i, k)
    BY <1>1 DEF FundsInv, BatchFunds, Working
  <2>2. CASE a = x /\ Direct(f[n])
    <3>1. tracked'[b][a] = r
      BY ONLY FundsInv, b \in Batches, <1>3, <1>6, <2>2 DEF FundsInv, FundsType
    <3> QED BY <1>5, <2>2, <3>1
  <2>3. CASE ~(a = x /\ Direct(f[n]))
    <3>1. tracked'[b][a] = tracked[b][a]
      BY ONLY FundsInv, b \in Batches, a \in Accounts, <1>3, <1>6, <2>3 DEF FundsInv, FundsType
    <3>2. Known("debit", f, n + 1, w, a, s) /\ Fits("debit", f, n + 1, a, s, i, k)
      BY <1>2, <2>1, <2>3, DebitedElsewhere
    <3> QED BY <3>1, <3>2
  <2> QED BY <2>2, <2>3
<1>9. ASSUME NEW a \in Accounts
      PROVE  /\ Known("debit", file[b], at[b] + 1, wrong'[b], a, tracked'[b][a])
             /\ Fits("debit", file[b], at[b] + 1, a, tracked'[b][a], version[a], balance[a])
  BY <1>1, <1>8
<1> QED BY ONLY Inv, FundsInv, b \in Batches, <1>1, <1>6, <1>7, <1>9, LoopFunds

\* The commit writes the balances that are left in memory: what it takes from an account
\* is the sum of the rows it stores.
LEMMA PersistFunds ==
  ASSUME Inv, ChainInv, FundsInv, NEW b \in Batches, Commit(b) \/ CommitAnswerLost(b)
  PROVE  FundsInv'
<1>0. \A x \in Amounts : x \in Int
  <2>1. Amounts \subseteq Nat \ {0}
    BY BatchAssumption
  <2> QED BY ONLY <2>1
<1> PICK f : f = file[b]
  OBVIOUS
<1>1. /\ pc[b] = "commit" /\ payments' = WithPayments(b)
      /\ balance' = [a \in Accounts |-> IF a \in DebitedAccounts(b)
                                        THEN tracked[b][a].balance ELSE balance[a]]
      /\ version' = [a \in Accounts |-> IF a \in DebitedAccounts(b)
                                        THEN version[a] + 1 ELSE version[a]]
      /\ UNCHANGED <<file, tracked, wrong, at>>
      /\ pc'[b] = "finally" /\ reply'[b] \in {"created", "error"}
      /\ \A c \in Batches \ {b} : pc'[c] = pc[c] /\ reply'[c] = reply[c]
  BY DEF Commit, CommitAnswerLost, Persist, Leave, memory, Inv, TypeInv
<1>2. /\ f \in Files /\ DOMAIN f = RowsOf(b) /\ Clean(b)
      /\ \A i \in RowsOf(b) : i \in Nat /\ i \in 1..MaxRows /\ f[i] \in Row
  <2>1. f \in Files /\ Clean(b) /\ DOMAIN f = RowsOf(b)
    BY <1>1 DEF Inv, BatchOk, Over, RowsOf
  <2>2. Len(f) \in Nat /\ DOMAIN f = 1..Len(f) /\ MaxRows \in Nat /\ Len(f) <= MaxRows
        /\ \A i \in DOMAIN f : f[i] \in Row
    BY <2>1, RowsBounded
  <2> QED BY <2>1, <2>2
<1>3. ASSUME NEW a \in Accounts
      PROVE  IF a \in DebitedAccounts(b)
             THEN /\ tracked[b][a] \in AccountRead
                  /\ balance[a] = tracked[b][a].balance + Sum(f, DirectOf(f, a))
             ELSE DirectOf(f, a) = {}
  <2>1. CASE a \in DebitedAccounts(b)
    <3> PICK t, v, m : t = tracked[b][a] /\ v = version[a] /\ m = balance[a]
      OBVIOUS
    <3>1. /\ Known("commit", f, at[b], wrong[b], a, t) /\ Fits("commit", f, at[b], a, t, v, m)
          /\ t \in AccountRead \cup {Null} /\ v = t.version
      BY <1>1, <2>1 DEF FundsInv, FundsType, BatchFunds, Working, Holding, Appends
    <3>2. \E i \in DOMAIN f : f[i].account = a
      BY <1>2, <2>1 DEF DebitedAccounts, RowsOf
    <3>3. t # Null
      BY <3>1, <3>2 DEF Known, Holding
    <3>4. m = t.balance + Sum(f, DirectOf(f, a))
      BY <3>1, <3>3 DEF Fits, Taken
    <3> QED BY <2>1, <3>1, <3>3, <3>4
  <2>2. CASE a \notin DebitedAccounts(b)
    BY <1>2, <2>2 DEF DebitedAccounts, DirectOf
  <2> QED BY <2>1, <2>2
<1>4. FundsType'
  <2>1. \A a \in Accounts : a \in DebitedAccounts(b) => tracked[b][a].balance \in Nat
    BY <1>3 DEF AccountRead
  <2>2. balance' \in [Accounts -> Nat]
    BY <1>1, <2>1 DEF FundsInv, FundsType
  <2>3. version' \in [Accounts -> Nat]
    BY <1>1 DEF FundsInv, FundsType
  <2> QED BY <1>1, <2>2, <2>3 DEF FundsInv, FundsType
<1>5. ASSUME NEW a \in Accounts
      PROVE  IsFiniteSet(CompletedFrom(a)') /\ balance'[a] = OpeningBalance[a] - Spent(a)'
  <2> PICK T, D, row, new : /\ T = CompletedFrom(a) /\ D = DirectOf(f, a)
                            /\ row = payments /\ new = payments'
    OBVIOUS
  <2>1. IsFiniteSet(T) /\ balance[a] = OpeningBalance[a] - Sum(row, T)
    BY DEF FundsInv, Books, Spent
  <2>2. IsFiniteSet(D) /\ HaveAmounts(f, D) /\ Sum(f, D) \in Nat
    BY <1>2, FileSums
  <2>3. \A p \in T : /\ p \in PaymentNames /\ p \notin {b} \X RowsOf(b)
                     /\ row[p] \in Payment /\ new[p] = row[p]
    <3>1. ASSUME NEW p \in T PROVE p \in PaymentNames /\ p \in Stored /\ row[p] \in Payment
      BY DEF CompletedFrom, Stored, Inv, TypeInv
    <3>2. ASSUME NEW p \in T PROVE p \notin {b} \X RowsOf(b)
      BY <1>2, <3>1 DEF Clean
    <3> QED BY <1>1, <3>1, <3>2 DEF WithPayments, Inv, TypeInv
  <2>4. \A i \in D : /\ i \in RowsOf(b) /\ <<b, i>> \in PaymentNames /\ <<b, i>> \notin T
                     /\ new[<<b, i>>] = PaymentOf(f[i])
    <3>1. ASSUME NEW i \in D PROVE i \in RowsOf(b) /\ <<b, i>> \in PaymentNames
      BY <1>2 DEF DirectOf, PaymentNames
    <3>2. ASSUME NEW i \in D PROVE <<b, i>> \notin T
      BY <2>3, <3>1
    <3>3. ASSUME NEW i \in D PROVE new[<<b, i>>] = PaymentOf(f[i])
      BY <1>1, <3>1 DEF WithPayments, Inv, TypeInv
    <3> QED BY <3>1, <3>2, <3>3
  <2>5. CompletedFrom(a)' = T \cup Named(b, D)
    <3>1. ASSUME NEW p, p \in CompletedFrom(a)'
          PROVE  p \in T \cup Named(b, D)
      <4>1. p \in PaymentNames /\ new[p] # Null /\ new[p].account = a
            /\ new[p].status = "completed"
        BY <1>1, <3>1 DEF CompletedFrom, Stored, WithPayments, Inv, TypeInv
      <4>2. CASE p \in {b} \X RowsOf(b)
        <5>1. PICK i \in RowsOf(b) : p = <<b, i>>
          BY <4>2
        <5>2. new[p] = PaymentOf(f[i])
          BY <1>1, <4>1, <5>1 DEF WithPayments, Inv, TypeInv
        <5>3. Direct(f[i]) /\ f[i].account = a
          BY <4>1, <5>2 DEF PaymentOf
        <5> QED BY <1>2, <5>1, <5>3 DEF DirectOf, Named
      <4>3. CASE p \notin {b} \X RowsOf(b)
        <5>1. new[p] = row[p]
          BY <1>1, <4>1, <4>3 DEF WithPayments, Inv, TypeInv
        <5> QED BY <4>1, <5>1 DEF CompletedFrom, Stored, Inv, TypeInv
      <4> QED BY <4>2, <4>3
    <3>2. ASSUME NEW p \in T PROVE p \in CompletedFrom(a)'
      <4>1. row[p] # Null /\ row[p].account = a /\ row[p].status = "completed"
        BY DEF CompletedFrom, Stored
      <4>2. p \in DOMAIN payments'
        BY <1>1, <2>3 DEF WithPayments, Inv, TypeInv
      <4> QED BY <2>3, <4>1, <4>2 DEF CompletedFrom, Stored
    <3>3. ASSUME NEW i \in D PROVE <<b, i>> \in CompletedFrom(a)'
      <4>1. /\ PaymentOf(f[i]).account = a /\ PaymentOf(f[i]).status = "completed"
            /\ PaymentOf(f[i]) \in Payment
        BY <1>2, <2>4 DEF DirectOf, PaymentOf, Row, Payment
      <4>2. <<b, i>> \in DOMAIN payments'
        BY <1>1, <2>4 DEF WithPayments, Inv, TypeInv
      <4> QED BY <2>4, <4>1, <4>2, BatchAssumption DEF CompletedFrom, Stored
    <3> QED BY <3>1, <3>2, <3>3 DEF Named
  <2>6. HaveAmounts(row, T) /\ HaveAmounts(new, T)
    <3>1. ASSUME NEW p \in T PROVE row[p].amount \in Int /\ new[p].amount \in Int
      <4>1. row[p] \in Payment /\ new[p] = row[p]
        BY <2>3
      <4>2. row[p].amount \in Amounts
        BY <4>1 DEF Payment
      <4> QED BY <1>0, <4>1, <4>2
    <3> QED BY <3>1 DEF HaveAmounts
  <2>7. Sum(new, T) = Sum(row, T) /\ Sum(row, T) \in Int
    BY <2>1, <2>3, <2>6, SameAmounts, SumIsInteger
  <2>8. \A i \in D : <<b, i>> \notin T /\ new[<<b, i>>].amount = f[i].amount
    <3>1. ASSUME NEW i \in D PROVE new[<<b, i>>].amount = f[i].amount
      <4>1. new[<<b, i>>] = PaymentOf(f[i])
        BY <2>4
      <4>2. PaymentOf(f[i]).amount = f[i].amount
        BY DEF PaymentOf
      <4> QED BY <4>1, <4>2
    <3> QED BY <2>4, <3>1
  <2>9. /\ IsFiniteSet(T \cup Named(b, D))
        /\ Sum(new, T \cup Named(b, D)) = Sum(new, T) + Sum(f, D)
    BY <2>1, <2>2, <2>6, <2>8, SumWithRows
  <2>10. Spent(a)' = Sum(row, T) + Sum(f, D)
    BY <2>5, <2>7, <2>9, SpentNext
  <2>11. balance'[a] = balance[a] - Sum(f, D)
    <3>1. CASE a \in DebitedAccounts(b)
      <4>1. balance'[a] = tracked[b][a].balance /\ tracked[b][a].balance \in Nat
        BY <1>1, <1>3, <3>1 DEF AccountRead
      <4>2. balance[a] = tracked[b][a].balance + Sum(f, D)
        BY <1>3, <3>1
      <4> QED BY <2>2, <4>1, <4>2
    <3>2. CASE a \notin DebitedAccounts(b)
      <4>1. balance'[a] = balance[a] /\ D = {} /\ balance[a] \in Nat
        BY <1>1, <1>3, <3>2 DEF FundsInv, FundsType
      <4>2. Sum(f, D) = 0
        BY <1>2, <4>1, RowsEnd
      <4> QED BY <4>1, <4>2
    <3> QED BY <3>1, <3>2
  <2>12. OpeningBalance[a] \in Nat
    BY BatchAssumption
  <2> QED BY <2>1, <2>2, <2>5, <2>7, <2>9, <2>10, <2>11, <2>12
<1>6. BatchFunds(b)'
  BY <1>1 DEF BatchFunds, Appends, Working, Holding
<1>7. ASSUME NEW c \in Batches \ {b} PROVE BatchFunds(c)'
  <2>1. SameMemory(c)
    BY <1>1 DEF SameMemory
  <2>2. ~Appends(c)
    BY <1>1, OneAppends DEF Appends, InSection
  <2>3. \A a \in Accounts : \/ version'[a] = version[a] /\ balance'[a] = balance[a]
                            \/ version'[a] = version[a] + 1
    BY <1>1
  <2> QED BY <2>1, <2>2, <2>3, RestKeepsFunds
<1> QED BY <1>4, <1>5, <1>6, <1>7 DEF FundsInv, Books

\* A single payment takes its amount in one step, while no batch has its transaction open.
LEMMA SingleFunds ==
  ASSUME Inv, ChainInv, FundsInv, NEW q \in Singles, SinglePayment(q)
  PROVE  FundsInv'
<1>1. PICK x \in OwnAccounts, n \in Amounts :
        /\ payments[q] = Null /\ lock = Null /\ balance[x] >= n
        /\ payments' = [payments EXCEPT
                          ![q] = [account |-> x, amount |-> n, status |-> "completed"]]
        /\ balance' = [balance EXCEPT ![x] = @ - n]
        /\ version' = [version EXCEPT ![x] = @ + 1]
        /\ UNCHANGED <<file, tracked, wrong, pc, reply, at>>
  BY DEF SinglePayment, memory
<1>2. x \in Accounts /\ n \in Nat /\ q \in PaymentNames
  BY BatchAssumption DEF PaymentNames
<1> PICK new, row, r : /\ new = payments' /\ row = payments
                       /\ r = [account |-> x, amount |-> n, status |-> "completed"]
  OBVIOUS
<1>3. r # Null /\ r.account = x /\ r.amount = n /\ r.status = "completed"
  <2>1. r \in Payment
    BY <1>2 DEF Payment
  <2> QED BY <2>1, BatchAssumption
<1>4. /\ DOMAIN new = PaymentNames /\ DOMAIN row = PaymentNames /\ new[q] = r
      /\ \A p \in PaymentNames \ {q} : new[p] = row[p]
  BY <1>1, <1>2 DEF Inv, TypeInv
<1>5. FundsType'
  <2>1. balance[x] \in Nat /\ balance[x] - n \in Nat /\ version[x] + 1 \in Nat
    BY <1>1, <1>2 DEF FundsInv, FundsType
  <2> QED BY <1>1, <1>2, <2>1 DEF FundsInv, FundsType
<1>6. ASSUME NEW a \in Accounts
      PROVE  IsFiniteSet(CompletedFrom(a)') /\ balance'[a] = OpeningBalance[a] - Spent(a)'
  <2> PICK T : T = CompletedFrom(a)
    OBVIOUS
  <2>1. IsFiniteSet(T) /\ balance[a] = OpeningBalance[a] - Sum(row, T)
    BY DEF FundsInv, Books, Spent
  <2>2. \A p \in T : p \in PaymentNames /\ p # q /\ row[p].amount \in Int
    <3> SUFFICES ASSUME NEW p \in T PROVE p \in PaymentNames /\ p # q /\ row[p].amount \in Int
      OBVIOUS
    <3>1. p \in PaymentNames /\ row[p] # Null
      BY <1>4 DEF CompletedFrom, Stored
    <3>2. row[p] \in Payment
      BY <3>1 DEF Inv, TypeInv
    <3>3. row[p].amount \in Int
      BY <3>2, BatchAssumption DEF Payment
    <3> QED BY <1>1, <3>1, <3>3
  <2>3. CompletedFrom(a)' = IF a = x THEN T \cup {q} ELSE T
    <3>1. ASSUME NEW p \in PaymentNames \ {q} PROVE p \in CompletedFrom(a)' <=> p \in T
      BY <1>4 DEF CompletedFrom, Stored
    <3>2. q \in CompletedFrom(a)' <=> a = x
      BY <1>2, <1>3, <1>4 DEF CompletedFrom, Stored
    <3>3. \A p \in CompletedFrom(a)' : p \in PaymentNames
      BY <1>4 DEF CompletedFrom, Stored
    <3> QED BY <2>2, <3>1, <3>2, <3>3
  <2>4. HaveAmounts(row, T) /\ \A p \in T : new[p].amount = row[p].amount
    BY <1>4, <2>2 DEF HaveAmounts
  <2>5. Sum(new, T) = Sum(row, T) /\ Sum(row, T) \in Int
    BY <2>1, <2>4, SameAmounts, SumIsInteger
  <2>6. Spent(a)' = Sum(new, CompletedFrom(a)')
    BY SpentNext
  <2>7. OpeningBalance[a] \in Nat
    BY BatchAssumption
  <2>8. CASE a = x
    <3>1. q \notin T /\ HaveAmounts(new, T \cup {q}) /\ new[q].amount = n
      BY <1>2, <1>3, <1>4, <2>2, <2>4 DEF HaveAmounts
    <3>2. Sum(new, T \cup {q}) = Sum(new, T) + n
      BY <2>1, <3>1, SumWith
    <3>3. IsFiniteSet(T \cup {q})
      BY <2>1, FS_AddElement
    <3>4. balance'[a] = balance[a] - n
      BY <1>1, <1>2, <2>8 DEF FundsInv, FundsType
    <3>5. CompletedFrom(a)' = T \cup {q}
      BY <2>3, <2>8
    <3>6. Spent(a)' = Sum(row, T) + n
      BY <2>5, <2>6, <3>2, <3>5
    <3> QED BY <1>2, <2>1, <2>5, <2>7, <3>3, <3>4, <3>5, <3>6
  <2>9. CASE a # x
    <3>1. balance'[a] = balance[a]
      BY <1>1, <1>2, <2>9 DEF FundsInv, FundsType
    <3>2. CompletedFrom(a)' = T
      BY <2>3, <2>9
    <3>3. Spent(a)' = Sum(row, T)
      BY <2>5, <2>6, <3>2
    <3> QED BY <2>1, <3>1, <3>2, <3>3
  <2> QED BY <2>8, <2>9
<1>7. ASSUME NEW c \in Batches PROVE BatchFunds(c)'
  <2>1. SameMemory(c)
    BY <1>1 DEF SameMemory
  <2>2. ~Appends(c)
    BY <1>1, OneAppends
  <2>3. \A a \in Accounts : \/ version'[a] = version[a] /\ balance'[a] = balance[a]
                            \/ version'[a] = version[a] + 1
    BY <1>1, <1>2 DEF FundsInv, FundsType
  <2> QED BY <2>1, <2>2, <2>3, RestKeepsFunds
<1> QED BY <1>5, <1>6, <1>7 DEF FundsInv, Books

\* Nothing of the process but its memory is lost in a restart.
LEMMA RestartFunds ==
  ASSUME Inv, FundsInv, Restart \/ UNCHANGED vars
  PROVE  FundsInv'
<1>1. UNCHANGED <<balance, version, payments, tracked, wrong, file, at>>
  BY DEF Restart, vars, database, memory
<1>2. FundsType'
  BY <1>1 DEF FundsInv, FundsType
<1>3. ASSUME NEW a \in Accounts
      PROVE  IsFiniteSet(CompletedFrom(a)') /\ balance'[a] = OpeningBalance[a] - Spent(a)'
  <2>1. CompletedFrom(a)' = CompletedFrom(a)
    BY <1>1 DEF CompletedFrom, Stored
  <2>2. Spent(a)' = Spent(a)
    BY <1>1, <2>1, SpentNext DEF Spent
  <2> QED BY <1>1, <2>1, <2>2 DEF FundsInv, Books
<1>4. ASSUME NEW c \in Batches PROVE BatchFunds(c)'
  <2>1. CASE pc'[c] = pc[c] /\ reply'[c] = reply[c]
    <3>1. SameMemory(c)
      BY <1>1, <2>1 DEF SameMemory
    <3> QED BY <1>1, <3>1, RestKeepsFunds
  <2>2. CASE pc'[c] = "done" /\ reply'[c] = "lost"
    BY <2>2 DEF BatchFunds, Appends, Working, Holding
  <2> QED BY <2>1, <2>2 DEF Restart, vars
<1> QED BY <1>2, <1>3, <1>4 DEF FundsInv, Books

LEMMA NextFunds ==
  ASSUME Inv, ChainInv, FundsInv, [Next]_vars
  PROVE  FundsInv'
<1>1. ASSUME NEW b \in Batches, BatchStep(b) PROVE FundsInv'
  BY <1>1, ReceiveFunds, ValidateFunds, DebitFunds, SectionFunds, PersistFunds, FailFunds
     DEF BatchStep
<1> QED BY <1>1, SingleFunds, RestartFunds DEF Next

\* Always, no account is overdrawn, every balance is what the completed payments have left
\* of it, and a file that was found valid is not refused for funds afterwards: for every
\* number of batches, rows, accounts and single payments (CreatePaymentsAsync, xmin).
THEOREM BatchesBalance == Spec => []BatchMoney
<1>1. Init => Inv /\ ChainInv /\ FundsInv
  BY InitInv, InitChain, InitFunds
<1>2. Inv /\ ChainInv /\ FundsInv /\ [Next]_vars => Inv' /\ ChainInv' /\ FundsInv'
  BY NextInv, NextChain, NextFunds
<1>3. FundsInv => BatchMoney
  BY FundsInvGivesMoney
<1> QED BY <1>1, <1>2, <1>3, PTL DEF Spec
=============================================================================
