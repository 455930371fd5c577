--------------------------- MODULE InvoicesProofs ---------------------------
(***************************************************************************)
(* What holds of Invoices for every number of handlers, invoices, totals,  *)
(* amounts and years.                                                      *)
(***************************************************************************)
EXTENDS Invoices, TLAPS

LEMMA InitType == Init => TypeOK
  BY YearsAssumption, BoundsAssumption DEF Init, TypeOK, Number, NoNumber, Absent, Event, InvoiceStatus

Request == {Idle} \cup Write \cup Emit

(* The operation of a request fixes which fields it has. *)
LEMMA RequestShape ==
  ASSUME NEW r \in Request
  PROVE  /\ r.op = "update" => r.id \in InvoiceIds /\ r.total \in Totals
         /\ r.op = "issue"  => r.id \in InvoiceIds /\ r.year \in Years
         /\ r.op = "pay"    => /\ r.id \in InvoiceIds /\ r.amount \in Nat
                               /\ r.newPaid \in Int   /\ r.status \in InvoiceStatus
         /\ r.op = "cancel" => r.id \in InvoiceIds
         /\ r.op = "emit"   => r.id \in InvoiceIds /\ r.event \in Event
<1>1. \A a \in Amounts : a \in Nat
  BY AmountsAssumption
<1> QED
  BY <1>1 DEF Request, Idle, Write, Emit

LEMMA EmitShape ==
  ASSUME NEW i \in InvoiceIds, NEW e \in Event
  PROVE  [op |-> "emit", id |-> i, event |-> e] \in Request
  BY DEF Request, Emit

LEMMA DecideType ==
  ASSUME TypeOK, NEW h \in Handlers, NEW i \in InvoiceIds, NEW r \in Write, Decide(h, i, r)
  PROVE  TypeOK'
  BY DEF TypeOK, Decide, rows

LEMMA NextType == TypeOK /\ [Next]_vars => TypeOK'
<1> SUFFICES ASSUME TypeOK, [Next]_vars PROVE TypeOK'
  OBVIOUS
<1>1. ASSUME NEW i \in InvoiceIds, Create(i) PROVE TypeOK'
  BY TotalsAssumption, <1>1 DEF TypeOK, Create, InvoiceStatus
<1>2. ASSUME NEW h \in Handlers, NEW i \in InvoiceIds, DecideUpdate(h, i) PROVE TypeOK'
  BY <1>2, DecideType DEF DecideUpdate, Write
<1>3. ASSUME NEW h \in Handlers, NEW i \in InvoiceIds, DecideIssue(h, i) PROVE TypeOK'
  BY <1>3, DecideType DEF DecideIssue, Write, TypeOK
<1>4. ASSUME NEW h \in Handlers, NEW i \in InvoiceIds, DecidePay(h, i) PROVE TypeOK'
  <2>1. PICK a \in Amounts :
          Decide(h, i, [op |-> "pay", id |-> i, amount |-> a, newPaid |-> amountPaid[i] + a,
                        status |-> DeriveStatus(amountPaid[i] + a, total[i])])
    BY <1>4 DEF DecidePay
  <2>2. amountPaid[i] + a \in Int /\ DeriveStatus(amountPaid[i] + a, total[i]) \in InvoiceStatus
    BY AmountsAssumption DEF TypeOK, DeriveStatus, InvoiceStatus
  <2> QED
    BY <2>1, <2>2, DecideType DEF Write
<1>5. ASSUME NEW h \in Handlers, NEW i \in InvoiceIds, DecideCancel(h, i) PROVE TypeOK'
  BY <1>5, DecideType DEF DecideCancel, Write
<1>0. \A h \in Handlers : req[h] \in Request
  BY DEF TypeOK, Request
<1>00. ASSUME NEW h \in Handlers, Done(h) \/ \E e \in Event : ThenEmit(h, e), req[h].id \in InvoiceIds
       PROVE  req' \in [Handlers -> {Idle} \cup Write \cup Emit]
  <2>1. \A e \in Event : [op |-> "emit", id |-> req[h].id, event |-> e] \in Request
    BY <1>00, EmitShape
  <2> QED
    BY <1>00, <2>1 DEF TypeOK, Done, ThenEmit, Request
<1>6. ASSUME NEW h \in Handlers, ReplaceDraft(h) PROVE TypeOK'
  <2>1. req[h].id \in InvoiceIds /\ req[h].total \in Totals
    BY <1>0, <1>6, RequestShape DEF ReplaceDraft
  <2> QED
    BY TotalsAssumption, <1>00, <1>6, <2>1 DEF TypeOK, ReplaceDraft
<1>7. ASSUME NEW h \in Handlers, IssueWithNumber(h) PROVE TypeOK'
  <2>1. req[h].id \in InvoiceIds /\ req[h].year \in Years
    BY <1>0, <1>7, RequestShape DEF IssueWithNumber
  <2>2. ThenEmit(h, "issued") /\ "issued" \in Event
    BY <1>7 DEF IssueWithNumber, EmitIssued, Event
  <2>3. req' \in [Handlers -> {Idle} \cup Write \cup Emit]
    BY <1>00, <2>1, <2>2
  <2>4. NextSeq(req[h].year) \in Nat \ {0}
    <3>1. counter[req[h].year] \in Nat
      BY <2>1 DEF TypeOK
    <3> QED
      BY <3>1 DEF NextSeq
  <2>5. counter' \in [Years -> Nat]
    BY <1>7, <2>1, <2>4 DEF IssueWithNumber, TypeOK
  <2>6. number' \in [InvoiceIds -> Number]
    BY <1>7, <2>1, <2>4 DEF IssueWithNumber, TypeOK, Number
  <2>7. status' \in [InvoiceIds -> InvoiceStatus \cup {Absent}]
    BY <1>7, <2>1 DEF IssueWithNumber, TypeOK, InvoiceStatus
  <2>8. UNCHANGED <<total, amountPaid, payments, year, emitted, contended, crashes>>
    BY <1>7 DEF IssueWithNumber
  <2> QED
    BY <2>3, <2>5, <2>6, <2>7, <2>8 DEF TypeOK
<1>8. ASSUME NEW h \in Handlers, AddPayment(h) PROVE TypeOK'
  <2>1. /\ req[h].id \in InvoiceIds /\ req[h].amount \in Nat
        /\ req[h].newPaid \in Int   /\ req[h].status \in InvoiceStatus
    BY <1>0, <1>8, RequestShape DEF AddPayment
  <2>2. Done(h) \/ \E e \in Event : ThenEmit(h, e)
    BY <1>8 DEF AddPayment, Event
  <2>3. req' \in [Handlers -> {Idle} \cup Write \cup Emit]
    BY <1>00, <2>1, <2>2
  <2>4. payments' \in [InvoiceIds -> Int]
    <3>1. payments[req[h].id] \in Int
      BY <2>1 DEF TypeOK
    <3>2. payments[req[h].id] + req[h].amount \in Int
      BY <2>1, <3>1
    <3> QED
      BY <1>8, <2>1, <3>2 DEF AddPayment, TypeOK
  <2>5. status' \in [InvoiceIds -> InvoiceStatus \cup {Absent}]
    BY <1>8, <2>1 DEF AddPayment, TypeOK
  <2>6. amountPaid' \in [InvoiceIds -> Int]
    BY <1>8, <2>1 DEF AddPayment, TypeOK
  <2>7. UNCHANGED <<number, total, counter, year, emitted, contended, crashes>>
    BY <1>8 DEF AddPayment
  <2> QED
    BY <2>3, <2>4, <2>5, <2>6, <2>7 DEF TypeOK
<1>9. ASSUME NEW h \in Handlers, CancelInvoice(h) PROVE TypeOK'
  <2>1. req[h].id \in InvoiceIds
    BY <1>0, <1>9, RequestShape DEF CancelInvoice
  <2> QED
    BY <1>00, <1>9, <2>1 DEF TypeOK, CancelInvoice, InvoiceStatus
<1>10. ASSUME NEW h \in Handlers, WriteFails(h) PROVE TypeOK'
  BY <1>10 DEF TypeOK, WriteFails, RolledBack, Done
<1>11. ASSUME NEW h \in Handlers, EmitEvent(h) PROVE TypeOK'
  <2>1. req[h].id \in InvoiceIds /\ req[h].event \in Event
    BY <1>0, <1>11, RequestShape DEF EmitEvent
  <2> QED
    BY <1>00, <1>11, <2>1 DEF TypeOK, EmitEvent, rows
<1>12. CASE Crash
  BY BoundsAssumption, <1>12 DEF TypeOK, Crash, rows
<1>13. CASE NewYear
  BY <1>13 DEF TypeOK, NewYear, rows
<1>14. CASE UNCHANGED vars
  BY <1>14 DEF TypeOK, vars, rows
<1> QED
  BY <1>1, <1>2, <1>3, <1>4, <1>5, <1>6, <1>7, <1>8, <1>9, <1>10, <1>11, <1>12, <1>13, <1>14
  DEF Next, Commit

(* Type correctness: in particular a number, once assigned, is a year and a
   positive sequence number, and a handler between its read and its write
   holds a decision that one of the four operations can take. *)
THEOREM TypeCorrect == Spec => []TypeOK
  BY InitType, NextType, PTL DEF Spec

-----------------------------------------------------------------------------
(***************************************************************************)
(* What holds whatever the races.  Numbers are unique because every number *)
(* on an invoice is at most its year's counter and IssueWithNumber hands   *)
(* out the next one; the books never claim more than was recorded because  *)
(* a payment in flight was computed from an amount already recorded.       *)
(***************************************************************************)
NumbersBelowCounter ==
  \A i \in InvoiceIds : number[i] # NoNumber => number[i][2] <= counter[number[i][1]]

PendingIsBacked ==
  \A h \in Handlers :
    req[h].op = "pay" => req[h].newPaid <= payments[req[h].id] + req[h].amount

Recorded == \A i \in InvoiceIds : amountPaid[i] <= payments[i]

RaceInv == NumbersAreUnique /\ NumbersBelowCounter /\ PendingIsBacked /\ Recorded

LEMMA InitRace == Init => RaceInv
  BY DEF Init, RaceInv, NumbersAreUnique, NumbersBelowCounter, PendingIsBacked, Recorded,
         Idle, NoNumber

(* Only req changes, and no handler gains a payment that is not backed. *)
LEMMA RaceFrame ==
  ASSUME TypeOK, RaceInv, UNCHANGED <<number, counter, amountPaid, payments>>,
         \A h \in Handlers : req'[h].op = "pay" =>
           \/ req'[h] = req[h]
           \/ req'[h].newPaid <= payments[req'[h].id] + req'[h].amount
  PROVE  RaceInv'
  BY DEF RaceInv, NumbersAreUnique, NumbersBelowCounter, PendingIsBacked, Recorded

LEMMA NextRace == TypeOK /\ RaceInv /\ [Next]_vars => RaceInv'
<1> SUFFICES ASSUME TypeOK, RaceInv, [Next]_vars PROVE RaceInv'
  OBVIOUS
<1>0. req \in [Handlers -> Request]
  BY DEF TypeOK, Request
<1>1. ASSUME NEW i \in InvoiceIds, Create(i) PROVE RaceInv'
  BY <1>1, RaceFrame DEF Create
<1>2. ASSUME NEW h \in Handlers, NEW i \in InvoiceIds, NEW r, r.op # "pay", Decide(h, i, r)
      PROVE  RaceInv'
  BY <1>0, <1>2, RaceFrame DEF Decide, rows
<1>3. ASSUME NEW h \in Handlers, NEW i \in InvoiceIds, DecideUpdate(h, i) PROVE RaceInv'
  BY <1>2, <1>3 DEF DecideUpdate
<1>4. ASSUME NEW h \in Handlers, NEW i \in InvoiceIds, DecideIssue(h, i) PROVE RaceInv'
  BY <1>2, <1>4 DEF DecideIssue
<1>5. ASSUME NEW h \in Handlers, NEW i \in InvoiceIds, DecideCancel(h, i) PROVE RaceInv'
  BY <1>2, <1>5 DEF DecideCancel
<1>6. ASSUME NEW h \in Handlers, NEW i \in InvoiceIds, DecidePay(h, i) PROVE RaceInv'
  <2>1. PICK a \in Amounts :
          Decide(h, i, [op |-> "pay", id |-> i, amount |-> a, newPaid |-> amountPaid[i] + a,
                        status |-> DeriveStatus(amountPaid[i] + a, total[i])])
    BY <1>6 DEF DecidePay
  <2>2. a \in Nat
    BY AmountsAssumption
  <2>3. amountPaid[i] \in Int /\ payments[i] \in Int /\ amountPaid[i] <= payments[i]
    BY DEF RaceInv, Recorded, TypeOK
  <2>4. amountPaid[i] + a <= payments[i] + a
    BY <2>2, <2>3
  <2> QED
    BY <1>0, <2>1, <2>4, RaceFrame DEF Decide, rows
<1>7. ASSUME NEW h \in Handlers, ReplaceDraft(h) PROVE RaceInv'
  BY <1>0, <1>7, RaceFrame DEF ReplaceDraft, Done, Idle
<1>8. ASSUME NEW h \in Handlers, IssueWithNumber(h) PROVE RaceInv'
  <2> DEFINE i == req[h].id
             y == req[h].year
             n == counter[y] + 1
  <2>1. i \in InvoiceIds /\ y \in Years
    BY <1>0, <1>8, RequestShape DEF IssueWithNumber
  <2>2. counter[y] \in Nat
    BY <2>1 DEF TypeOK
  <2>3. /\ counter' = [counter EXCEPT ![y] = n]
        /\ number'  = [number EXCEPT ![i] = <<y, n>>]
        /\ UNCHANGED <<amountPaid, payments>>
        /\ req' = [req EXCEPT ![h] = [op |-> "emit", id |-> i, event |-> "issued"]]
    BY <1>8 DEF IssueWithNumber, EmitIssued, ThenEmit, NextSeq
  <2>4. NumbersBelowCounter'
    <3> SUFFICES ASSUME NEW j \in InvoiceIds, number'[j] # NoNumber
                 PROVE  number'[j][2] <= counter'[number'[j][1]]
      BY DEF NumbersBelowCounter
    <3>1. CASE j = i
      BY <2>1, <2>2, <2>3, <3>1 DEF TypeOK
    <3>2. CASE j # i
      <4>1. /\ number'[j] = number[j]
            /\ number[j] \in Years \X (Nat \ {0})
            /\ number[j][2] <= counter[number[j][1]]
        BY <2>1, <2>3, <3>2 DEF TypeOK, Number, RaceInv, NumbersBelowCounter
      <4>2. counter[number[j][1]] \in Nat /\ counter'[number[j][1]] \in Nat
        BY <2>1, <2>2, <2>3, <4>1 DEF TypeOK
      <4>3. counter[number[j][1]] <= counter'[number[j][1]]
        BY <2>1, <2>2, <2>3, <4>1, <4>2 DEF TypeOK
      <4> QED
        BY <4>1, <4>2, <4>3
    <3> QED
      BY <3>1, <3>2
  <2>5. \A j \in InvoiceIds : number[j] # <<y, n>>
    <3> SUFFICES ASSUME NEW j \in InvoiceIds, number[j] = <<y, n>> PROVE FALSE
      OBVIOUS
    <3>1. number[j] # NoNumber
      BY <2>2 DEF NoNumber
    <3>2. number[j][2] <= counter[number[j][1]]
      BY <3>1 DEF RaceInv, NumbersBelowCounter
    <3>3. n <= counter[y]
      BY <3>2
    <3> QED
      BY <2>2, <3>3
  <2>6. NumbersAreUnique'
    BY <2>1, <2>3, <2>5 DEF RaceInv, NumbersAreUnique, TypeOK
  <2>7. PendingIsBacked' /\ Recorded'
    BY <1>0, <2>3 DEF RaceInv, PendingIsBacked, Recorded
  <2> QED
    BY <2>4, <2>6, <2>7 DEF RaceInv
<1>9. ASSUME NEW h \in Handlers, AddPayment(h) PROVE RaceInv'
  <2> DEFINE i == req[h].id
             a == req[h].amount
  <2>1. i \in InvoiceIds /\ a \in Nat /\ req[h].newPaid \in Int
    BY <1>0, <1>9, RequestShape DEF AddPayment
  <2>2. req'[h].op # "pay" /\ \A g \in Handlers \ {h} : req'[g] = req[g]
    BY <1>0, <1>9 DEF AddPayment, Done, ThenEmit, Idle
  <2>3. /\ payments' = [payments EXCEPT ![i] = @ + a]
        /\ amountPaid' = [amountPaid EXCEPT ![i] = req[h].newPaid]
        /\ req[h].newPaid <= payments[i] + a
        /\ UNCHANGED <<number, counter>>
    BY <1>9 DEF AddPayment, RaceInv, PendingIsBacked
  <2>4. \A j \in InvoiceIds : payments[j] \in Int /\ payments'[j] \in Int /\ payments[j] <= payments'[j]
    BY <2>1, <2>3 DEF TypeOK
  <2>5. Recorded'
    BY <2>1, <2>3 DEF RaceInv, Recorded, TypeOK
  <2>6. PendingIsBacked'
    <3> SUFFICES ASSUME NEW g \in Handlers, req'[g].op = "pay"
                 PROVE  req'[g].newPaid <= payments'[req'[g].id] + req'[g].amount
      BY DEF PendingIsBacked
    <3>1. req'[g] = req[g] /\ req[g].op = "pay"
      BY <2>2
    <3>2. req[g].id \in InvoiceIds /\ req[g].amount \in Nat /\ req[g].newPaid \in Int
      BY <1>0, <3>1, RequestShape
    <3>3. req[g].newPaid <= payments[req[g].id] + req[g].amount
      BY <3>1 DEF RaceInv, PendingIsBacked
    <3> QED
      BY <2>4, <3>1, <3>2, <3>3
  <2> QED
    BY <2>3, <2>5, <2>6 DEF RaceInv, NumbersAreUnique, NumbersBelowCounter
<1>10. ASSUME NEW h \in Handlers, CancelInvoice(h) PROVE RaceInv'
  BY <1>0, <1>10, RaceFrame DEF CancelInvoice, Done, Idle
<1>11. ASSUME NEW h \in Handlers, WriteFails(h) PROVE RaceInv'
  BY <1>0, <1>11, RaceFrame DEF WriteFails, RolledBack, Done, Idle
<1>12. ASSUME NEW h \in Handlers, EmitEvent(h) PROVE RaceInv'
  BY <1>0, <1>12, RaceFrame DEF EmitEvent, rows, Done, Idle
<1>13. CASE Crash
  BY <1>13, RaceFrame DEF Crash, rows, Idle
<1>14. CASE NewYear \/ UNCHANGED vars
  BY <1>14, RaceFrame DEF NewYear, vars, rows
<1> QED
  BY <1>1, <1>3, <1>4, <1>5, <1>6, <1>7, <1>8, <1>9, <1>10, <1>11, <1>12, <1>13, <1>14
  DEF Next, Commit

(* No two invoices ever carry the same number, for any number of concurrent
   requests, failed transactions and restarts: the upsert on the counter row
   is all the serialisation that IssueWithNumber needs for it. *)
THEOREM NumbersUnique == Spec => []NumbersAreUnique
<1>1. RaceInv => NumbersAreUnique
  BY DEF RaceInv
<1> QED
  BY <1>1, InitType, NextType, InitRace, NextRace, PTL DEF Spec

-----------------------------------------------------------------------------
(***************************************************************************)
(* What holds of a row without contention: the row is in a sound state,    *)
(* at most one handler is about to write it, and what that handler decided *)
(* is still true of the row.  The last part is what makes it inductive: it *)
(* is the check-then-act race, excluded.                                   *)
(***************************************************************************)
RowSound(i) ==
  /\ status[i] \in {Absent, "DRAFT"} => number[i] = NoNumber
  /\ amountPaid[i] = payments[i]
  /\ status[i] \notin {"PARTIALLY_PAID", "PAID"} => amountPaid[i] = 0
  /\ status[i] \in {"PARTIALLY_PAID", "PAID"} =>
       /\ 0 < amountPaid[i] /\ amountPaid[i] <= total[i]
       /\ status[i] = "PAID" <=> amountPaid[i] = total[i]

StillTrue(r) ==
  /\ r.op \in {"update", "issue"} => status[r.id] = "DRAFT"
  /\ r.op = "update" => r.total \in Totals
  /\ r.op = "pay" =>
       /\ status[r.id] \in {"SENT", "PARTIALLY_PAID"}
       /\ r.amount > 0 /\ r.newPaid = amountPaid[r.id] + r.amount
       /\ r.newPaid <= total[r.id]
       /\ r.status = DeriveStatus(r.newPaid, total[r.id])
  /\ r.op = "cancel" => status[r.id] \in {"DRAFT", "SENT"}

Uncontended(h) == req[h].op \in WriteOps /\ req[h].id \notin contended

SoleWriter ==
  \A g, h \in Handlers :
    Uncontended(g) /\ Uncontended(h) /\ req[g].id = req[h].id => g = h

SerialInv ==
  /\ \A i \in InvoiceIds \ contended : RowSound(i)
  /\ \A h \in Handlers : Uncontended(h) => StillTrue(req[h])
  /\ SoleWriter

SameRow(j) ==
  /\ status'[j] = status[j] /\ number'[j] = number[j] /\ total'[j] = total[j]
  /\ amountPaid'[j] = amountPaid[j] /\ payments'[j] = payments[j]

LEMMA InitSerial == Init => SerialInv
  BY DEF Init, SerialInv, RowSound, SoleWriter, Uncontended, StillTrue, Idle, WriteOps,
         Absent, NoNumber

(* A step that leaves the rows alone and starts no write keeps the invariant. *)
LEMMA SerialFrame ==
  ASSUME TypeOK, SerialInv, \A j \in InvoiceIds : SameRow(j), contended' = contended,
         \A g \in Handlers : req'[g] = req[g] \/ req'[g].op \notin WriteOps
  PROVE  SerialInv'
<1>0. req \in [Handlers -> Request]
  BY DEF TypeOK, Request
<1>1. \A i \in InvoiceIds \ contended' : RowSound(i)'
  BY DEF SerialInv, RowSound, SameRow
<1>2. \A g \in Handlers : Uncontended(g)' => Uncontended(g) /\ req'[g] = req[g]
  BY DEF Uncontended
<1>3. \A g \in Handlers : Uncontended(g)' => StillTrue(req[g])'
  <2> SUFFICES ASSUME NEW g \in Handlers, Uncontended(g)' PROVE StillTrue(req[g])'
    OBVIOUS
  <2>1. StillTrue(req[g]) /\ req'[g] = req[g] /\ req[g].op \in WriteOps
    BY <1>2 DEF SerialInv, Uncontended
  <2>2. req[g].id \in InvoiceIds
    BY <1>0, <2>1, RequestShape DEF WriteOps
  <2> QED
    BY <2>1, <2>2 DEF StillTrue, SameRow
<1>4. SoleWriter'
  BY <1>2 DEF SerialInv, SoleWriter
<1> QED
  BY <1>1, <1>3, <1>4 DEF SerialInv

(* A decision that is true when taken: it is the only one on its row, or the
   row is contended from now on. *)
LEMMA SerialDecide ==
  ASSUME TypeOK, SerialInv, NEW h \in Handlers, NEW i \in InvoiceIds, NEW r \in Write,
         r.id = i, StillTrue(r), Decide(h, i, r)
  PROVE  SerialInv'
<1>0. req \in [Handlers -> Request]
  BY DEF TypeOK, Request
<1>1. /\ UNCHANGED <<status, number, total, amountPaid, payments>>
      /\ contended \subseteq contended'
      /\ req'[h] = r /\ \A g \in Handlers \ {h} : req'[g] = req[g]
      /\ Writers(i) # {} => i \in contended'
  BY <1>0 DEF Decide, rows
<1>2. \A j \in InvoiceIds \ contended' : RowSound(j)'
  BY <1>1 DEF SerialInv, RowSound
<1>3. \A g \in Handlers \ {h} : Uncontended(g)' => Uncontended(g) /\ req'[g] = req[g]
  BY <1>1 DEF Uncontended
<1>4. \A g \in Handlers : Uncontended(g)' => StillTrue(req[g])'
  <2>1. StillTrue(r)'
    BY <1>1 DEF StillTrue
  <2>2. \A g \in Handlers \ {h} : Uncontended(g) => StillTrue(req[g])
    BY DEF SerialInv
  <2> QED
    BY <1>1, <1>3, <2>1, <2>2 DEF StillTrue
<1>5. SoleWriter'
  <2>1. \A g \in Handlers \ {h} : ~(Uncontended(g)' /\ Uncontended(h)' /\ req'[g].id = req'[h].id)
    <3> SUFFICES ASSUME NEW g \in Handlers \ {h}, Uncontended(g)', Uncontended(h)',
                        req'[g].id = req'[h].id
                 PROVE  FALSE
      OBVIOUS
    <3>1. g \in Writers(i)
      BY <1>1, <1>3 DEF Writers, Uncontended
    <3> QED
      BY <1>1, <3>1 DEF Uncontended
  <2> QED
    BY <1>3, <2>1 DEF SerialInv, SoleWriter
<1> QED
  BY <1>2, <1>4, <1>5 DEF SerialInv

(* A write ends a decision; on an uncontended row no other one is left. *)
LEMMA SerialWrite ==
  ASSUME TypeOK, SerialInv, NEW h \in Handlers, NEW i \in InvoiceIds,
         req[h].op \in WriteOps, req[h].id = i, contended' = contended,
         req'[h].op \notin WriteOps, \A g \in Handlers \ {h} : req'[g] = req[g],
         \A j \in InvoiceIds \ {i} : SameRow(j),
         i \notin contended => RowSound(i)'
  PROVE  SerialInv'
<1>0. req \in [Handlers -> Request]
  BY DEF TypeOK, Request
<1>1. \A j \in InvoiceIds \ contended' : RowSound(j)'
  BY DEF SerialInv, RowSound, SameRow
<1>2. \A g \in Handlers : Uncontended(g)' =>
        g # h /\ Uncontended(g) /\ req'[g] = req[g] /\ req[g].id \in InvoiceIds \ {i}
  <2> SUFFICES ASSUME NEW g \in Handlers, Uncontended(g)'
               PROVE  g # h /\ Uncontended(g) /\ req'[g] = req[g] /\ req[g].id \in InvoiceIds \ {i}
    OBVIOUS
  <2>1. g # h /\ Uncontended(g) /\ req'[g] = req[g]
    BY DEF Uncontended
  <2>2. req[g].id \in InvoiceIds
    BY <1>0, <2>1, RequestShape DEF Uncontended, WriteOps
  <2>3. req[g].id # i
    BY <2>1 DEF SerialInv, SoleWriter, Uncontended
  <2> QED
    BY <2>1, <2>2, <2>3
<1>3. \A g \in Handlers : Uncontended(g)' => StillTrue(req[g])'
  <2> SUFFICES ASSUME NEW g \in Handlers, Uncontended(g)' PROVE StillTrue(req[g])'
    OBVIOUS
  <2>1. StillTrue(req[g]) /\ req'[g] = req[g] /\ SameRow(req[g].id)
    BY <1>2 DEF SerialInv
  <2> QED
    BY <2>1 DEF StillTrue, SameRow
<1>4. SoleWriter'
  BY <1>2 DEF SerialInv, SoleWriter
<1> QED
  BY <1>1, <1>3, <1>4 DEF SerialInv

LEMMA NextSerial == TypeOK /\ SerialInv /\ [Next]_vars => SerialInv'
<1> SUFFICES ASSUME TypeOK, SerialInv, [Next]_vars PROVE SerialInv'
  OBVIOUS
<1>0. req \in [Handlers -> Request]
  BY DEF TypeOK, Request
<1>1. ASSUME NEW i \in InvoiceIds, Create(i) PROVE SerialInv'
  <2>1. \A j \in InvoiceIds \ {i} : SameRow(j)
    BY <1>1 DEF Create, SameRow, TypeOK
  <2>2. i \notin contended => RowSound(i)'
    BY <1>1 DEF Create, SerialInv, RowSound, TypeOK, Absent
  <2>3. \A j \in InvoiceIds \ contended' : RowSound(j)'
    BY <1>1, <2>1, <2>2 DEF Create, SerialInv, RowSound, SameRow
  <2>4. \A g \in Handlers : Uncontended(g) => StillTrue(req[g])'
    <3> SUFFICES ASSUME NEW g \in Handlers, Uncontended(g) PROVE StillTrue(req[g])'
      OBVIOUS
    <3>1. StillTrue(req[g]) /\ req[g].id \in InvoiceIds /\ req[g].op \in WriteOps
      BY <1>0, RequestShape DEF SerialInv, Uncontended, WriteOps
    <3>2. req[g].id # i
      BY <1>1, <3>1 DEF StillTrue, Create, Absent, WriteOps
    <3> QED
      BY <1>1, <2>1, <3>1, <3>2 DEF StillTrue, SameRow, Create
  <2> QED
    BY <1>1, <2>3, <2>4 DEF Create, SerialInv, Uncontended, SoleWriter
<1>2. ASSUME NEW h \in Handlers, NEW i \in InvoiceIds, DecideUpdate(h, i) PROVE SerialInv'
  <2>1. PICK t \in Totals : Decide(h, i, [op |-> "update", id |-> i, total |-> t])
    BY <1>2 DEF DecideUpdate
  <2> DEFINE r == [op |-> "update", id |-> i, total |-> t]
  <2>2. r \in Write /\ r.id = i /\ StillTrue(r)
    BY <1>2 DEF DecideUpdate, Editable, Write, StillTrue
  <2> QED
    BY <2>1, <2>2, SerialDecide
<1>3. ASSUME NEW h \in Handlers, NEW i \in InvoiceIds, DecideIssue(h, i) PROVE SerialInv'
  <2> DEFINE r == [op |-> "issue", id |-> i, year |-> year]
  <2>1. r \in Write /\ r.id = i /\ StillTrue(r)
    BY <1>3 DEF DecideIssue, Write, StillTrue, TypeOK
  <2> QED
    BY <1>3, <2>1, SerialDecide DEF DecideIssue
<1>4. ASSUME NEW h \in Handlers, NEW i \in InvoiceIds, DecidePay(h, i) PROVE SerialInv'
  <2> DEFINE new(a) == amountPaid[i] + a
             r(a)   == [op |-> "pay", id |-> i, amount |-> a, newPaid |-> new(a),
                        status |-> DeriveStatus(new(a), total[i])]
  <2>1. PICK a \in Amounts : a > 0 /\ ~(new(a) > total[i]) /\ Decide(h, i, r(a))
    BY <1>4 DEF DecidePay, FitsTotal
  <2>2. a \in Nat /\ amountPaid[i] \in Int /\ total[i] \in Int
    <3>1. a \in Nat
      BY AmountsAssumption
    <3> QED
      BY <3>1 DEF TypeOK
  <2>3. r(a) \in Write
    BY <2>2 DEF Write, DeriveStatus, InvoiceStatus
  <2>4. CASE i \in contended
    <3>1. contended' = contended /\ UNCHANGED rows /\ \A g \in Handlers \ {h} : req'[g] = req[g]
      BY <2>1, <2>4, <1>0 DEF Decide
    <3>2. \A g \in Handlers : Uncontended(g)' => g # h /\ Uncontended(g) /\ req'[g] = req[g]
      BY <1>0, <2>1, <2>4, <3>1 DEF Uncontended, Decide
    <3>3. \A g \in Handlers : Uncontended(g)' => StillTrue(req[g])'
      BY <3>1, <3>2 DEF SerialInv, StillTrue, rows
    <3>4. SoleWriter'
      BY <3>2 DEF SerialInv, SoleWriter
    <3>5. \A j \in InvoiceIds \ contended' : RowSound(j)'
      BY <3>1 DEF SerialInv, RowSound, rows
    <3> QED
      BY <3>3, <3>4, <3>5 DEF SerialInv
  <2>5. CASE i \notin contended
    <3>1. status[i] \in {"SENT", "PARTIALLY_PAID"}
      <4>1. status[i] \in {"SENT", "PARTIALLY_PAID", "PAID"}
        BY <1>4 DEF DecidePay, Payable, TypeOK, InvoiceStatus, Absent
      <4>2. status[i] # "PAID"
        BY <2>1, <2>2, <2>5 DEF SerialInv, RowSound
      <4> QED
        BY <4>1, <4>2
    <3>2. StillTrue(r(a))
      BY <2>1, <2>2, <3>1 DEF StillTrue
    <3> QED
      BY <2>1, <2>3, <3>2, SerialDecide
  <2> QED
    BY <2>4, <2>5
<1>5. ASSUME NEW h \in Handlers, NEW i \in InvoiceIds, DecideCancel(h, i) PROVE SerialInv'
  <2> DEFINE r == [op |-> "cancel", id |-> i]
  <2>1. r \in Write /\ r.id = i /\ Decide(h, i, r)
    BY <1>5 DEF DecideCancel, Write
  <2>2. CASE i \in contended
    <3>1. contended' = contended /\ UNCHANGED rows /\ \A g \in Handlers \ {h} : req'[g] = req[g]
      BY <2>1, <2>2, <1>0 DEF Decide
    <3>2. \A g \in Handlers : Uncontended(g)' => g # h /\ Uncontended(g) /\ req'[g] = req[g]
      BY <1>0, <2>1, <2>2, <3>1 DEF Uncontended, Decide
    <3>3. \A g \in Handlers : Uncontended(g)' => StillTrue(req[g])'
      BY <3>1, <3>2 DEF SerialInv, StillTrue, rows
    <3>4. SoleWriter'
      BY <3>2 DEF SerialInv, SoleWriter
    <3>5. \A j \in InvoiceIds \ contended' : RowSound(j)'
      BY <3>1 DEF SerialInv, RowSound, rows
    <3> QED
      BY <3>3, <3>4, <3>5 DEF SerialInv
  <2>3. CASE i \notin contended
    <3>1. status[i] \in {"DRAFT", "SENT"}
      BY <1>5, <2>3 DEF DecideCancel, Cancellable, SerialInv, RowSound, TypeOK, InvoiceStatus, Absent
    <3>2. StillTrue(r)
      BY <3>1 DEF StillTrue
    <3> QED
      BY <2>1, <3>2, SerialDecide
  <2> QED
    BY <2>2, <2>3
<1>6. ASSUME NEW h \in Handlers, ReplaceDraft(h) PROVE SerialInv'
  <2>1. PICK i \in InvoiceIds : req[h].id = i /\ req[h].op \in WriteOps
    BY <1>0, <1>6, RequestShape DEF ReplaceDraft, WriteOps
  <2>2. req'[h].op \notin WriteOps /\ \A g \in Handlers \ {h} : req'[g] = req[g]
    BY <1>0, <1>6 DEF ReplaceDraft, Done, Idle, WriteOps
  <2>3. \A j \in InvoiceIds \ {i} : SameRow(j)
    BY <1>6, <2>1 DEF ReplaceDraft, SameRow, TypeOK
  <2>4. i \notin contended => status[i] = "DRAFT" /\ RowSound(i)
    BY <1>6, <2>1 DEF ReplaceDraft, SerialInv, Uncontended, StillTrue
  <2>5. i \notin contended => RowSound(i)'
    BY <1>6, <2>1, <2>4 DEF ReplaceDraft, RowSound
  <2> QED
    BY <1>6, <2>1, <2>2, <2>3, <2>5, SerialWrite DEF ReplaceDraft
<1>7. ASSUME NEW h \in Handlers, IssueWithNumber(h) PROVE SerialInv'
  <2>1. PICK i \in InvoiceIds : req[h].id = i /\ req[h].op \in WriteOps
    BY <1>0, <1>7, RequestShape DEF IssueWithNumber, WriteOps
  <2>2. req'[h].op \notin WriteOps /\ \A g \in Handlers \ {h} : req'[g] = req[g]
    BY <1>0, <1>7 DEF IssueWithNumber, EmitIssued, ThenEmit, WriteOps
  <2>3. \A j \in InvoiceIds \ {i} : SameRow(j)
    BY <1>7, <2>1 DEF IssueWithNumber, SameRow, TypeOK
  <2>4. i \notin contended => status[i] = "DRAFT" /\ RowSound(i)
    BY <1>7, <2>1 DEF IssueWithNumber, SerialInv, Uncontended, StillTrue
  <2>5. status'[i] = "SENT" /\ UNCHANGED <<amountPaid, payments, total>>
    BY <1>7, <2>1 DEF IssueWithNumber, TypeOK
  <2>6. i \notin contended => RowSound(i)'
    BY <2>4, <2>5 DEF RowSound, Absent
  <2> QED
    BY <1>7, <2>1, <2>2, <2>3, <2>6, SerialWrite DEF IssueWithNumber
<1>8. ASSUME NEW h \in Handlers, AddPayment(h) PROVE SerialInv'
  <2>1. PICK i \in InvoiceIds, a \in Nat, p \in Int :
          /\ req[h].op = "pay" /\ req[h].id = i
          /\ req[h].amount = a /\ req[h].newPaid = p
    BY <1>0, <1>8, RequestShape DEF AddPayment, WriteOps
  <2>2. req'[h].op \notin WriteOps /\ \A g \in Handlers \ {h} : req'[g] = req[g]
    BY <1>0, <1>8 DEF AddPayment, Done, ThenEmit, Idle, WriteOps
  <2>3. \A j \in InvoiceIds \ {i} : SameRow(j)
    BY <1>8, <2>1 DEF AddPayment, SameRow, TypeOK
  <2>4. /\ payments'[i] = payments[i] + a /\ amountPaid'[i] = p
        /\ status'[i] = req[h].status     /\ UNCHANGED <<total, number>>
    BY <1>8, <2>1 DEF AddPayment, TypeOK
  <2>5. ASSUME i \notin contended PROVE RowSound(i)'
    <3>1. /\ status[i] \in {"SENT", "PARTIALLY_PAID"} /\ RowSound(i)
          /\ a > 0 /\ p = amountPaid[i] + a /\ p <= total[i]
          /\ req[h].status = DeriveStatus(p, total[i])
      BY <2>1, <2>5 DEF SerialInv, Uncontended, StillTrue, WriteOps
    <3>2. amountPaid[i] \in Int /\ total[i] \in Int /\ payments[i] \in Int
      BY <2>1 DEF TypeOK
    <3>3. payments[i] = amountPaid[i] /\ amountPaid[i] >= 0 /\ p > 0
      BY <2>1, <3>1, <3>2 DEF RowSound
    <3>4. /\ status'[i] \in {"PARTIALLY_PAID", "PAID"}
          /\ status'[i] = "PAID" <=> p = total[i]
      BY <2>1, <2>4, <3>1, <3>2, <3>3 DEF DeriveStatus
    <3> QED
      BY <2>1, <2>4, <3>1, <3>2, <3>3, <3>4 DEF RowSound, Absent
  <2> QED
    BY <1>8, <2>1, <2>2, <2>3, <2>5, SerialWrite DEF AddPayment, WriteOps
<1>9. ASSUME NEW h \in Handlers, CancelInvoice(h) PROVE SerialInv'
  <2>1. PICK i \in InvoiceIds : req[h].id = i /\ req[h].op \in WriteOps
    BY <1>0, <1>9, RequestShape DEF CancelInvoice, WriteOps
  <2>2. req'[h].op \notin WriteOps /\ \A g \in Handlers \ {h} : req'[g] = req[g]
    BY <1>0, <1>9 DEF CancelInvoice, Done, Idle, WriteOps
  <2>3. \A j \in InvoiceIds \ {i} : SameRow(j)
    BY <1>9, <2>1 DEF CancelInvoice, SameRow, TypeOK
  <2>4. i \notin contended => status[i] \in {"DRAFT", "SENT"} /\ RowSound(i)
    BY <1>9, <2>1 DEF CancelInvoice, SerialInv, Uncontended, StillTrue
  <2>5. status'[i] = "CANCELLED" /\ UNCHANGED <<amountPaid, payments, total, number>>
    BY <1>9, <2>1 DEF CancelInvoice, TypeOK
  <2>6. i \notin contended => RowSound(i)'
    BY <2>4, <2>5 DEF RowSound, Absent
  <2> QED
    BY <1>9, <2>1, <2>2, <2>3, <2>6, SerialWrite DEF CancelInvoice
<1>10. ASSUME NEW h \in Handlers, WriteFails(h) PROVE SerialInv'
  BY <1>0, <1>10, SerialFrame DEF WriteFails, RolledBack, Done, Idle, SameRow, WriteOps
<1>11. ASSUME NEW h \in Handlers, EmitEvent(h) PROVE SerialInv'
  BY <1>0, <1>11, SerialFrame DEF EmitEvent, rows, Done, Idle, SameRow, WriteOps
<1>12. CASE Crash
  BY <1>12, SerialFrame DEF Crash, rows, Idle, SameRow, WriteOps
<1>13. CASE NewYear \/ UNCHANGED vars
  BY <1>13, SerialFrame DEF NewYear, vars, rows, SameRow
<1> QED
  BY <1>1, <1>2, <1>3, <1>4, <1>5, <1>6, <1>7, <1>8, <1>9, <1>10, <1>11, <1>12, <1>13
  DEF Next, Commit

IInv == TypeOK /\ RaceInv /\ SerialInv

LEMMA Invariance == Spec => []IInv
<1>1. Init => IInv
  BY InitType, InitRace, InitSerial DEF IInv
<1>2. IInv /\ [Next]_vars => IInv'
  BY NextType, NextRace, NextSerial DEF IInv
<1> QED
  BY <1>1, <1>2, PTL DEF Spec

(* The books are never ahead of the recorded payments; on an uncontended
   invoice they are equal and fit the total. *)
THEOREM BooksAreRight == Spec => []BooksMatchPayments
<1>1. IInv => BooksMatchPayments
  <2> SUFFICES ASSUME IInv, NEW i \in InvoiceIds
               PROVE  /\ amountPaid[i] <= payments[i]
                      /\ i \notin contended => /\ amountPaid[i] = payments[i]
                                               /\ payments[i] > 0 => payments[i] <= total[i]
    BY DEF BooksMatchPayments
  <2>1. amountPaid[i] <= payments[i]
    BY DEF IInv, RaceInv, Recorded
  <2>2. ASSUME i \notin contended
        PROVE  amountPaid[i] = payments[i] /\ (payments[i] > 0 => payments[i] <= total[i])
    <3>1. RowSound(i)
      BY <2>2 DEF IInv, SerialInv
    <3> QED
      BY <3>1 DEF RowSound
  <2> QED
    BY <2>1, <2>2
<1> QED
  BY <1>1, Invariance, PTL

-----------------------------------------------------------------------------
(***************************************************************************)
(* No gaps.  The only step that moves a counter is an issue; as long as no *)
(* row is contended that issue still finds the draft it read, so it writes *)
(* the new number over no other.                                           *)
(***************************************************************************)
LEMMA IssueNumbers ==
  ASSUME TypeOK, [Next]_vars
  PROVE  /\ contended \subseteq contended'
         /\ UNCHANGED <<number, counter>> \/ \E h \in Handlers : IssueWithNumber(h)
<1>1. ASSUME NEW h \in Handlers, NEW i \in InvoiceIds, NEW r, Decide(h, i, r)
      PROVE  contended \subseteq contended' /\ UNCHANGED <<number, counter>>
  BY <1>1 DEF Decide, rows
<1> QED
  BY <1>1 DEF Next, vars, rows, Commit, Create, DecideUpdate, DecideIssue, DecidePay,
     DecideCancel, ReplaceDraft, IssueWithNumber, AddPayment, CancelInvoice, WriteFails,
     RolledBack, EmitEvent, Crash, NewYear

LEMMA NextNoGap == IInv /\ NumbersHaveNoGap /\ [Next]_vars => NumbersHaveNoGap'
<1> SUFFICES ASSUME IInv, NumbersHaveNoGap, [Next]_vars, contended' = {},
                    NEW y \in Years, NEW n \in 1..counter'[y]
             PROVE  \E j \in InvoiceIds : number'[j] = <<y, n>>
  BY DEF NumbersHaveNoGap
<1>1. contended = {} /\ (UNCHANGED <<number, counter>> \/ \E h \in Handlers : IssueWithNumber(h))
  BY IssueNumbers DEF IInv
<1>2. CASE UNCHANGED <<number, counter>>
  BY <1>1, <1>2 DEF NumbersHaveNoGap
<1>3. ASSUME NEW h \in Handlers, IssueWithNumber(h)
      PROVE  \E j \in InvoiceIds : number'[j] = <<y, n>>
  <2>1. PICK i \in InvoiceIds, z \in Years :
          req[h].op = "issue" /\ req[h].id = i /\ req[h].year = z
    BY <1>3, RequestShape DEF IssueWithNumber, IInv, TypeOK, Request
  <2>2. /\ counter' = [counter EXCEPT ![z] = counter[z] + 1]
        /\ number' = [number EXCEPT ![i] = <<z, counter[z] + 1>>]
    BY <1>3, <2>1 DEF IssueWithNumber, NextSeq
  <2>3. number[i] = NoNumber
    BY <1>1, <2>1 DEF IInv, SerialInv, Uncontended, WriteOps, StillTrue, RowSound
  <2>4. counter[y] \in Nat /\ counter[z] \in Nat
    BY DEF IInv, TypeOK
  <2>5. CASE n \in 1..counter[y]
    <3>1. PICK j \in InvoiceIds : number[j] = <<y, n>>
      BY <1>1, <2>5 DEF NumbersHaveNoGap
    <3>2. j # i
      BY <2>3, <2>5, <3>1 DEF NoNumber
    <3> QED
      BY <2>2, <3>1, <3>2 DEF IInv, TypeOK
  <2>6. CASE n \notin 1..counter[y]
    <3>1. y = z /\ n = counter[z] + 1
      BY <2>2, <2>4, <2>6 DEF IInv, TypeOK
    <3> QED
      BY <2>2, <3>1 DEF IInv, TypeOK
  <2> QED
    BY <2>5, <2>6
<1> QED
  BY <1>1, <1>2, <1>3

(* The sequence of a year is gap-free while no two writers meet on a row:
   whatever transactions fail and processes die, every number that the
   counter has handed out is on an invoice. *)
THEOREM NoGaps == Spec => []NumbersHaveNoGap
<1>1. Init => NumbersHaveNoGap
  BY DEF Init, NumbersHaveNoGap
<1> QED
  BY <1>1, NextNoGap, Invariance, PTL DEF Spec

-----------------------------------------------------------------------------
(***************************************************************************)
(* The handlers implement the atomic life cycle.  A decision is a stutter, *)
(* or gives up the row it contends; the write of the only writer of a row  *)
(* finds what that writer read (SerialInv), so it is the atomic operation; *)
(* the write on a row already given up is a step of GivenUp.               *)
(***************************************************************************)
LEMMA GivingUp ==
  ASSUME NEW i \in InvoiceIds, contended' = contended \cup {i},
         \A j \in InvoiceIds \ {i} : SameRow(j)
  PROVE  Contract!Next
  BY DEF Contract!Next, Contract!GivenUp, SameRow

LEMMA DecideImplements ==
  ASSUME NEW h \in Handlers, NEW i \in InvoiceIds, NEW r, Decide(h, i, r)
  PROVE  [Contract!Next]_Contract!vars
<1>1. UNCHANGED <<status, number, total, amountPaid, payments>>
  BY DEF Decide, rows
<1>2. CASE Writers(i) = {}
  BY <1>1, <1>2 DEF Decide, Contract!vars
<1>3. CASE Writers(i) # {}
  BY <1>1, <1>3, GivingUp DEF Decide, SameRow
<1> QED
  BY <1>2, <1>3

(* What the next four leaves share: the writer of an uncontended row decided
   on what is still there. *)
LEMMA WriterKnows ==
  ASSUME IInv, NEW h \in Handlers, req[h].op \in WriteOps
  PROVE  /\ req[h].id \in InvoiceIds
         /\ req[h].id \notin contended => StillTrue(req[h]) /\ RowSound(req[h].id)
<1>1. req[h].id \in InvoiceIds
  BY RequestShape DEF IInv, TypeOK, Request, WriteOps
<1> QED
  BY <1>1 DEF IInv, SerialInv, Uncontended

LEMMA NextImplements == IInv /\ [Next]_vars => [Contract!Next]_Contract!vars
<1> SUFFICES ASSUME IInv, [Next]_vars PROVE [Contract!Next]_Contract!vars
  OBVIOUS
<1>1. ASSUME NEW i \in InvoiceIds, Create(i) PROVE Contract!Next
  <2>1. Contract!Create(i)
    BY <1>1 DEF Create, Contract!Create, Absent
  <2> QED
    BY <2>1 DEF Contract!Next
<1>2. ASSUME NEW h \in Handlers, NEW i \in InvoiceIds,
             DecideUpdate(h, i) \/ DecideIssue(h, i) \/ DecidePay(h, i) \/ DecideCancel(h, i)
      PROVE  [Contract!Next]_Contract!vars
  <2>1. PICK r : Decide(h, i, r)
    BY <1>2 DEF DecideUpdate, DecideIssue, DecidePay, DecideCancel
  <2> QED
    BY <2>1, DecideImplements
<1>3. ASSUME NEW h \in Handlers, ReplaceDraft(h) PROVE Contract!Next
  <2>1. PICK i \in InvoiceIds :
          req[h].id = i /\ (i \notin contended => StillTrue(req[h]) /\ RowSound(i))
    BY <1>3, WriterKnows DEF ReplaceDraft, WriteOps
  <2>2. CASE i \notin contended
    <3>1. Contract!Edit(i)
      BY <1>3, <2>1, <2>2 DEF ReplaceDraft, StillTrue, Contract!Edit
    <3> QED
      BY <3>1 DEF Contract!Next
  <2>3. CASE i \in contended
    BY <1>3, <2>1, <2>3, GivingUp DEF ReplaceDraft, SameRow, IInv, TypeOK
  <2> QED
    BY <2>2, <2>3
<1>4. ASSUME NEW h \in Handlers, IssueWithNumber(h) PROVE Contract!Next
  <2>1. PICK i \in InvoiceIds :
          req[h].id = i /\ (i \notin contended => StillTrue(req[h]) /\ RowSound(i))
    BY <1>4, WriterKnows DEF IssueWithNumber, WriteOps
  <2>2. PICK y \in Years : req[h].year = y
    BY <1>4, RequestShape DEF IssueWithNumber, IInv, TypeOK, Request
  <2>3. /\ number' = [number EXCEPT ![i] = <<y, counter[y] + 1>>]
        /\ status' = [status EXCEPT ![i] = "SENT"]
        /\ UNCHANGED <<total, amountPaid, payments, contended>>
    BY <1>4, <2>1, <2>2 DEF IssueWithNumber, NextSeq
  <2>4. CASE i \notin contended
    <3>1. status[i] = "DRAFT" /\ number[i] = NoNumber
      BY <1>4, <2>1, <2>4 DEF IssueWithNumber, StillTrue, RowSound
    <3>2. counter[y] \in Nat
      BY DEF IInv, TypeOK
    <3>3. \A j \in InvoiceIds : number[j] # <<y, counter[y] + 1>>
      <4> SUFFICES ASSUME NEW j \in InvoiceIds, number[j] = <<y, counter[y] + 1>> PROVE FALSE
        OBVIOUS
      <4>1. number[j] # NoNumber
        BY <3>2 DEF NoNumber
      <4>2. number[j][2] <= counter[number[j][1]]
        BY <4>1 DEF IInv, RaceInv, NumbersBelowCounter
      <4> QED
        BY <3>2, <4>2
    <3>4. number'[i] = <<y, counter[y] + 1>> /\ number' = [number EXCEPT ![i] = number'[i]]
      BY <2>3 DEF IInv, TypeOK
    <3>5. number'[i] # Contract!NoNumber
      BY <3>2, <3>4 DEF Contract!NoNumber
    <3>6. Contract!Issue(i)
      BY <2>3, <3>1, <3>3, <3>4, <3>5 DEF Contract!Issue, Contract!NoNumber, NoNumber
    <3> QED
      BY <3>6 DEF Contract!Next
  <2>5. CASE i \in contended
    BY <2>3, <2>5, GivingUp DEF SameRow, IInv, TypeOK
  <2> QED
    BY <2>4, <2>5
<1>5. ASSUME NEW h \in Handlers, AddPayment(h) PROVE Contract!Next
  <2>1. PICK i \in InvoiceIds :
          req[h].id = i /\ (i \notin contended => StillTrue(req[h]) /\ RowSound(i))
    BY <1>5, WriterKnows DEF AddPayment, WriteOps
  <2>2. PICK a \in Nat, p \in Int, s \in InvoiceStatus :
          req[h].op = "pay" /\ req[h].amount = a /\ req[h].newPaid = p /\ req[h].status = s
    BY <1>5, RequestShape DEF AddPayment, IInv, TypeOK, Request
  <2>3. /\ payments' = [payments EXCEPT ![i] = @ + a]
        /\ amountPaid' = [amountPaid EXCEPT ![i] = p]
        /\ status' = [status EXCEPT ![i] = s]
        /\ UNCHANGED <<number, total, contended>>
    BY <1>5, <2>1, <2>2 DEF AddPayment
  <2>4. CASE i \notin contended
    <3>1. /\ status[i] \in {"SENT", "PARTIALLY_PAID"} /\ RowSound(i)
          /\ a > 0 /\ p = amountPaid[i] + a /\ p <= total[i] /\ s = DeriveStatus(p, total[i])
      BY <2>1, <2>2, <2>4 DEF StillTrue
    <3>2. amountPaid[i] \in Int /\ total[i] \in Int
      BY DEF IInv, TypeOK
    <3>3. amountPaid[i] >= 0
      BY <3>1, <3>2 DEF RowSound
    <3>4. p \in (amountPaid[i] + 1)..total[i] /\ p > 0
      BY <2>2, <3>1, <3>2, <3>3
    <3>5. s \in {"PARTIALLY_PAID", "PAID"} /\ Contract!Settles(p, total[i], s)
      BY <2>2, <3>1, <3>2, <3>4 DEF DeriveStatus, Contract!Settles
    <3>6. Contract!Pay(i)
      BY <2>3, <3>1, <3>4, <3>5 DEF Contract!Pay
    <3> QED
      BY <3>6 DEF Contract!Next
  <2>5. CASE i \in contended
    BY <2>3, <2>5, GivingUp DEF SameRow, IInv, TypeOK
  <2> QED
    BY <2>4, <2>5
<1>6. ASSUME NEW h \in Handlers, CancelInvoice(h) PROVE Contract!Next
  <2>1. PICK i \in InvoiceIds :
          req[h].id = i /\ (i \notin contended => StillTrue(req[h]) /\ RowSound(i))
    BY <1>6, WriterKnows DEF CancelInvoice, WriteOps
  <2>2. CASE i \notin contended
    <3>1. Contract!Cancel(i)
      BY <1>6, <2>1, <2>2 DEF CancelInvoice, StillTrue, RowSound, Contract!Cancel
    <3> QED
      BY <3>1 DEF Contract!Next
  <2>3. CASE i \in contended
    BY <1>6, <2>1, <2>3, GivingUp DEF CancelInvoice, SameRow, IInv, TypeOK
  <2> QED
    BY <2>2, <2>3
<1>7. ASSUME \/ \E h \in Handlers : WriteFails(h) \/ EmitEvent(h)
             \/ Crash \/ NewYear \/ UNCHANGED vars
      PROVE  UNCHANGED Contract!vars
  BY <1>7 DEF WriteFails, EmitEvent, Crash, NewYear, vars, rows, Contract!vars
<1> QED
  BY <1>1, <1>2, <1>3, <1>4, <1>5, <1>6, <1>7 DEF Next, Commit

(* Whatever the interleaving, each invoice goes through the life cycle that
   InvoiceContract states with atomic operations, up to the moment at which
   two write requests overlap on it. *)
THEOREM ImplementsTheContract == Spec => ImplementsContract
<1>1. Init => Contract!Init
  BY DEF Init, Contract!Init, Absent, NoNumber, Contract!NoNumber
<1> QED
  BY <1>1, NextImplements, Invariance, PTL DEF Spec, ImplementsContract, Contract!Spec
=============================================================================
