------------------------------ MODULE Invoices ------------------------------
(***************************************************************************)
(* The invoice module of the backend (modules/invoices): service,          *)
(* repository and the Postgres rows they share.                            *)
(*                                                                         *)
(* A request handler is an async function.  It reads the invoice, decides  *)
(* (status checks, new amounts), and only then awaits the write.  Nothing  *)
(* locks the row in between and no write repeats the check, so a handler   *)
(* is two steps here - a read step that keeps the decision in req[h], and  *)
(* a write step that is one database transaction - plus the event that is  *)
(* emitted after the commit.  The steps of different handlers interleave,  *)
(* a transaction may fail, and the process may die between any two steps.  *)
(***************************************************************************)
EXTENDS Integers, FiniteSets

CONSTANTS
  Handlers,        \* requests that may be in flight at the same time
  InvoiceIds,      \* invoice rows that can be created
  Totals,          \* totals that calcTotals can return for a dto's lines
  Amounts,         \* CreatePaymentDto.amount, any decimal that parses
  Years,           \* UTC years the server clock goes through
  MaxPayments,     \* bound: no new payment once this much is recorded
  MaxContended,    \* bound: rows on which requests overlap
  MaxCrashes       \* bound: process restarts

ASSUME TotalsAssumption  == Totals \subseteq Int
ASSUME AmountsAssumption == Amounts \subseteq Nat
ASSUME YearsAssumption   == Years \subseteq Nat \ {0} /\ Years # {}
ASSUME BoundsAssumption  == {MaxPayments, MaxContended, MaxCrashes} \subseteq Nat

VARIABLES
  status, number, total, amountPaid,  \* columns of Invoice
  payments,        \* sum of the invoice's Payment rows
  counter,         \* InvoiceCounter.lastNumber by year (0: no row)
  year,            \* the server clock
  req,             \* what each handler holds across its await
  emitted,         \* how often each event was emitted for an invoice
  contended,       \* history: invoices on which two writers overlapped
  crashes

rows == <<status, number, total, amountPaid, payments, counter>>
vars == <<rows, year, req, emitted, contended, crashes>>

NoNumber == <<0, 0>>

(* OVERDUE is declared too, but no code sets it. *)
InvoiceStatus == {"DRAFT", "SENT", "PARTIALLY_PAID", "PAID", "CANCELLED"}
Absent        == "ABSENT"           \* the row does not exist yet
Event         == {"issued", "paid"} \* invoice.issued, invoice.paid

Idle  == [op |-> "idle"]
Write == [op : {"update"}, id : InvoiceIds, total : Totals]
    \cup [op : {"issue"},  id : InvoiceIds, year : Years]
    \cup [op : {"pay"},    id : InvoiceIds, amount : Amounts,
          newPaid : Int, status : InvoiceStatus]
    \cup [op : {"cancel"}, id : InvoiceIds]
Emit  == [op : {"emit"}, id : InvoiceIds, event : Event]

WriteOps == {"update", "issue", "pay", "cancel"}

-----------------------------------------------------------------------------
(* Slips the properties below must catch; no action uses them. *)

FitsUnchecked(newPaid, tot)   == TRUE                  \* overpayment guard dropped
CancellableUnlessPaidOff(i)   == status[i] \notin {Absent, "CANCELLED", "PAID"}
NextSeqBeforeIncrement(y)     == counter[y]            \* RETURNING the old value
NextSeqOnConflictNothing(y)   == IF counter[y] = 0 THEN 1 ELSE counter[y]
CounterOutsideTransaction(h)  ==                       \* rollback keeps the increment
  counter' = IF req[h].op = "issue" THEN [counter EXCEPT ![req[h].year] = @ + 1]
             ELSE counter
IssuedEventForgotten(h, i)    == req' = [req EXCEPT ![h] = Idle]

-----------------------------------------------------------------------------
(* The decisions of the service, taken on the row as it was read. *)

DeriveStatus(paid, tot) ==
  IF paid >= tot THEN "PAID" ELSE IF paid > 0 THEN "PARTIALLY_PAID" ELSE "SENT"

Editable(i)    == status[i] = "DRAFT"
Payable(i)     == status[i] \notin {Absent, "DRAFT", "CANCELLED"}
Cancellable(i) == /\ status[i] \notin {Absent, "CANCELLED", "PAID"}
                  /\ ~(amountPaid[i] > 0)
FitsTotal(newPaid, tot)   == ~(newPaid > tot)
AnnouncesPaid(newStatus)  == newStatus = "PAID"
NextSeq(y)                == counter[y] + 1

Writers(i) == {h \in Handlers : req[h].op \in WriteOps /\ req[h].id = i}

(* Handler h has read row i and holds decision r; the read changes nothing.
   A decision taken while another handler is about to write the row makes
   the row contended. *)
Decide(h, i, r) ==
  /\ req[h] = Idle
  /\ req' = [req EXCEPT ![h] = r]
  /\ contended' = IF Writers(i) = {} THEN contended ELSE contended \cup {i}
  /\ Cardinality(contended') <= MaxContended
  /\ UNCHANGED <<rows, year, emitted, crashes>>

DecideUpdate(h, i) ==
  /\ Editable(i)
  /\ \E t \in Totals : Decide(h, i, [op |-> "update", id |-> i, total |-> t])

(* issue also refuses an invoice without line items, which the dtos never
   let exist (ArrayMinSize(1) on create and on update). *)
DecideIssue(h, i) ==
  /\ status[i] = "DRAFT"
  /\ Decide(h, i, [op |-> "issue", id |-> i, year |-> year])

DecidePay(h, i) ==
  /\ Payable(i)
  /\ payments[i] < MaxPayments
  /\ \E a \in Amounts :
       LET newPaid == amountPaid[i] + a IN
       /\ a > 0
       /\ FitsTotal(newPaid, total[i])
       /\ Decide(h, i, [op |-> "pay", id |-> i, amount |-> a, newPaid |-> newPaid,
                        status |-> DeriveStatus(newPaid, total[i])])

DecideCancel(h, i) ==
  /\ Cancellable(i)
  /\ Decide(h, i, [op |-> "cancel", id |-> i])

-----------------------------------------------------------------------------
(* The writes: one transaction each, and none looks at the status again. *)

Create(i) ==                                       \* POST /invoices: one insert
  /\ status[i] = Absent
  /\ status' = [status EXCEPT ![i] = "DRAFT"]
  /\ \E t \in Totals : total' = [total EXCEPT ![i] = t]
  /\ UNCHANGED <<number, amountPaid, payments, counter, year, req, emitted,
                 contended, crashes>>

Done(h)        == req' = [req EXCEPT ![h] = Idle]
ThenEmit(h, e) == req' = [req EXCEPT ![h] = [op |-> "emit", id |-> req[h].id, event |-> e]]
EmitIssued(h, i) == ThenEmit(h, "issued")

ReplaceDraft(h) ==
  LET i == req[h].id IN
  /\ req[h].op = "update"
  /\ total' = [total EXCEPT ![i] = req[h].total]
  /\ Done(h)
  /\ UNCHANGED <<status, number, amountPaid, payments, counter, year, emitted,
                 contended, crashes>>

IssueWithNumber(h) ==
  /\ req[h].op = "issue"
  /\ LET i == req[h].id
         y == req[h].year
     IN /\ counter' = [counter EXCEPT ![y] = NextSeq(y)]
        /\ number'  = [number EXCEPT ![i] = <<y, NextSeq(y)>>]
        /\ status'  = [status EXCEPT ![i] = "SENT"]
        /\ EmitIssued(h, i)
  /\ UNCHANGED <<total, amountPaid, payments, year, emitted, contended, crashes>>

AddPayment(h) ==
  LET i == req[h].id IN
  /\ req[h].op = "pay"
  /\ payments'   = [payments EXCEPT ![i] = @ + req[h].amount]
  /\ amountPaid' = [amountPaid EXCEPT ![i] = req[h].newPaid]
  /\ status'     = [status EXCEPT ![i] = req[h].status]
  /\ IF AnnouncesPaid(req[h].status) THEN ThenEmit(h, "paid") ELSE Done(h)
  /\ UNCHANGED <<number, total, counter, year, emitted, contended, crashes>>

CancelInvoice(h) ==
  LET i == req[h].id IN
  /\ req[h].op = "cancel"
  /\ status' = [status EXCEPT ![i] = "CANCELLED"]
  /\ Done(h)
  /\ UNCHANGED <<number, total, amountPaid, payments, counter, year, emitted,
                 contended, crashes>>

Commit(h) == ReplaceDraft(h) \/ IssueWithNumber(h) \/ AddPayment(h) \/ CancelInvoice(h)

RolledBack(h) == UNCHANGED counter

(* The transaction fails: it leaves no trace and the client gets an error. *)
WriteFails(h) ==
  /\ req[h].op \in WriteOps
  /\ RolledBack(h)
  /\ Done(h)
  /\ UNCHANGED <<status, number, total, amountPaid, payments, year, emitted,
                 contended, crashes>>

(* events.emit after the commit: in memory, no outbox. *)
EmitEvent(h) ==
  /\ req[h].op = "emit"
  /\ emitted' = [emitted EXCEPT ![<<req[h].event, req[h].id>>] = @ + 1]
  /\ Done(h)
  /\ UNCHANGED <<rows, year, contended, crashes>>

Crash ==            \* the process dies with requests in flight and restarts;
  /\ \E h \in Handlers : req[h] # Idle     \* what committed stays
  /\ crashes < MaxCrashes
  /\ crashes' = crashes + 1
  /\ req' = [h \in Handlers |-> Idle]
  /\ UNCHANGED <<rows, year, emitted, contended>>

NewYear ==
  /\ year + 1 \in Years
  /\ year' = year + 1
  /\ UNCHANGED <<rows, req, emitted, contended, crashes>>

-----------------------------------------------------------------------------
Init ==
  /\ status     = [i \in InvoiceIds |-> Absent]
  /\ number     = [i \in InvoiceIds |-> NoNumber]
  /\ total      = [i \in InvoiceIds |-> 0]
  /\ amountPaid = [i \in InvoiceIds |-> 0]
  /\ payments   = [i \in InvoiceIds |-> 0]
  /\ counter    = [y \in Years |-> 0]
  /\ year       \in {y \in Years : \A z \in Years : y <= z}
  /\ req        = [h \in Handlers |-> Idle]
  /\ emitted    = [e \in Event \X InvoiceIds |-> 0]
  /\ contended  = {}
  /\ crashes    = 0

Next ==
  \/ \E i \in InvoiceIds : Create(i)
  \/ \E h \in Handlers, i \in InvoiceIds :
       DecideUpdate(h, i) \/ DecideIssue(h, i) \/ DecidePay(h, i) \/ DecideCancel(h, i)
  \/ \E h \in Handlers : Commit(h) \/ WriteFails(h) \/ EmitEvent(h)
  \/ Crash
  \/ NewYear

(* Node resumes a handler once the awaited query settles, well or not, and
   runs the code after it; nothing forces a client to send a request. *)
Fairness == \A h \in Handlers : WF_vars(Commit(h) \/ WriteFails(h) \/ EmitEvent(h))

Spec == Init /\ [][Next]_vars /\ Fairness

-----------------------------------------------------------------------------
Number == {NoNumber} \cup (Years \X (Nat \ {0}))

(* Every column, counter and held decision has its type. *)
TypeOK ==
  /\ status     \in [InvoiceIds -> InvoiceStatus \cup {Absent}]
  /\ number     \in [InvoiceIds -> Number]
  /\ total      \in [InvoiceIds -> Int]
  /\ amountPaid \in [InvoiceIds -> Int]
  /\ payments   \in [InvoiceIds -> Int]
  /\ counter    \in [Years -> Nat]
  /\ year       \in Years
  /\ req        \in [Handlers -> {Idle} \cup Write \cup Emit]
  /\ emitted    \in [Event \X InvoiceIds -> Nat]
  /\ contended  \subseteq InvoiceIds
  /\ crashes    \in 0..MaxCrashes

(* However requests interleave, fail or die, no two invoices ever carry the
   same number: INSERT ... ON CONFLICT serialises the counter (the code's
   "conflict-free").  The unique index on Invoice.number is left out of the
   model on purpose: it never has to refuse an issue. *)
NumbersAreUnique ==
  \A i, j \in InvoiceIds : number[i] = number[j] /\ number[i] # NoNumber => i = j

(* A number the counter gave out is on an invoice, as long as no two writers
   met on a row: failed transactions and crashes burn none ("gap-free"). *)
NumbersHaveNoGap ==
  contended = {} =>
    \A y \in Years : \A n \in 1..counter[y] : \E i \in InvoiceIds : number[i] = <<y, n>>

(* The books: what amountPaid says was paid was really recorded, whatever the
   races; on a row without contention the two agree, and neither exceeds the
   total of an invoice that was issued. *)
BooksMatchPayments ==
  \A i \in InvoiceIds :
    /\ amountPaid[i] <= payments[i]
    /\ i \notin contended => /\ amountPaid[i] = payments[i]
                             /\ payments[i] > 0 => payments[i] <= total[i]

(* Only a restart can swallow the event of an invoice that was issued. *)
IssueIsAnnounced ==
  \A i \in InvoiceIds :
    number[i] # NoNumber ~> emitted[<<"issued", i>>] > 0 \/ crashes > 0

(* Each row, as long as it is not contended, goes through the atomic life
   cycle of InvoiceContract: drafts only are edited, PAID and CANCELLED are
   final, a number is given once, a payment fits the total it was checked
   against. *)
Contract == INSTANCE InvoiceContract WITH paid <- amountPaid
ImplementsContract == Contract!Spec
=============================================================================
