------------------------------- MODULE Quotes -------------------------------
(***************************************************************************)
(* The quote module of the backend (modules/quotes): the life cycle of a   *)
(* quote and its conversion into a draft invoice.                          *)
(*                                                                         *)
(* As in Invoices, a handler reads the quote, checks its status, and only  *)
(* then awaits a write that checks nothing; create and update also await   *)
(* the catalogue (resolveLines) in between.  The yearly QuoteCounter is    *)
(* that of the running year: Invoices models the change of year.           *)
(***************************************************************************)
EXTENDS Integers, FiniteSets

CONSTANTS
  Handlers,        \* requests in flight at the same time
  QuoteIds,
  InvoiceIds,      \* numbers standing for the uuids of new invoices
  Nil,             \* null: no invoice, no quote
  Totals,          \* totals that resolveLines and calcTotals can return
  MaxContended,    \* bound: quotes on which requests overlap
  MaxCrashes       \* bound: process restarts

ASSUME TotalsAssumption    == Totals \subseteq Int
ASSUME InvoiceAssumption   == InvoiceIds \subseteq Nat
ASSUME NilAssumption       == Nil \notin InvoiceIds \cup QuoteIds
ASSUME BoundsAssumption    == {MaxContended, MaxCrashes} \subseteq Nat

VARIABLES
  status, number, total, converted,  \* columns of Quote
  counter,         \* QuoteCounter.lastNumber
  invoices,        \* Invoice rows made by conversions: [quote, total] by id
  req,             \* what each handler holds across its awaits
  announced,       \* invoices whose quote.converted event was emitted
  contended,       \* history: quotes on which two writers overlapped
  twice,           \* history: quotes on which two conversions overlapped
  crashes

rows == <<status, number, total, converted, counter, invoices>>
vars == <<rows, req, announced, contended, twice, crashes>>

(* EXPIRED is declared too, but no code sets it; DELETED marks a row that
   was removed, so that its id is not used again. *)
QuoteStatus == {"DRAFT", "SENT", "ACCEPTED", "REJECTED", "CONVERTED"}
Gone        == {"ABSENT", "DELETED"}
NoRow       == [quote |-> Nil, total |-> 0]

Idle  == [op |-> "idle"]
Write == [op : {"update"}, id : QuoteIds, total : Totals]
    \cup [op : {"send", "delete"}, id : QuoteIds]
    \cup [op : {"set"}, id : QuoteIds, to : {"ACCEPTED", "REJECTED"}]
    \cup [op : {"convert"}, id : QuoteIds, total : Totals, invoice : InvoiceIds]
Emit  == [op : {"emit"}, invoice : InvoiceIds]

WriteOps == {"update", "send", "delete", "set", "convert"}

-----------------------------------------------------------------------------
(* Slips the properties below must catch; no action uses them. *)

NextSeqBeforeIncrement     == counter
UnconvertedByStatusOnly(q) == status[q] # "CONVERTED"      \* link not looked at
RejectableUntilConverted   == {"DRAFT", "SENT", "ACCEPTED"}
InvoiceOutsideTransaction(h) ==                            \* half of convert stays
  invoices' = IF req[h].op # "convert" THEN invoices
              ELSE [invoices EXCEPT ![req[h].invoice] =
                      [quote |-> req[h].id, total |-> req[h].total]]
AnnounceForgotten(h)       == req' = [req EXCEPT ![h] = Idle]

-----------------------------------------------------------------------------
NextSeq == counter + 1

Editable(q)      == status[q] = "DRAFT"
Unconverted(q)   == ~(status[q] = "CONVERTED" \/ converted[q] # Nil)
Convertible(q)   == Unconverted(q) /\ status[q] \in {"ACCEPTED", "SENT"}
Removable(q)     == status[q] \notin Gone \cup {"CONVERTED"}
AcceptableFrom   == {"SENT"}
RejectableFrom   == {"SENT", "DRAFT"}

Writers(q)    == {h \in Handlers : req[h].op \in WriteOps /\ req[h].id = q}
Converters(q) == {h \in Writers(q) : req[h].op = "convert"}

(* Handler h has read quote q and holds decision r. *)
Decide(h, q, r) ==
  /\ req[h] = Idle
  /\ req' = [req EXCEPT ![h] = r]
  /\ contended' = IF Writers(q) = {} THEN contended ELSE contended \cup {q}
  /\ twice' = IF r.op = "convert" /\ Converters(q) # {} THEN twice \cup {q} ELSE twice
  /\ Cardinality(contended') <= MaxContended
  /\ UNCHANGED <<rows, announced, crashes>>

DecideUpdate(h, q) ==
  /\ Editable(q)
  /\ \E t \in Totals : Decide(h, q, [op |-> "update", id |-> q, total |-> t])

(* The check for a quote without lines never fires: ArrayMinSize(1). *)
DecideSend(h, q) ==
  /\ status[q] = "DRAFT"
  /\ Decide(h, q, [op |-> "send", id |-> q])

(* transition(): accept and reject *)
DecideTransition(h, q) ==
  \/ status[q] \in AcceptableFrom /\ Decide(h, q, [op |-> "set", id |-> q, to |-> "ACCEPTED"])
  \/ status[q] \in RejectableFrom /\ Decide(h, q, [op |-> "set", id |-> q, to |-> "REJECTED"])

(* The invoice is filled from the quote as it was read.  Its uuid is new, and
   says nothing else: ids are taken in their order. *)
Unused == {v \in InvoiceIds :
             invoices[v] = NoRow /\ \A h \in Handlers : req[h].op = "convert" => req[h].invoice # v}
Fresh(v) == v \in Unused /\ \A w \in Unused : v <= w

DecideConvert(h, q) ==
  /\ Convertible(q)
  /\ \E v \in InvoiceIds :
       /\ Fresh(v)
       /\ Decide(h, q, [op |-> "convert", id |-> q, total |-> total[q], invoice |-> v])

DecideRemove(h, q) ==
  /\ Removable(q)
  /\ Decide(h, q, [op |-> "delete", id |-> q])

-----------------------------------------------------------------------------
(* The writes: one transaction each.  An update of a row that was deleted
   in the meantime is an error, and rolls the transaction back. *)

Create(q) ==
  /\ status[q] = "ABSENT"
  /\ status' = [status EXCEPT ![q] = "DRAFT"]
  /\ \E t \in Totals : total' = [total EXCEPT ![q] = t]
  /\ UNCHANGED <<number, converted, counter, invoices, req, announced, contended,
                 twice, crashes>>

Found(h) == status[req[h].id] # "DELETED"
Done(h)  == req' = [req EXCEPT ![h] = Idle]
AnnounceConverted(h) == req' = [req EXCEPT ![h] = [op |-> "emit", invoice |-> req[h].invoice]]

ReplaceDraft(h) ==
  /\ req[h].op = "update" /\ Found(h)
  /\ total' = [total EXCEPT ![req[h].id] = req[h].total]
  /\ Done(h)
  /\ UNCHANGED <<status, number, converted, counter, invoices, announced, contended,
                 twice, crashes>>

SendWithNumber(h) ==
  /\ req[h].op = "send" /\ Found(h)
  /\ counter' = NextSeq
  /\ number'  = [number EXCEPT ![req[h].id] = NextSeq]
  /\ status'  = [status EXCEPT ![req[h].id] = "SENT"]
  /\ Done(h)
  /\ UNCHANGED <<total, converted, invoices, announced, contended, twice, crashes>>

SetStatus(h) ==
  /\ req[h].op = "set" /\ Found(h)
  /\ status' = [status EXCEPT ![req[h].id] = req[h].to]
  /\ Done(h)
  /\ UNCHANGED <<number, total, converted, counter, invoices, announced, contended,
                 twice, crashes>>

ConvertToInvoice(h) ==
  LET q == req[h].id
      v == req[h].invoice
  IN /\ req[h].op = "convert" /\ Found(h)
     /\ invoices'  = [invoices EXCEPT ![v] = [quote |-> q, total |-> req[h].total]]
     /\ status'    = [status EXCEPT ![q] = "CONVERTED"]
     /\ converted' = [converted EXCEPT ![q] = v]
     /\ AnnounceConverted(h)
     /\ UNCHANGED <<number, total, counter, announced, contended, twice, crashes>>

DeleteQuote(h) ==
  /\ req[h].op = "delete" /\ Found(h)
  /\ status'    = [status EXCEPT ![req[h].id] = "DELETED"]
  /\ number'    = [number EXCEPT ![req[h].id] = 0]
  /\ converted' = [converted EXCEPT ![req[h].id] = Nil]
  /\ Done(h)
  /\ UNCHANGED <<total, counter, invoices, announced, contended, twice, crashes>>

Commit(h) == \/ ReplaceDraft(h) \/ SendWithNumber(h) \/ SetStatus(h)
             \/ ConvertToInvoice(h) \/ DeleteQuote(h)

RolledBack(h) == UNCHANGED invoices

(* The transaction fails, because the row is gone or for any other reason. *)
WriteFails(h) ==
  /\ req[h].op \in WriteOps
  /\ RolledBack(h)
  /\ Done(h)
  /\ UNCHANGED <<status, number, total, converted, counter, announced, contended,
                 twice, crashes>>

EmitConverted(h) ==
  /\ req[h].op = "emit"
  /\ announced' = announced \cup {req[h].invoice}
  /\ Done(h)
  /\ UNCHANGED <<rows, contended, twice, crashes>>

Crash ==
  /\ \E h \in Handlers : req[h] # Idle
  /\ crashes < MaxCrashes
  /\ crashes' = crashes + 1
  /\ req' = [h \in Handlers |-> Idle]
  /\ UNCHANGED <<rows, announced, contended, twice>>

-----------------------------------------------------------------------------
Init ==
  /\ status    = [q \in QuoteIds |-> "ABSENT"]
  /\ number    = [q \in QuoteIds |-> 0]
  /\ total     = [q \in QuoteIds |-> 0]
  /\ converted = [q \in QuoteIds |-> Nil]
  /\ counter   = 0
  /\ invoices  = [v \in InvoiceIds |-> NoRow]
  /\ req       = [h \in Handlers |-> Idle]
  /\ announced = {}
  /\ contended = {}
  /\ twice     = {}
  /\ crashes   = 0

Next ==
  \/ \E q \in QuoteIds : Create(q)
  \/ \E h \in Handlers, q \in QuoteIds :
       \/ DecideUpdate(h, q) \/ DecideSend(h, q) \/ DecideTransition(h, q)
       \/ DecideConvert(h, q) \/ DecideRemove(h, q)
  \/ \E h \in Handlers : Commit(h) \/ WriteFails(h) \/ EmitConverted(h)
  \/ Crash

(* An awaited query settles and the handler goes on. *)
Fairness == \A h \in Handlers : WF_vars(Commit(h) \/ WriteFails(h) \/ EmitConverted(h))

Spec == Init /\ [][Next]_vars /\ Fairness

-----------------------------------------------------------------------------
InvoicesOf(q) == {v \in InvoiceIds : invoices[v].quote = q}

(* Every column and held decision has its type; a number, once given, is at
   least 1 and was handed out by the counter. *)
TypeOK ==
  /\ status    \in [QuoteIds -> QuoteStatus \cup Gone]
  /\ number    \in [QuoteIds -> 0..counter]
  /\ total     \in [QuoteIds -> Int]
  /\ converted \in [QuoteIds -> InvoiceIds \cup {Nil}]
  /\ counter   \in Nat
  /\ invoices  \in [InvoiceIds -> {NoRow} \cup [quote : QuoteIds, total : Int]]
  /\ req       \in [Handlers -> {Idle} \cup Write \cup Emit]
  /\ announced \subseteq InvoiceIds
  /\ contended \subseteq QuoteIds
  /\ twice     \subseteq contended
  /\ crashes   \in 0..MaxCrashes
  /\ \A q \in QuoteIds \ contended :
       status[q] \in {"SENT", "ACCEPTED", "CONVERTED"} => number[q] > 0

(* The link between a quote and its invoice: convertedInvoiceId names an
   invoice made from that very quote, whatever raced, failed or died; and an
   uncontended quote with an invoice is CONVERTED, linked to it, and was billed
   its own total. *)
LinkIsSound ==
  \A q \in QuoteIds :
    /\ converted[q] # Nil => invoices[converted[q]].quote = q
    /\ q \notin contended => \A v \in InvoicesOf(q) :
         status[q] = "CONVERTED" /\ converted[q] = v /\ invoices[v].total = total[q]

(* "Double conversion blocked": only two conversions in flight together can
   bill a quote twice.  An accept, reject or edit that overwrites CONVERTED
   cannot, because convert also looks at convertedInvoiceId. *)
BilledOnce ==
  \A q \in QuoteIds \ twice : Cardinality(InvoicesOf(q)) <= 1

(* Every uncontended quote goes through the atomic life cycle. *)
Contract == INSTANCE QuoteContract WITH
              billed <- [q \in QuoteIds |-> {invoices[v].total : v \in InvoicesOf(q)}]
ImplementsContract == Contract!Spec

(* Only a restart can swallow the quote.converted event of an invoice. *)
ConversionIsAnnounced ==
  \A v \in InvoiceIds : invoices[v] # NoRow ~> v \in announced \/ crashes > 0

(* README: "idempotent - double conversion blocked" - refuted when two convert
   requests overlap: both pass the check and each creates an invoice. *)
OneInvoicePerQuote ==
  \A q \in QuoteIds : Cardinality(InvoicesOf(q)) <= 1
=============================================================================
