---------------------------- MODULE QuotesProofs ----------------------------
(***************************************************************************)
(* What holds of Quotes for every number of handlers, quotes, invoices and *)
(* totals.                                                                 *)
(***************************************************************************)
EXTENDS Quotes, FiniteSetTheorems, TLAPS

Request == {Idle} \cup Write \cup Emit

(* The operation of a request fixes which fields it has. *)
LEMMA RequestShape ==
  ASSUME NEW r \in Request
  PROVE  /\ r.op \in WriteOps => r.id \in QuoteIds
         /\ r.op \in {"update", "convert"} => r.total \in Totals
         /\ r.op = "set" => r.to \in {"ACCEPTED", "REJECTED"}
         /\ r.op \in {"convert", "emit"} => r.invoice \in InvoiceIds
  BY DEF Request, Idle, Write, Emit, WriteOps

(* The types, and what keeps the total of an invoice among the totals that
   line items add up to: a row that exists has such a total, and only rows
   that exist are being written. *)
Typed ==
  /\ status    \in [QuoteIds -> QuoteStatus \cup Gone]
  /\ number    \in [QuoteIds -> Nat]
  /\ total     \in [QuoteIds -> Int]
  /\ converted \in [QuoteIds -> InvoiceIds \cup {Nil}]
  /\ counter   \in Nat
  /\ invoices  \in [InvoiceIds -> {NoRow} \cup [quote : QuoteIds, total : Int]]
  /\ req       \in [Handlers -> Request]
  /\ announced \subseteq InvoiceIds
  /\ contended \subseteq QuoteIds
  /\ twice     \subseteq contended
  /\ crashes   \in 0..MaxCrashes
  /\ \A q \in QuoteIds : number[q] <= counter
  /\ \A q \in QuoteIds : status[q] # "ABSENT" => total[q] \in Totals
  /\ \A h \in Handlers : req[h].op \in WriteOps => status[req[h].id] # "ABSENT"

LEMMA InitTyped == Init => Typed
  BY BoundsAssumption DEF Init, Typed, QuoteStatus, Gone, Request, Idle, WriteOps

(* A decision on a row that exists. *)
LEMMA DecideTyped ==
  ASSUME Typed, NEW h \in Handlers, NEW q \in QuoteIds, NEW r \in Write, r.id = q,
         status[q] # "ABSENT", Decide(h, q, r)
  PROVE  Typed'
<1>1. r \in Request /\ UNCHANGED <<rows, announced, crashes>>
  BY DEF Decide, Request
<1>2. req' \in [Handlers -> Request] /\ \A g \in Handlers : req'[g] = req[g] \/ req'[g] = r
  BY <1>1 DEF Decide, Typed
<1>3. contended' \subseteq QuoteIds /\ twice' \subseteq contended'
  BY DEF Decide, Typed, Converters
<1> QED
  BY <1>1, <1>2, <1>3 DEF Typed, rows

(* Only req, announced and crashes change, and no write begins. *)
LEMMA FrameTyped ==
  ASSUME Typed, UNCHANGED <<rows, contended, twice>>,
         req' \in [Handlers -> Request],
         \A g \in Handlers : req'[g] = req[g] \/ req'[g].op \notin WriteOps,
         announced' \subseteq InvoiceIds, crashes' \in 0..MaxCrashes
  PROVE  Typed'
  BY DEF Typed, rows

LEMMA NextTyped == Typed /\ [Next]_vars => Typed'
<1> SUFFICES ASSUME Typed, [Next]_vars PROVE Typed'
  OBVIOUS
<1>1. ASSUME NEW q \in QuoteIds, Create(q) PROVE Typed'
  <2>1. PICK t \in Totals : total' = [total EXCEPT ![q] = t]
    BY <1>1 DEF Create
  <2>2. t \in Int
    BY TotalsAssumption
  <2> QED
    BY <1>1, <2>1, <2>2 DEF Create, Typed, QuoteStatus
<1>2. ASSUME NEW h \in Handlers, NEW q \in QuoteIds,
             \/ DecideUpdate(h, q) \/ DecideSend(h, q) \/ DecideTransition(h, q)
             \/ DecideConvert(h, q) \/ DecideRemove(h, q)
      PROVE  Typed'
  <2>1. status[q] # "ABSENT"
    BY <1>2 DEF DecideUpdate, DecideSend, DecideTransition, DecideConvert, DecideRemove,
       Editable, Convertible, Removable, AcceptableFrom, RejectableFrom, Gone
  <2>2. total[q] \in Totals
    BY <2>1 DEF Typed
  <2>3. PICK r \in Write : r.id = q /\ Decide(h, q, r)
    BY <1>2, <2>2 DEF DecideUpdate, DecideSend, DecideTransition, DecideConvert, DecideRemove, Write
  <2> QED
    BY <2>1, <2>3, DecideTyped
<1>3. ASSUME NEW h \in Handlers, Done(h) \/ (AnnounceConverted(h) /\ req[h].op = "convert")
      PROVE  /\ req' \in [Handlers -> Request]
             /\ \A g \in Handlers : req'[g] = req[g] \/ req'[g].op \notin WriteOps
  <2>1. CASE Done(h)
    BY <2>1 DEF Done, Typed, Request, Idle, WriteOps
  <2>2. CASE AnnounceConverted(h) /\ req[h].op = "convert"
    <3>1. req[h].invoice \in InvoiceIds
      BY <2>2, RequestShape DEF Typed
    <3> QED
      BY <2>2, <3>1 DEF AnnounceConverted, Typed, Request, Emit, WriteOps
  <2> QED
    BY <1>3, <2>1, <2>2
<1>4. ASSUME NEW h \in Handlers, Commit(h) PROVE Typed'
  <2>1. PICK q \in QuoteIds : req[h].id = q /\ req[h].op \in WriteOps
    BY <1>4, RequestShape DEF Commit, ReplaceDraft, SendWithNumber, SetStatus, ConvertToInvoice,
       DeleteQuote, WriteOps, Typed
  <2>2. status[q] # "ABSENT" /\ total[q] \in Totals
    BY <2>1 DEF Typed
  <2>3. /\ req' \in [Handlers -> Request]
        /\ \A g \in Handlers : req'[g] = req[g] \/ req'[g].op \notin WriteOps
    <3>1. Done(h) \/ (AnnounceConverted(h) /\ req[h].op = "convert")
      BY <1>4 DEF Commit, ReplaceDraft, SendWithNumber, SetStatus, ConvertToInvoice, DeleteQuote
    <3> QED
      BY <1>3, <3>1
  <2>4. CASE ReplaceDraft(h)
    <3>1. PICK t \in Totals : req[h].total = t
      BY <2>4, RequestShape DEF ReplaceDraft, Typed
    <3>2. t \in Int
      BY TotalsAssumption
    <3> QED
      BY <2>1, <2>3, <2>4, <3>1, <3>2 DEF ReplaceDraft, Typed
  <2>5. CASE SendWithNumber(h)
    BY <2>1, <2>2, <2>3, <2>5 DEF SendWithNumber, NextSeq, Typed, QuoteStatus
  <2>6. CASE SetStatus(h)
    <3>1. req[h].to \in {"ACCEPTED", "REJECTED"}
      BY <2>6, RequestShape DEF SetStatus, Typed
    <3> QED
      BY <2>1, <2>2, <2>3, <2>6, <3>1 DEF SetStatus, Typed, QuoteStatus
  <2>7. CASE ConvertToInvoice(h)
    <3>1. PICK v \in InvoiceIds, t \in Totals : req[h].invoice = v /\ req[h].total = t
      BY <2>7, RequestShape DEF ConvertToInvoice, Typed
    <3>2. t \in Int
      BY TotalsAssumption
    <3>3. invoices' \in [InvoiceIds -> {NoRow} \cup [quote : QuoteIds, total : Int]]
      BY <2>1, <2>7, <3>1, <3>2 DEF ConvertToInvoice, Typed
    <3>4. /\ status' = [status EXCEPT ![q] = "CONVERTED"]
          /\ converted' = [converted EXCEPT ![q] = v]
          /\ UNCHANGED <<number, total, counter, announced, contended, twice, crashes>>
      BY <2>1, <2>7, <3>1 DEF ConvertToInvoice
    <3> QED
      BY <2>1, <2>2, <2>3, <3>3, <3>4 DEF Typed, QuoteStatus
  <2>8. CASE DeleteQuote(h)
    BY <2>1, <2>2, <2>3, <2>8 DEF DeleteQuote, Typed, Gone
  <2> QED
    BY <1>4, <2>4, <2>5, <2>6, <2>7, <2>8 DEF Commit
<1>5. ASSUME NEW h \in Handlers, WriteFails(h) PROVE Typed'
  <2>1. Done(h) /\ UNCHANGED <<rows, contended, twice, announced, crashes>>
    BY <1>5 DEF WriteFails, RolledBack, rows
  <2>2. announced' \subseteq InvoiceIds /\ crashes' \in 0..MaxCrashes
    BY <2>1 DEF Typed
  <2> QED
    BY <1>3, <2>1, <2>2, FrameTyped
<1>6. ASSUME NEW h \in Handlers, EmitConverted(h) PROVE Typed'
  <2>1. req[h].invoice \in InvoiceIds
    BY <1>6, RequestShape DEF EmitConverted, Typed
  <2>2. Done(h) /\ UNCHANGED <<rows, contended, twice, crashes>>
    BY <1>6 DEF EmitConverted
  <2>3. announced' \subseteq InvoiceIds /\ crashes' \in 0..MaxCrashes
    BY <1>6, <2>1, <2>2 DEF EmitConverted, Typed
  <2> QED
    BY <1>3, <2>2, <2>3, FrameTyped
<1>7. CASE Crash
  <2>1. req' \in [Handlers -> Request] /\ \A g \in Handlers : req'[g].op \notin WriteOps
    BY <1>7 DEF Crash, Request, Idle, WriteOps
  <2>2. crashes' \in 0..MaxCrashes
    BY <1>7, BoundsAssumption DEF Crash, Typed
  <2> QED
    BY <1>7, <2>1, <2>2, FrameTyped DEF Crash, Typed
<1>8. CASE UNCHANGED vars
  BY <1>8, FrameTyped DEF vars, Typed
<1> QED
  BY <1>1, <1>2, <1>4, <1>5, <1>6, <1>7, <1>8 DEF Next

-----------------------------------------------------------------------------
(***************************************************************************)
(* Billing, whatever the races.  A converting handler holds an id of its   *)
(* own that no invoice has; the link of a quote is set with its invoice    *)
(* and only goes away with the row.  So a later convert sees it, and only  *)
(* a convert that is already under way can bill the quote again.           *)
(***************************************************************************)
Converting(h) == req[h].op = "convert"

HeldIsNew == \A h \in Handlers : Converting(h) => invoices[req[h].invoice] = NoRow

HeldOnce ==
  \A g, h \in Handlers :
    Converting(g) /\ Converting(h) /\ req[g].invoice = req[h].invoice => g = h

Linked == \A q \in QuoteIds : converted[q] # Nil => invoices[converted[q]].quote = q

OneConverter ==
  \A g, h \in Handlers :
    Converting(g) /\ Converting(h) /\ req[g].id = req[h].id /\ req[g].id \notin twice => g = h

ConverterIsFirst ==
  \A h \in Handlers, q \in QuoteIds \ twice :
    Converting(h) /\ req[h].id = q => InvoicesOf(q) = {}

LinkIsKept ==
  \A q \in QuoteIds \ twice : \A v \in InvoicesOf(q) :
    converted[q] = v \/ status[q] = "DELETED"

OneInvoice == \A q \in QuoteIds \ twice : \A v, w \in InvoicesOf(q) : v = w

BillInv == /\ HeldIsNew /\ HeldOnce /\ Linked
           /\ OneConverter /\ ConverterIsFirst /\ LinkIsKept /\ OneInvoice

LEMMA InitBill == Init => BillInv
  BY NilAssumption DEF Init, BillInv, HeldIsNew, HeldOnce, Linked, OneConverter, ConverterIsFirst,
     LinkIsKept, OneInvoice, Converting, InvoicesOf, Idle, NoRow

(* No invoice is made and no convert begins; a link is lost with its row only. *)
LEMMA FrameBill ==
  ASSUME Typed, BillInv, UNCHANGED invoices, twice \subseteq twice',
         \A g \in Handlers : req'[g] = req[g] \/ req'[g].op # "convert",
         \A q \in QuoteIds :
           \/ converted'[q] = converted[q] /\ (status[q] = "DELETED" => status'[q] = "DELETED")
           \/ converted'[q] = Nil /\ status'[q] = "DELETED"
  PROVE  BillInv'
<1>1. \A g \in Handlers : Converting(g)' => Converting(g) /\ req'[g] = req[g]
  BY DEF Converting
<1>2. \A q \in QuoteIds : InvoicesOf(q)' = InvoicesOf(q)
  BY DEF InvoicesOf
<1>4. HeldIsNew' /\ HeldOnce' /\ OneConverter'
  BY <1>1 DEF BillInv, HeldIsNew, HeldOnce, OneConverter
<1>5. ConverterIsFirst'
  BY <1>1, <1>2 DEF BillInv, ConverterIsFirst
<1>6. Linked'
  BY DEF BillInv, Linked
<1>7. LinkIsKept' /\ OneInvoice'
  BY <1>2 DEF BillInv, LinkIsKept, OneInvoice
<1> QED
  BY <1>4, <1>5, <1>6, <1>7 DEF BillInv

LEMMA ConvertBegins ==
  ASSUME Typed, BillInv, NEW h \in Handlers, NEW q \in QuoteIds, DecideConvert(h, q)
  PROVE  BillInv'
<1>1. PICK v \in InvoiceIds :
        Fresh(v) /\ Decide(h, q, [op |-> "convert", id |-> q, total |-> total[q], invoice |-> v])
  BY DEF DecideConvert
<1>2. /\ UNCHANGED <<invoices, converted, status>> /\ twice \subseteq twice'
      /\ Converters(q) # {} => q \in twice'
      /\ req'[h].op = "convert" /\ req'[h].id = q /\ req'[h].invoice = v
      /\ \A g \in Handlers \ {h} : req'[g] = req[g]
  BY <1>1 DEF Decide, rows, Typed
<1>3. /\ invoices[v] = NoRow
      /\ \A g \in Handlers : Converting(g) => req[g].invoice # v
  BY <1>1 DEF Fresh, Unused, Converting
<1>4. \A r \in QuoteIds : InvoicesOf(r)' = InvoicesOf(r)
  BY <1>2 DEF InvoicesOf
<1>6. HeldIsNew' /\ HeldOnce'
  BY <1>2, <1>3 DEF BillInv, HeldIsNew, HeldOnce, Converting
<1>7. Linked' /\ LinkIsKept' /\ OneInvoice'
  BY <1>2, <1>4 DEF BillInv, Linked, LinkIsKept, OneInvoice
<1>8. OneConverter'
  <2> SUFFICES ASSUME NEW f \in Handlers, NEW g \in Handlers, Converting(f)', Converting(g)',
                      req'[f].id = req'[g].id, req'[f].id \notin twice', f # g
               PROVE  FALSE
    BY DEF OneConverter
  <2>1. CASE f # h /\ g # h
    BY <1>2, <2>1 DEF BillInv, OneConverter, Converting
  <2>2. CASE f = h \/ g = h
    <3>1. PICK k \in Handlers \ {h} : Converting(k) /\ req[k].id = q /\ q \notin twice'
      BY <1>2, <2>2 DEF Converting
    <3>2. k \in Converters(q)
      BY <3>1 DEF Converters, Writers, Converting, WriteOps
    <3> QED
      BY <1>2, <3>1, <3>2
  <2> QED
    BY <2>1, <2>2
<1>9. ConverterIsFirst'
  <2> SUFFICES ASSUME NEW g \in Handlers, NEW r \in QuoteIds, r \notin twice',
                      Converting(g)', req'[g].id = r
               PROVE  InvoicesOf(r)' = {}
    BY DEF ConverterIsFirst
  <2>1. CASE g = h
    <3>1. status[q] \in {"ACCEPTED", "SENT"} /\ converted[q] = Nil
      BY DEF DecideConvert, Convertible, Unconverted
    <3>2. q \notin twice
      BY <1>2, <2>1
    <3>3. InvoicesOf(q) = {}
      BY <3>1, <3>2, NilAssumption DEF BillInv, LinkIsKept, InvoicesOf
    <3> QED
      BY <1>2, <1>4, <2>1, <3>3
  <2>2. CASE g # h
    BY <1>2, <1>4, <2>2 DEF BillInv, ConverterIsFirst, Converting
  <2> QED
    BY <2>1, <2>2
<1> QED
  BY <1>6, <1>7, <1>8, <1>9 DEF BillInv

LEMMA ConvertCommits ==
  ASSUME Typed, BillInv, NEW h \in Handlers, ConvertToInvoice(h)
  PROVE  BillInv'
<1>1. PICK q \in QuoteIds, v \in InvoiceIds, t \in Totals :
        Converting(h) /\ req[h].id = q /\ req[h].invoice = v /\ req[h].total = t
  BY RequestShape DEF ConvertToInvoice, Typed, Converting, WriteOps
<1>2. /\ invoices' = [invoices EXCEPT ![v] = [quote |-> q, total |-> t]]
      /\ status' = [status EXCEPT ![q] = "CONVERTED"]
      /\ converted' = [converted EXCEPT ![q] = v]
      /\ req' = [req EXCEPT ![h] = [op |-> "emit", invoice |-> v]]
      /\ UNCHANGED twice
  BY <1>1 DEF ConvertToInvoice, AnnounceConverted
<1>3. invoices[v] = NoRow /\ status[q] # "DELETED"
  BY <1>1 DEF BillInv, HeldIsNew, ConvertToInvoice, Found
<1>4. \A g \in Handlers : Converting(g)' => g # h /\ Converting(g) /\ req'[g] = req[g]
  BY <1>2 DEF Converting, Typed
<1>5. \A g \in Handlers : Converting(g) => req[g].invoice \in InvoiceIds
  BY RequestShape DEF Typed, Converting, WriteOps
<1>6. \A r \in QuoteIds : InvoicesOf(r)' = IF r = q THEN InvoicesOf(q) \cup {v} ELSE InvoicesOf(r)
  BY <1>2, <1>3, NilAssumption DEF InvoicesOf, Typed, NoRow
<1>7. HeldIsNew'
  <2> SUFFICES ASSUME NEW g \in Handlers, Converting(g)'
               PROVE  invoices'[req'[g].invoice] = NoRow
    BY DEF HeldIsNew
  <2>1. g # h /\ Converting(g) /\ req'[g] = req[g]
    BY <1>4
  <2>2. req[g].invoice # v /\ req[g].invoice \in InvoiceIds
    BY <1>1, <1>5, <2>1 DEF BillInv, HeldOnce
  <2> QED
    BY <1>2, <2>1, <2>2 DEF BillInv, HeldIsNew, Typed
<1>8. HeldOnce' /\ OneConverter'
  BY <1>2, <1>4 DEF BillInv, HeldOnce, OneConverter
<1>9. Linked'
  <2> SUFFICES ASSUME NEW r \in QuoteIds, converted'[r] # Nil
               PROVE  invoices'[converted'[r]].quote = r
    BY DEF Linked
  <2>1. CASE r = q
    BY <1>2, <2>1 DEF Typed
  <2>2. CASE r # q
    <3>1. converted'[r] = converted[r] /\ converted[r] \in InvoiceIds
      BY <1>2, <2>2 DEF Typed
    <3>2. invoices[converted[r]].quote = r
      BY <3>1 DEF BillInv, Linked
    <3>3. converted[r] # v
      BY <1>3, <3>2, NilAssumption DEF NoRow
    <3> QED
      BY <1>2, <3>1, <3>2, <3>3 DEF Typed
  <2> QED
    BY <2>1, <2>2
<1>10. q \notin twice => InvoicesOf(q) = {}
  BY <1>1 DEF BillInv, ConverterIsFirst
<1>11. ConverterIsFirst'
  <2> SUFFICES ASSUME NEW g \in Handlers, NEW r \in QuoteIds, r \notin twice',
                      Converting(g)', req'[g].id = r
               PROVE  InvoicesOf(r)' = {}
    BY DEF ConverterIsFirst
  <2>1. g # h /\ Converting(g) /\ req[g].id = r /\ r \notin twice
    BY <1>2, <1>4
  <2>2. r # q
    BY <1>1, <2>1 DEF BillInv, OneConverter
  <2> QED
    BY <1>6, <2>1, <2>2 DEF BillInv, ConverterIsFirst
<1>12. LinkIsKept' /\ OneInvoice'
  <2>1. ASSUME NEW r \in QuoteIds, r \notin twice', NEW w \in InvoiceIds, w \in InvoicesOf(r)'
        PROVE  converted'[r] = w \/ status'[r] = "DELETED"
    BY <1>2, <1>6, <1>10, <2>1 DEF BillInv, LinkIsKept, Typed
  <2>2. ASSUME NEW r \in QuoteIds, r \notin twice', NEW u \in InvoiceIds, u \in InvoicesOf(r)',
               NEW w \in InvoiceIds, w \in InvoicesOf(r)'
        PROVE  u = w
    BY <1>2, <1>6, <1>10, <2>2 DEF BillInv, OneInvoice
  <2> QED
    BY <2>1, <2>2 DEF LinkIsKept, OneInvoice, InvoicesOf
<1> QED
  BY <1>7, <1>8, <1>9, <1>11, <1>12 DEF BillInv

LEMMA NextBill == Typed /\ BillInv /\ [Next]_vars => BillInv'
<1> SUFFICES ASSUME Typed, BillInv, [Next]_vars PROVE BillInv'
  OBVIOUS
<1>0. req \in [Handlers -> Request] /\ status \in [QuoteIds -> QuoteStatus \cup Gone]
      /\ converted \in [QuoteIds -> InvoiceIds \cup {Nil}]
  BY DEF Typed
<1>1. ASSUME NEW q \in QuoteIds, Create(q) PROVE BillInv'
  BY <1>0, <1>1, FrameBill DEF Create
<1>2. ASSUME NEW h \in Handlers, NEW q \in QuoteIds, NEW r, r.op # "convert", Decide(h, q, r)
      PROVE  BillInv'
  BY <1>0, <1>2, FrameBill DEF Decide, rows
<1>3. ASSUME NEW h \in Handlers, NEW q \in QuoteIds,
             \/ DecideUpdate(h, q) \/ DecideSend(h, q) \/ DecideTransition(h, q)
             \/ DecideRemove(h, q)
      PROVE  BillInv'
  <2>1. PICK r : r.op # "convert" /\ Decide(h, q, r)
    BY <1>3 DEF DecideUpdate, DecideSend, DecideTransition, DecideRemove
  <2> QED
    BY <1>2, <2>1
<1>4. ASSUME NEW h \in Handlers, ReplaceDraft(h) \/ WriteFails(h) \/ EmitConverted(h) PROVE BillInv'
  BY <1>0, <1>4, FrameBill DEF ReplaceDraft, WriteFails, RolledBack, EmitConverted, rows, Done, Idle
<1>5. ASSUME NEW h \in Handlers, SendWithNumber(h) \/ SetStatus(h) PROVE BillInv'
  <2>1. PICK q \in QuoteIds : req[h].id = q
    BY <1>0, <1>5, RequestShape DEF SendWithNumber, SetStatus, WriteOps
  <2>2. \A r \in QuoteIds : status[r] = "DELETED" => status'[r] = "DELETED"
    BY <1>0, <1>5, <2>1 DEF SendWithNumber, SetStatus, Found
  <2> QED
    BY <1>0, <1>5, <2>2, FrameBill DEF SendWithNumber, SetStatus, Done, Idle
<1>6. ASSUME NEW h \in Handlers, DeleteQuote(h) PROVE BillInv'
  <2>1. PICK q \in QuoteIds : req[h].id = q
    BY <1>0, <1>6, RequestShape DEF DeleteQuote, WriteOps
  <2> QED
    BY <1>0, <1>6, <2>1, FrameBill DEF DeleteQuote, Done, Idle
<1>7. CASE Crash
  BY <1>7, FrameBill DEF Crash, rows, Idle
<1>8. CASE UNCHANGED vars
  BY <1>8, FrameBill DEF vars, rows
<1> QED
  BY <1>1, <1>3, <1>4, <1>5, <1>6, <1>7, <1>8, ConvertBegins, ConvertCommits DEF Next, Commit

(* "Double conversion blocked", for any number of requests: unless two
   conversions of one quote were in flight together, at most one invoice is
   made from it - through every accept, reject, edit, delete, failed
   transaction and restart in between. *)
THEOREM BilledAtMostOnce == Spec => []BilledOnce
<1>1. BillInv => BilledOnce
  <2> SUFFICES ASSUME BillInv, NEW q \in QuoteIds \ twice
               PROVE  Cardinality(InvoicesOf(q)) <= 1
    BY DEF BilledOnce
  <2>1. InvoicesOf(q) = {} \/ \E v : InvoicesOf(q) = {v}
    BY DEF BillInv, OneInvoice
  <2>2. CASE InvoicesOf(q) = {}
    BY <2>2, FS_EmptySet
  <2>3. ASSUME NEW v, InvoicesOf(q) = {v} PROVE Cardinality(InvoicesOf(q)) <= 1
    <3>1. Cardinality({v}) = 1
      BY FS_Singleton, Zenon
    <3> QED
      BY <2>3, <3>1
  <2> QED
    BY <2>1, <2>2, <2>3
<1> QED
  BY <1>1, InitTyped, NextTyped, InitBill, NextBill, PTL DEF Spec

-----------------------------------------------------------------------------
(***************************************************************************)
(* A quote without contention: it is in a sound state, at most one handler *)
(* is about to write it, and what that handler decided is still true.      *)
(***************************************************************************)
QuoteSound(q) ==
  /\ \A v \in InvoicesOf(q) :
       status[q] = "CONVERTED" /\ converted[q] = v /\ invoices[v].total = total[q]
  /\ status[q] \in {"SENT", "ACCEPTED", "CONVERTED"} => number[q] > 0

StillTrue(r) ==
  /\ r.op \in {"update", "send"} => status[r.id] = "DRAFT"
  /\ r.op = "set" /\ r.to = "ACCEPTED" => status[r.id] = "SENT"
  /\ r.op = "set" /\ r.to = "REJECTED" => status[r.id] \in {"SENT", "DRAFT"}
  /\ r.op = "convert" => status[r.id] \in {"ACCEPTED", "SENT"} /\ r.total = total[r.id]
  /\ r.op = "delete" => status[r.id] \in {"DRAFT", "SENT", "ACCEPTED", "REJECTED"}

Uncontended(h) == req[h].op \in WriteOps /\ req[h].id \notin contended

SoleWriter ==
  \A g, h \in Handlers :
    Uncontended(g) /\ Uncontended(h) /\ req[g].id = req[h].id => g = h

SerialInv ==
  /\ \A q \in QuoteIds \ contended : QuoteSound(q)
  /\ \A h \in Handlers : Uncontended(h) => StillTrue(req[h])
  /\ SoleWriter

(* The step touches neither the row of quote j nor its invoices. *)
SameRow(j) ==
  /\ status'[j] = status[j] /\ number'[j] = number[j] /\ total'[j] = total[j]
  /\ converted'[j] = converted[j]
  /\ \A v \in InvoiceIds :
       invoices[v].quote = j \/ invoices'[v].quote = j => invoices'[v] = invoices[v]

LEMMA InitSerial == Init => SerialInv
  BY NilAssumption DEF Init, SerialInv, QuoteSound, SoleWriter, Uncontended, InvoicesOf, NoRow,
     Idle, WriteOps

LEMMA SoundFrame ==
  ASSUME NEW j \in QuoteIds, SameRow(j), QuoteSound(j)
  PROVE  QuoteSound(j)'
  BY DEF SameRow, QuoteSound, InvoicesOf

(* Rows are left alone and no write begins. *)
LEMMA SerialFrame ==
  ASSUME Typed, SerialInv, UNCHANGED <<rows, contended>>,
         \A g \in Handlers : req'[g] = req[g] \/ req'[g].op \notin WriteOps
  PROVE  SerialInv'
<1>1. \A q \in QuoteIds \ contended' : QuoteSound(q)'
  BY DEF SerialInv, QuoteSound, InvoicesOf, rows
<1>2. \A g \in Handlers : Uncontended(g)' => Uncontended(g) /\ req'[g] = req[g]
  BY DEF Uncontended
<1>3. \A g \in Handlers : Uncontended(g)' => StillTrue(req[g])'
  <2> SUFFICES ASSUME NEW g \in Handlers, Uncontended(g)' PROVE StillTrue(req[g])'
    OBVIOUS
  <2>1. StillTrue(req[g]) /\ req'[g] = req[g]
    BY <1>2 DEF SerialInv
  <2> QED
    BY <2>1 DEF StillTrue, rows
<1>4. SoleWriter'
  BY <1>2 DEF SerialInv, SoleWriter
<1> QED
  BY <1>1, <1>3, <1>4 DEF SerialInv

(* A decision that is true when taken: it is the only one on its row, or the
   row is contended from now on. *)
LEMMA SerialDecide ==
  ASSUME Typed, SerialInv, NEW h \in Handlers, NEW q \in QuoteIds, NEW r,
         r.id = q, StillTrue(r), Decide(h, q, r)
  PROVE  SerialInv'
<1>1. /\ UNCHANGED <<status, number, total, converted, invoices>>
      /\ contended \subseteq contended'
      /\ req'[h] = r /\ \A g \in Handlers \ {h} : req'[g] = req[g]
      /\ Writers(q) # {} => q \in contended'
  BY DEF Decide, rows, Typed
<1>2. \A j \in QuoteIds \ contended' : QuoteSound(j)'
  BY <1>1 DEF SerialInv, QuoteSound, InvoicesOf
<1>3. \A g \in Handlers \ {h} : Uncontended(g)' => Uncontended(g) /\ req'[g] = req[g]
  BY <1>1 DEF Uncontended
<1>4. \A g \in Handlers : Uncontended(g)' => StillTrue(req[g])'
  <2>1. \A g \in Handlers \ {h} : Uncontended(g) => StillTrue(req[g])
    BY DEF SerialInv
  <2> QED
    BY <1>1, <1>3, <2>1 DEF StillTrue
<1>5. SoleWriter'
  <2>1. \A g \in Handlers \ {h} : ~(Uncontended(g)' /\ Uncontended(h)' /\ req'[g].id = req'[h].id)
    <3> SUFFICES ASSUME NEW g \in Handlers \ {h}, Uncontended(g)', Uncontended(h)',
                        req'[g].id = req'[h].id
                 PROVE  FALSE
      OBVIOUS
    <3>1. g \in Writers(q)
      BY <1>1, <1>3 DEF Writers, Uncontended
    <3> QED
      BY <1>1, <3>1 DEF Uncontended
  <2> QED
    BY <1>3, <2>1 DEF SerialInv, SoleWriter
<1> QED
  BY <1>2, <1>4, <1>5 DEF SerialInv

(* A write ends a decision; on an uncontended row no other one is left. *)
LEMMA SerialWrite ==
  ASSUME Typed, SerialInv, NEW h \in Handlers, NEW q \in QuoteIds,
         req[h].op \in WriteOps, req[h].id = q, contended' = contended,
         req'[h].op \notin WriteOps, \A g \in Handlers \ {h} : req'[g] = req[g],
         \A j \in QuoteIds \ {q} : SameRow(j),
         q \notin contended => QuoteSound(q)'
  PROVE  SerialInv'
<1>1. \A j \in QuoteIds \ contended' : QuoteSound(j)'
  BY SoundFrame DEF SerialInv
<1>2. \A g \in Handlers : Uncontended(g)' =>
        g # h /\ Uncontended(g) /\ req'[g] = req[g] /\ req[g].id \in QuoteIds \ {q}
  <2> SUFFICES ASSUME NEW g \in Handlers, Uncontended(g)'
               PROVE  g # h /\ Uncontended(g) /\ req'[g] = req[g] /\ req[g].id \in QuoteIds \ {q}
    OBVIOUS
  <2>1. g # h /\ Uncontended(g) /\ req'[g] = req[g]
    BY DEF Uncontended
  <2>2. req[g].id \in QuoteIds
    BY <2>1, RequestShape DEF Uncontended, Typed
  <2>3. req[g].id # q
    BY <2>1 DEF SerialInv, SoleWriter, Uncontended
  <2> QED
    BY <2>1, <2>2, <2>3
<1>3. \A g \in Handlers : Uncontended(g)' => StillTrue(req[g])'
  <2> SUFFICES ASSUME NEW g \in Handlers, Uncontended(g)' PROVE StillTrue(req[g])'
    OBVIOUS
  <2>1. StillTrue(req[g]) /\ req'[g] = req[g] /\ SameRow(req[g].id)
    BY <1>2 DEF SerialInv
  <2> QED
    BY <2>1 DEF StillTrue, SameRow
<1>4. SoleWriter'
  BY <1>2 DEF SerialInv, SoleWriter
<1> QED
  BY <1>1, <1>3, <1>4 DEF SerialInv

(* A write touches the row it was decided on, and nothing of another row: the
   invoice of a conversion is a new one. *)
LEMMA CommitFrame ==
  ASSUME Typed, BillInv, NEW h \in Handlers, Commit(h)
  PROVE  /\ req[h].op \in WriteOps /\ req[h].id \in QuoteIds
         /\ status[req[h].id] # "DELETED"
         /\ UNCHANGED <<contended, twice>>
         /\ req'[h].op \notin WriteOps /\ \A g \in Handlers \ {h} : req'[g] = req[g]
         /\ \A j \in QuoteIds \ {req[h].id} : SameRow(j)
<1>1. req[h].op \in WriteOps /\ status[req[h].id] # "DELETED" /\ UNCHANGED <<contended, twice>>
  BY DEF Commit, ReplaceDraft, SendWithNumber, SetStatus, ConvertToInvoice, DeleteQuote,
     WriteOps, Found
<1>2. PICK q \in QuoteIds : req[h].id = q
  BY <1>1, RequestShape DEF Typed
<1>3. req'[h].op \notin WriteOps /\ \A g \in Handlers \ {h} : req'[g] = req[g]
  BY DEF Commit, ReplaceDraft, SendWithNumber, SetStatus, ConvertToInvoice, DeleteQuote,
     Done, AnnounceConverted, Idle, WriteOps, Typed
<1>4. CASE ConvertToInvoice(h)
  <2>1. PICK v \in InvoiceIds : req[h].invoice = v /\ Converting(h)
    BY <1>4, RequestShape DEF ConvertToInvoice, Typed, Converting
  <2>2. invoices[v] = NoRow
    BY <2>1 DEF BillInv, HeldIsNew
  <2>3. /\ invoices' = [invoices EXCEPT ![v] = [quote |-> q, total |-> req[h].total]]
        /\ status' = [status EXCEPT ![q] = "CONVERTED"]
        /\ converted' = [converted EXCEPT ![q] = v]
        /\ UNCHANGED <<number, total>>
    BY <1>2, <1>4, <2>1 DEF ConvertToInvoice
  <2>4. \A j \in QuoteIds \ {q} : SameRow(j)
    BY <2>2, <2>3, NilAssumption DEF SameRow, Typed, NoRow
  <2> QED
    BY <1>1, <1>2, <1>3, <2>4
<1>5. CASE ReplaceDraft(h) \/ SendWithNumber(h) \/ SetStatus(h) \/ DeleteQuote(h)
  <2>1. \A j \in QuoteIds \ {q} : SameRow(j)
    BY <1>2, <1>5 DEF ReplaceDraft, SendWithNumber, SetStatus, DeleteQuote, SameRow, Typed
  <2> QED
    BY <1>1, <1>2, <1>3, <2>1
<1> QED
  BY <1>4, <1>5 DEF Commit

(* The writer of an uncontended row decided on what is still there. *)
LEMMA WriterKnows ==
  ASSUME SerialInv, NEW h \in Handlers, NEW q \in QuoteIds, q \notin contended,
         req[h].op \in WriteOps, req[h].id = q
  PROVE  StillTrue(req[h]) /\ QuoteSound(q)
  BY DEF SerialInv, Uncontended

LEMMA CommitSound ==
  ASSUME Typed, BillInv, SerialInv, NEW h \in Handlers, Commit(h),
         NEW q \in QuoteIds, q \notin contended, req[h].id = q
  PROVE  QuoteSound(q)'
<1>1. StillTrue(req[h]) /\ QuoteSound(q)
  BY CommitFrame, WriterKnows
<1>2. number[q] \in Nat /\ counter \in Nat
  BY DEF Typed
<1>3. CASE ReplaceDraft(h)
  BY <1>1, <1>3 DEF ReplaceDraft, StillTrue, QuoteSound, InvoicesOf
<1>4. CASE SendWithNumber(h)
  BY <1>1, <1>2, <1>4 DEF SendWithNumber, NextSeq, StillTrue, QuoteSound, InvoicesOf, Typed
<1>5. CASE SetStatus(h)
  <2>1. req[h].to \in {"ACCEPTED", "REJECTED"}
    BY <1>5, RequestShape DEF SetStatus, Typed
  <2> QED
    BY <1>1, <1>5, <2>1 DEF SetStatus, StillTrue, QuoteSound, InvoicesOf, Typed
<1>6. CASE ConvertToInvoice(h)
  <2>1. PICK v \in InvoiceIds : req[h].invoice = v
    BY <1>6, RequestShape DEF ConvertToInvoice, Typed
  <2>2. /\ invoices' = [invoices EXCEPT ![v] = [quote |-> q, total |-> total[q]]]
        /\ status' = [status EXCEPT ![q] = "CONVERTED"]
        /\ converted' = [converted EXCEPT ![q] = v]
        /\ UNCHANGED <<number, total>>
        /\ status[q] \in {"ACCEPTED", "SENT"}
    BY <1>1, <1>6, <2>1 DEF ConvertToInvoice, StillTrue
  <2>3. InvoicesOf(q) = {}
    BY <1>1, <2>2 DEF QuoteSound
  <2> QED
    BY <1>1, <2>2, <2>3 DEF QuoteSound, InvoicesOf, Typed
<1>7. CASE DeleteQuote(h)
  BY <1>1, <1>7 DEF DeleteQuote, StillTrue, QuoteSound, InvoicesOf, Typed
<1> QED
  BY <1>3, <1>4, <1>5, <1>6, <1>7 DEF Commit

LEMMA NextSerial == Typed /\ BillInv /\ SerialInv /\ [Next]_vars => SerialInv'
<1> SUFFICES ASSUME Typed, BillInv, SerialInv, [Next]_vars PROVE SerialInv'
  OBVIOUS
<1>1. ASSUME NEW q \in QuoteIds, Create(q) PROVE SerialInv'
  <2>1. \A j \in QuoteIds \ {q} : SameRow(j)
    BY <1>1 DEF Create, SameRow, Typed
  <2>2. q \notin contended => QuoteSound(q)'
    BY <1>1 DEF Create, SerialInv, QuoteSound, InvoicesOf, Typed
  <2>3. \A j \in QuoteIds \ contended' : QuoteSound(j)'
    BY <1>1, <2>1, <2>2, SoundFrame DEF Create, SerialInv
  <2>4. \A g \in Handlers : Uncontended(g) => StillTrue(req[g])'
    <3> SUFFICES ASSUME NEW g \in Handlers, Uncontended(g) PROVE StillTrue(req[g])'
      OBVIOUS
    <3>1. StillTrue(req[g]) /\ req[g].id \in QuoteIds /\ status[req[g].id] # "ABSENT"
      BY RequestShape DEF SerialInv, Uncontended, Typed
    <3>2. SameRow(req[g].id)
      BY <1>1, <2>1, <3>1 DEF Create
    <3> QED
      BY <1>1, <3>1, <3>2 DEF StillTrue, SameRow, Create
  <2> QED
    BY <1>1, <2>3, <2>4 DEF Create, SerialInv, Uncontended, SoleWriter
<1>2. ASSUME NEW h \in Handlers, NEW q \in QuoteIds,
             \/ DecideUpdate(h, q) \/ DecideSend(h, q) \/ DecideTransition(h, q)
             \/ DecideConvert(h, q) \/ DecideRemove(h, q)
      PROVE  SerialInv'
  <2>1. PICK r : r.id = q /\ StillTrue(r) /\ Decide(h, q, r)
    BY <1>2 DEF DecideUpdate, DecideSend, DecideTransition, DecideConvert, DecideRemove,
       Editable, Convertible, Unconverted, Removable, AcceptableFrom, RejectableFrom,
       StillTrue, Typed, QuoteStatus, Gone
  <2> QED
    BY <2>1, SerialDecide
<1>3. ASSUME NEW h \in Handlers, Commit(h) PROVE SerialInv'
  <2>1. PICK q \in QuoteIds : req[h].id = q
    BY <1>3, CommitFrame
  <2>2. q \notin contended => QuoteSound(q)'
    BY <1>3, <2>1, CommitSound
  <2> QED
    BY <1>3, <2>1, <2>2, CommitFrame, SerialWrite
<1>4. ASSUME NEW h \in Handlers, WriteFails(h) \/ EmitConverted(h) PROVE SerialInv'
  BY <1>4, SerialFrame DEF WriteFails, RolledBack, EmitConverted, Done, Idle, rows, WriteOps, Typed
<1>5. CASE Crash
  BY <1>5, SerialFrame DEF Crash, Idle, WriteOps
<1>6. CASE UNCHANGED vars
  BY <1>6, SerialFrame DEF vars
<1> QED
  BY <1>1, <1>2, <1>3, <1>4, <1>5, <1>6 DEF Next

IInv == Typed /\ BillInv /\ SerialInv

LEMMA Invariance == Spec => []IInv
<1>1. Init => IInv
  BY InitTyped, InitBill, InitSerial DEF IInv
<1>2. IInv /\ [Next]_vars => IInv'
  BY NextTyped, NextBill, NextSerial DEF IInv
<1> QED
  BY <1>1, <1>2, PTL DEF Spec

(* Type correctness.  Its last conjunct is no typing: a quote that was sent
   has a number, which needs the whole of the invariant above. *)
THEOREM TypeCorrect == Spec => []TypeOK
<1>1. IInv => TypeOK
  <2> SUFFICES ASSUME IInv PROVE TypeOK
    OBVIOUS
  <2>1. number \in [QuoteIds -> 0..counter]
    BY DEF IInv, Typed
  <2>2. \A q \in QuoteIds \ contended :
          status[q] \in {"SENT", "ACCEPTED", "CONVERTED"} => number[q] > 0
    BY DEF IInv, SerialInv, QuoteSound
  <2> QED
    BY <2>1, <2>2 DEF IInv, Typed, TypeOK, Request
<1> QED
  BY <1>1, Invariance, PTL

(* Whatever raced, failed or died, convertedInvoiceId names an invoice made
   from that very quote; and a quote on which no two requests overlapped is
   CONVERTED, linked and billed its own total as soon as it has an invoice. *)
THEOREM LinksAreSound == Spec => []LinkIsSound
<1>1. IInv => LinkIsSound
  BY DEF IInv, BillInv, Linked, SerialInv, QuoteSound, LinkIsSound
<1> QED
  BY <1>1, Invariance, PTL

-----------------------------------------------------------------------------
(***************************************************************************)
(* The handlers implement the atomic life cycle, up to the first overlap   *)
(* of two write requests on the quote.                                     *)
(***************************************************************************)
Billed(q) == {invoices[v].total : v \in InvoicesOf(q)}

LEMMA SameBilled ==
  ASSUME NEW j \in QuoteIds, SameRow(j)
  PROVE  Billed(j)' = Billed(j)
  BY DEF SameRow, Billed, InvoicesOf

LEMMA GivingUp ==
  ASSUME NEW q \in QuoteIds, contended' = contended \cup {q},
         \A j \in QuoteIds \ {q} : SameRow(j)
  PROVE  Contract!Next
<1>1. \A j \in QuoteIds \ {q} : Billed(j)' = Billed(j)
  BY SameBilled
<1>2. Contract!GivenUp(q)
  BY <1>1 DEF Contract!GivenUp, SameRow, Billed
<1> QED
  BY <1>2 DEF Contract!Next

LEMMA DecideImplements ==
  ASSUME NEW h \in Handlers, NEW q \in QuoteIds, NEW r, Decide(h, q, r)
  PROVE  [Contract!Next]_Contract!vars
<1>1. UNCHANGED <<status, number, total, converted, invoices>>
  BY DEF Decide, rows
<1>2. CASE Writers(q) = {}
  BY <1>1, <1>2 DEF Decide, Contract!vars, InvoicesOf
<1>3. CASE Writers(q) # {}
  BY <1>1, <1>3, GivingUp DEF Decide, SameRow
<1> QED
  BY <1>2, <1>3

LEMMA CommitImplements ==
  ASSUME IInv, NEW h \in Handlers, Commit(h),
         NEW q \in QuoteIds, q \notin contended, req[h].id = q
  PROVE  Contract!Next
<1>1. StillTrue(req[h]) /\ QuoteSound(q)
  BY CommitFrame, WriterKnows DEF IInv
<1>2. Typed /\ BillInv
  BY DEF IInv
<1>3. CASE ReplaceDraft(h)
  <2>1. req[h].total \in Totals
    BY <1>2, <1>3, RequestShape DEF ReplaceDraft, Typed
  <2>2. Contract!Edit(q)
    BY <1>1, <1>3, <2>1 DEF ReplaceDraft, StillTrue, InvoicesOf, Contract!Edit
  <2> QED
    BY <2>2 DEF Contract!Next
<1>4. CASE SendWithNumber(h)
  <2>1. \A r \in QuoteIds : number[r] \in Nat /\ number[r] < counter + 1
    BY <1>2 DEF Typed
  <2>2. number' = [number EXCEPT ![q] = counter + 1] /\ number'[q] = counter + 1
    BY <1>2, <1>4 DEF SendWithNumber, NextSeq, Typed
  <2>3. Contract!Send(q)
    <3>1. status[q] = "DRAFT" /\ status' = [status EXCEPT ![q] = "SENT"]
      BY <1>1, <1>4 DEF SendWithNumber, StillTrue
    <3>2. UNCHANGED <<total, contended, invoices>>
      BY <1>4 DEF SendWithNumber
    <3>3. [j \in QuoteIds |-> Billed(j)]' = [j \in QuoteIds |-> Billed(j)]
      BY <3>2 DEF Billed, InvoicesOf
    <3>4. number' = [number EXCEPT ![q] = number'[q]] /\ \A r \in QuoteIds : number[r] < number'[q]
      BY <2>1, <2>2
    <3> QED
      BY <3>1, <3>2, <3>3, <3>4 DEF Billed, Contract!Send, Contract!Move
  <2> QED
    BY <2>3 DEF Contract!Next
<1>5. CASE SetStatus(h)
  <2>1. req[h].to \in {"ACCEPTED", "REJECTED"}
    BY <1>2, <1>5, RequestShape DEF SetStatus, Typed
  <2>2. Contract!Accept(q) \/ Contract!Reject(q)
    BY <1>1, <1>5, <2>1
    DEF SetStatus, StillTrue, InvoicesOf, Contract!Accept, Contract!Reject, Contract!Move
  <2> QED
    BY <2>2 DEF Contract!Next
<1>6. CASE ConvertToInvoice(h)
  <2>1. PICK v \in InvoiceIds : req[h].invoice = v /\ Converting(h)
    BY <1>2, <1>6, RequestShape DEF ConvertToInvoice, Typed, Converting
  <2>2. /\ invoices' = [invoices EXCEPT ![v] = [quote |-> q, total |-> total[q]]]
        /\ status' = [status EXCEPT ![q] = "CONVERTED"]
        /\ UNCHANGED <<number, total, contended>>
        /\ status[q] \in {"ACCEPTED", "SENT"}
    BY <1>1, <1>6, <2>1 DEF ConvertToInvoice, StillTrue
  <2>3. invoices[v] = NoRow /\ InvoicesOf(q) = {}
    BY <1>1, <1>2, <2>1, <2>2 DEF BillInv, HeldIsNew, QuoteSound
  <2>4. Billed(q) = {} /\ Billed(q)' = {total[q]}
    <3>1. InvoicesOf(q)' = {v}
      BY <1>2, <2>2, <2>3, NilAssumption DEF InvoicesOf, Typed
    <3>2. invoices'[v].total = total[q]
      BY <1>2, <2>2 DEF Typed
    <3> QED
      BY <2>3, <3>1, <3>2 DEF Billed
  <2>5. \A j \in QuoteIds \ {q} : Billed(j)' = Billed(j)
    BY <1>2, CommitFrame, SameBilled
  <2>6. [j \in QuoteIds |-> Billed(j)]' = [[j \in QuoteIds |-> Billed(j)] EXCEPT ![q] = {total[q]}]
    BY <2>4, <2>5
  <2>7. Contract!Convert(q)
    BY <2>2, <2>4, <2>6 DEF Contract!Convert, Contract!Move, Billed
  <2> QED
    BY <2>7 DEF Contract!Next
<1>7. CASE DeleteQuote(h)
  <2>1. Contract!Delete(q)
    BY <1>1, <1>7 DEF DeleteQuote, StillTrue, InvoicesOf, Contract!Delete, Contract!Move
  <2> QED
    BY <2>1 DEF Contract!Next
<1> QED
  BY <1>3, <1>4, <1>5, <1>6, <1>7 DEF Commit

LEMMA NextImplements == IInv /\ [Next]_vars => [Contract!Next]_Contract!vars
<1> SUFFICES ASSUME IInv, [Next]_vars PROVE [Contract!Next]_Contract!vars
  OBVIOUS
<1>1. ASSUME NEW q \in QuoteIds, Create(q) PROVE Contract!Next
  <2>1. Contract!Create(q)
    BY <1>1 DEF Create, InvoicesOf, Contract!Create, Contract!Move
  <2> QED
    BY <2>1 DEF Contract!Next
<1>2. ASSUME NEW h \in Handlers, NEW q \in QuoteIds,
             \/ DecideUpdate(h, q) \/ DecideSend(h, q) \/ DecideTransition(h, q)
             \/ DecideConvert(h, q) \/ DecideRemove(h, q)
      PROVE  [Contract!Next]_Contract!vars
  <2>1. PICK r : Decide(h, q, r)
    BY <1>2 DEF DecideUpdate, DecideSend, DecideTransition, DecideConvert, DecideRemove
  <2> QED
    BY <2>1, DecideImplements
<1>3. ASSUME NEW h \in Handlers, Commit(h) PROVE Contract!Next
  <2>1. PICK q \in QuoteIds : req[h].id = q
    BY <1>3, CommitFrame DEF IInv
  <2>2. CASE q \in contended
    BY <1>3, <2>1, <2>2, CommitFrame, GivingUp DEF IInv
  <2>3. CASE q \notin contended
    BY <1>3, <2>1, <2>3, CommitImplements
  <2> QED
    BY <2>2, <2>3
<1>4. ASSUME \/ \E h \in Handlers : WriteFails(h) \/ EmitConverted(h)
             \/ Crash \/ UNCHANGED vars
      PROVE  UNCHANGED Contract!vars
  BY <1>4 DEF WriteFails, RolledBack, EmitConverted, Crash, vars, rows, InvoicesOf, Contract!vars
<1> QED
  BY <1>1, <1>2, <1>3, <1>4 DEF Next

(* Whatever the interleaving, each quote goes through the life cycle that
   QuoteContract states with atomic operations, up to the moment at which two
   write requests overlap on it: in particular a convert bills it once, for
   its own total, and marks it in the same step. *)
THEOREM ImplementsTheContract == Spec => ImplementsContract
<1>1. Init => Contract!Init
  <2> SUFFICES ASSUME Init PROVE Contract!Init
    OBVIOUS
  <2>1. \A q \in QuoteIds : Billed(q) = {}
    BY NilAssumption DEF Init, Billed, InvoicesOf, NoRow
  <2> QED
    BY <2>1 DEF Init, Contract!Init, Billed
<1> QED
  BY <1>1, NextImplements, Invariance, PTL DEF Spec, ImplementsContract, Contract!Spec
=============================================================================
