--------------------------- MODULE InvoiceContract ---------------------------
(***************************************************************************)
(* What one invoice promises its readers, with every operation atomic: the *)
(* life cycle of README.md ("DRAFT -> SENT -> PARTIALLY_PAID -> PAID /     *)
(* CANCELLED; immutability (only DRAFT is editable)", "overpayment         *)
(* guard").                                                                *)
(*                                                                         *)
(* The contract is given up for an invoice on which two write requests     *)
(* overlapped (contended): the code holds no lock between the read that    *)
(* checks the status and the write that relies on it.  Module Invoices is  *)
(* shown to implement this contract under that exemption.                  *)
(***************************************************************************)
EXTENDS Integers

CONSTANTS InvoiceIds,
          Totals         \* the invoice totals that line items can add up to

VARIABLES status, number, total, paid,
          contended      \* invoices the contract no longer covers

vars == <<status, number, total, paid, contended>>

NoNumber == <<0, 0>>     \* Invoice.number is null until the invoice is issued

(* The status that a paid amount stands for once the invoice is issued. *)
Settles(p, t, s) ==
  \/ s = "PAID"           /\ p >= t
  \/ s = "PARTIALLY_PAID" /\ p > 0 /\ p < t

Init ==
  /\ status    = [i \in InvoiceIds |-> "ABSENT"]
  /\ number    = [i \in InvoiceIds |-> NoNumber]
  /\ total     = [i \in InvoiceIds |-> 0]
  /\ paid      = [i \in InvoiceIds |-> 0]
  /\ contended = {}

Create(i) ==
  /\ status[i] = "ABSENT"
  /\ status' = [status EXCEPT ![i] = "DRAFT"]
  /\ \E t \in Totals : total' = [total EXCEPT ![i] = t]
  /\ UNCHANGED <<number, paid, contended>>

Edit(i) ==
  /\ status[i] = "DRAFT"
  /\ \E t \in Totals : total' = [total EXCEPT ![i] = t]
  /\ UNCHANGED <<status, number, paid, contended>>

Issue(i) ==
  /\ status[i] = "DRAFT" /\ number[i] = NoNumber
  /\ status' = [status EXCEPT ![i] = "SENT"]
  /\ number' = [number EXCEPT ![i] = number'[i]]     \* a number no invoice has
  /\ number'[i] # NoNumber /\ \A j \in InvoiceIds : number[j] # number'[i]
  /\ UNCHANGED <<total, paid, contended>>

Pay(i) ==
  /\ status[i] \in {"SENT", "PARTIALLY_PAID"}
  /\ \E p \in (paid[i] + 1)..total[i], s \in {"PARTIALLY_PAID", "PAID"} :
       /\ Settles(p, total[i], s)
       /\ paid'   = [paid EXCEPT ![i] = p]
       /\ status' = [status EXCEPT ![i] = s]
  /\ UNCHANGED <<number, total, contended>>

Cancel(i) ==
  /\ status[i] \in {"DRAFT", "SENT"} /\ paid[i] = 0
  /\ status' = [status EXCEPT ![i] = "CANCELLED"]
  /\ UNCHANGED <<number, total, paid, contended>>

(* Row i is or becomes contended: it may hold anything, the others do not
   notice. *)
GivenUp(i) ==
  /\ contended' = contended \cup {i}
  /\ \A j \in InvoiceIds \ {i} :
       /\ status'[j] = status[j] /\ number'[j] = number[j]
       /\ total'[j] = total[j]   /\ paid'[j] = paid[j]

Next == \E i \in InvoiceIds :
          Create(i) \/ Edit(i) \/ Issue(i) \/ Pay(i) \/ Cancel(i) \/ GivenUp(i)

Spec == Init /\ [][Next]_vars
=============================================================================
