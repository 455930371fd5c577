---------------------------- MODULE QuoteContract ----------------------------
(***************************************************************************)
(* What one quote promises, with every operation atomic: README.md's       *)
(* "Quote lifecycle", a number given by send, and "convert -> DRAFT        *)
(* Invoice (single transaction, idempotent - double conversion blocked)".  *)
(*                                                                         *)
(* As in InvoiceContract, a quote on which two requests overlapped is      *)
(* given up: no lock is held between its read and its write.               *)
(***************************************************************************)
EXTENDS Integers

CONSTANTS QuoteIds, Totals

VARIABLES status, number, total,
          billed,        \* totals of the invoices made from a quote, by invoice
          contended      \* quotes the contract no longer covers

vars == <<status, number, total, billed, contended>>

Init ==
  /\ status    = [q \in QuoteIds |-> "ABSENT"]
  /\ number    = [q \in QuoteIds |-> 0]
  /\ total     = [q \in QuoteIds |-> 0]
  /\ billed    = [q \in QuoteIds |-> {}]
  /\ contended = {}

Move(q, from, to) ==
  /\ status[q] \in from
  /\ status' = [status EXCEPT ![q] = to]

Create(q) ==
  /\ Move(q, {"ABSENT"}, "DRAFT")
  /\ \E t \in Totals : total' = [total EXCEPT ![q] = t]
  /\ UNCHANGED <<number, billed, contended>>

Edit(q) ==
  /\ status[q] = "DRAFT"
  /\ \E t \in Totals : total' = [total EXCEPT ![q] = t]
  /\ UNCHANGED <<status, number, billed, contended>>

Send(q) ==                     \* with a number no quote had before
  /\ Move(q, {"DRAFT"}, "SENT")
  /\ number' = [number EXCEPT ![q] = number'[q]]
  /\ \A r \in QuoteIds : number[r] < number'[q]
  /\ UNCHANGED <<total, billed, contended>>

Accept(q) == Move(q, {"SENT"}, "ACCEPTED")
             /\ UNCHANGED <<number, total, billed, contended>>

Reject(q) == Move(q, {"DRAFT", "SENT"}, "REJECTED")
             /\ UNCHANGED <<number, total, billed, contended>>

Convert(q) ==                  \* one invoice, for the amount of the quote
  /\ billed[q] = {}
  /\ Move(q, {"SENT", "ACCEPTED"}, "CONVERTED")
  /\ billed' = [billed EXCEPT ![q] = {total[q]}]
  /\ UNCHANGED <<number, total, contended>>

Delete(q) == Move(q, {"DRAFT", "SENT", "ACCEPTED", "REJECTED"}, "DELETED")
             /\ number' = [number EXCEPT ![q] = 0]
             /\ UNCHANGED <<total, billed, contended>>

GivenUp(q) ==
  /\ contended' = contended \cup {q}
  /\ \A r \in QuoteIds \ {q} :
       /\ status'[r] = status[r] /\ number'[r] = number[r]
       /\ total'[r] = total[r]   /\ billed'[r] = billed[r]

Next == \E q \in QuoteIds :
          \/ Create(q) \/ Edit(q) \/ Send(q) \/ Accept(q) \/ Reject(q)
          \/ Convert(q) \/ Delete(q) \/ GivenUp(q)

Spec == Init /\ [][Next]_vars
=============================================================================
