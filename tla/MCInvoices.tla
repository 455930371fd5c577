----------------------------- MODULE MCInvoices -----------------------------
(* Values for model checking Invoices: two requests at a time on two rows. *)
EXTENDS Invoices

MCTotals  == {0, 2}
MCAmounts == {0, 1, 2}
MCYears   == {1, 2}
=============================================================================
