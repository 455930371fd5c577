------------------------------ MODULE MCQuotes ------------------------------
(* Values for model checking Quotes: two requests at a time on two quotes, and
   two invoices, enough for one quote to be billed twice. *)
EXTENDS Quotes

MCTotals     == {1, 2}
MCInvoiceIds == 1..2
=============================================================================
