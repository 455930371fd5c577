--------------------------- MODULE MCConnections ---------------------------
(* Values for model checking Connections: two requests at a time; QuickBooks
   is connected and authorised, Xero is not, iyzico cannot be; one invoice, a
   draft at first. *)
EXTENDS Connections, TLC

MCRows       == 1..2
MCInitial    == <<"quickbooks">>
MCProviders  == {"quickbooks", "xero", "iyzico"}
AnyHandler   == Permutations(Handlers)
=============================================================================
