------------------------------ MODULE MCLeads -------------------------------
(* Values for model checking Leads: two requests at a time, two leads of which
   one may be converted twice, and a form that may be deleted under them. *)
EXTENDS Leads, TLC

MCLeadIds == 1..2
MCDealIds == 1..2
AnyHandler == Permutations(Handlers)
=============================================================================
