----------------------------- MODULE MCAccounts -----------------------------
(* Values for model checking Accounts: two requests at a time; the seeded
   administrator and a user to come; ADMIN and a role that can be created, given
   two permissions, and deleted. *)
EXTENDS Accounts, TLC

MCPermissions == Used
MCGrants      == {{}, {"role.assign", "user.update"}}
AnyHandler    == Permutations(Handlers)
=============================================================================
