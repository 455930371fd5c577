----------------------------- MODULE MCSessions -----------------------------
(* Values for model checking Sessions: two requests at a time; a login, its
   rotation, and one more login or rotation. *)
EXTENDS Sessions

MCTokens == 1..3
=============================================================================
