----------------------------- MODULE MCClient ------------------------------
(* All roles; two saves at a time, one edit of the role in a session *)
EXTENDS Client

MCRoles == DOMAIN RolePermissions
=============================================================================
