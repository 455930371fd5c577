------------------------------ MODULE Accounts ------------------------------
(***************************************************************************)
(* Users, roles and permissions (modules/users, modules/roles, the guards  *)
(* in common/guards): who may do what, and the rule that the system keeps  *)
(* an active administrator.                                                *)
(*                                                                         *)
(* Each request reads its user's roles and permissions afresh before the   *)
(* handler runs (JwtStrategy.validate).  The guard of the last             *)
(* administrator is a sequence of counts; the write that follows repeats   *)
(* none of them.  A list of roles or permissions is replaced by deleting   *)
(* the rows that are there and inserting new ones, in one transaction but  *)
(* without a lock: of two that overlap, the second does not see, and so    *)
(* does not delete, what the first inserts.                                *)
(***************************************************************************)
EXTENDS Integers, FiniteSets

CONSTANTS
  Handlers,        \* requests in flight at the same time
  Users,           \* uuids of users
  Roles,           \* uuids of roles
  Admin,           \* the role named ADMIN
  Permissions,     \* ALL_PERMISSIONS
  Grants,          \* bound: lists of permissions a dto names
  Root,            \* the user the seed creates
  Nil,             \* null, and a row not created yet
  Gone,            \* a role that was deleted
  MaxContended     \* bound: users and roles whose lists are replaced twice at a time

Used == {"user.create", "user.update", "user.delete", "role.create", "role.update",
         "role.delete", "role.assign"}

ASSUME PermissionsAssumption == Used \subseteq Permissions /\ Grants \subseteq SUBSET Permissions
ASSUME SeedAssumption == Root \in Users /\ Admin \in Roles
ASSUME NilAssumption  ==
  /\ {Nil, Gone} \cap (Users \cup Roles \cup BOOLEAN) = {}
  /\ \A list \in SUBSET Permissions : list \notin {Nil, Gone}

VARIABLES
  active,          \* User.isActive by user, Nil before the user exists
  roles,           \* UserRole rows: the roles of each user
  perms,           \* RolePermission rows by role, Nil or Gone without the role
  req,             \* what each handler holds across its awaits
  contended,       \* history: users and roles with overlapping replacements
  raced            \* history: whether the active administrators changed under
                   \* a request that takes a role away or deactivates

rows == <<active, roles, perms>>
vars == <<rows, req, contended, raced>>

Idle    == [op |-> "idle"]
Request == {Idle}
  \cup [op : {"insert"}, user : Users, list : SUBSET Roles]
  \cup [op : {"checkAssign", "assign"}, user : Users, list : SUBSET Roles]
  \cup [op : {"checkDeactivate", "deactivate"}, user : Users]
  \cup [op : {"assigning"}, user : Users, list : SUBSET Roles, alone : BOOLEAN]
  \cup [op : {"grant"}, role : Roles, list : SUBSET Permissions]
  \cup [op : {"granting"}, role : Roles, list : SUBSET Permissions, alone : BOOLEAN]

Existing(r)  == perms[r] \notin {Nil, Gone}
ListsOfRoles == SUBSET {r \in Roles : Existing(r)}
IsUser(u)    == active[u] # Nil
IsAdmin(u)   == Admin \in roles[u]
ActiveAdmins == {u \in Users : active[u] = TRUE /\ IsAdmin(u)}

-----------------------------------------------------------------------------
(* Slips the properties below must catch; no action uses them. *)

AnyRole(r)         == Existing(r)                       \* ADMIN not protected
KeepUserRoles(r)   == roles                             \* no cascade

-----------------------------------------------------------------------------
(* JwtStrategy.validate and PermissionsGuard *)

PermissionsOf(u) == UNION {perms[r] : r \in roles[u]}
Has(u, p)        == active[u] = TRUE /\ p \in PermissionsOf(u)
Someone(p)       == \E u \in Users : Has(u, p)

Become(h, r) == req' = [req EXCEPT ![h] = r]
Start(h, r)  == req[h] = Idle /\ Become(h, r) /\ UNCHANGED <<rows, contended>>

(* UsersService.  Giving a new user roles takes a permission of its own. *)
StartCreate(h, u, list) ==
  /\ \E actor \in Users : /\ Has(actor, "user.create")
                          /\ list # {} => Has(actor, "role.assign")
  /\ ~IsUser(u)
  /\ Start(h, [op |-> "insert", user |-> u, list |-> list])

(* An administrator is about to lose the role: assertNotLastAdmin is next. *)
StartAssign(h, u, list) ==
  /\ Someone("role.assign")
  /\ IsUser(u)
  /\ Start(h, [op |-> IF IsAdmin(u) /\ Admin \notin list THEN "checkAssign" ELSE "assign",
               user |-> u, list |-> list])

StartDeactivate(h, u) ==              \* setStatus(false) and remove
  /\ Someone("user.update") \/ Someone("user.delete")
  /\ IsUser(u)
  /\ Start(h, [op |-> IF IsAdmin(u) THEN "checkDeactivate" ELSE "deactivate", user |-> u])

NotLastAdmin(u) == ~(Cardinality(ActiveAdmins) <= 1 /\ active[u])

AssertNotLastAdmin(h) ==
  /\ req[h].op \in {"checkAssign", "checkDeactivate"} /\ NotLastAdmin(req[h].user)
  /\ \/ req[h].op = "checkAssign"     /\ Become(h, [req[h] EXCEPT !.op = "assign"])
     \/ req[h].op = "checkDeactivate" /\ Become(h, [req[h] EXCEPT !.op = "deactivate"])
  /\ UNCHANGED <<rows, contended>>

InsertUser(h) ==                      \* e-mail unique, roles foreign keys
  LET q == req[h] IN
  /\ q.op = "insert" /\ ~IsUser(q.user) /\ q.list \in ListsOfRoles
  /\ active' = [active EXCEPT ![q.user] = TRUE]
  /\ roles'  = [roles EXCEPT ![q.user] = q.list]
  /\ Become(h, Idle)
  /\ UNCHANGED <<perms, contended>>

Activate(u) ==                        \* setStatus(true)
  /\ Someone("user.update")
  /\ IsUser(u)
  /\ active' = [active EXCEPT ![u] = TRUE]
  /\ UNCHANGED <<roles, perms, req, contended>>

Deactivate(h) ==
  /\ req[h].op = "deactivate"
  /\ active' = [active EXCEPT ![req[h].user] = FALSE]
  /\ Become(h, Idle)
  /\ UNCHANGED <<roles, perms, contended>>

-----------------------------------------------------------------------------
(* replaceRoles and replacePermissions: deleteMany takes its snapshot, then
   createMany and the commit.  One that commits in between leaves rows that
   are not deleted. *)

Replacing(x) == {h \in Handlers : \/ req[h].op = "assigning" /\ req[h].user = x
                                  \/ req[h].op = "granting"  /\ req[h].role = x}

DeleteMany(h, x, q) ==
  /\ req' = [req EXCEPT ![h] = q]
  /\ contended' = IF Replacing(x) = {} THEN contended ELSE contended \cup {x}
  /\ UNCHANGED rows

ReplacedList(h, old) == IF req[h].alone THEN req[h].list ELSE old \cup req[h].list

CreateMany(h, x) ==
  /\ req' = [g \in Handlers |-> IF g = h THEN Idle
                                ELSE IF g \in Replacing(x) THEN [req[g] EXCEPT !.alone = FALSE]
                                ELSE req[g]]
  /\ UNCHANGED <<active, contended>>

DeleteRoles(h) ==
  LET q == req[h] IN
  /\ q.op = "assign"
  /\ DeleteMany(h, q.user, [op |-> "assigning", user |-> q.user, list |-> q.list, alone |-> TRUE])

ReplaceRoles(h) ==
  LET q == req[h] IN
  /\ q.op = "assigning" /\ q.list \in ListsOfRoles
  /\ roles' = [roles EXCEPT ![q.user] = ReplacedList(h, @)]
  /\ CreateMany(h, q.user)
  /\ UNCHANGED perms

DeletePermissions(h) ==
  LET q == req[h] IN
  /\ q.op = "grant"
  /\ DeleteMany(h, q.role, [op |-> "granting", role |-> q.role, list |-> q.list, alone |-> TRUE])

ReplacePermissions(h) ==
  LET q == req[h] IN
  /\ q.op = "granting" /\ Existing(q.role)
  /\ perms' = [perms EXCEPT ![q.role] = ReplacedList(h, @)]
  /\ CreateMany(h, q.role)
  /\ UNCHANGED roles

-----------------------------------------------------------------------------
(* RolesService *)

CreateRole(r) ==
  /\ Someone("role.create")
  /\ perms[r] = Nil
  /\ \E list \in Grants :
       /\ perms' = [perms EXCEPT ![r] = list]
  /\ UNCHANGED <<active, roles, req, contended>>

Changeable(r) == Existing(r) /\ r # Admin

StartPermissions(h, r, list) ==
  /\ Someone("role.update")
  /\ Changeable(r)
  /\ Start(h, [op |-> "grant", role |-> r, list |-> list])

Cascade(r) == [u \in Users |-> roles[u] \ {r}]

RemoveRole(r) ==
  /\ Someone("role.delete")
  /\ Changeable(r)
  /\ perms' = [perms EXCEPT ![r] = Gone]
  /\ roles' = Cascade(r)
  /\ UNCHANGED <<active, req, contended>>

(* The request ends in an error, for any reason; an open transaction leaves
   nothing. *)
Fails(h) ==
  /\ req[h] # Idle
  /\ Become(h, Idle)
  /\ UNCHANGED <<rows, contended>>

-----------------------------------------------------------------------------
Init ==
  /\ active    = [u \in Users |-> IF u = Root THEN TRUE ELSE Nil]
  /\ roles     = [u \in Users |-> IF u = Root THEN {Admin} ELSE {}]
  /\ perms     = [r \in Roles |-> IF r = Admin THEN Permissions ELSE Nil]
  /\ req       = [h \in Handlers |-> Idle]
  /\ contended = {}
  /\ raced     = FALSE

Act ==
  \/ \E u \in Users : Activate(u)
  \/ \E r \in Roles : CreateRole(r) \/ RemoveRole(r)
  \/ \E h \in Handlers :
       \/ \E u \in Users :
            \/ StartDeactivate(h, u)
            \/ \E list \in ListsOfRoles : StartCreate(h, u, list) \/ StartAssign(h, u, list)
       \/ \E r \in Roles, list \in Grants : StartPermissions(h, r, list)
       \/ AssertNotLastAdmin(h)
       \/ InsertUser(h) \/ Deactivate(h)
       \/ DeleteRoles(h) \/ ReplaceRoles(h) \/ DeletePermissions(h) \/ ReplacePermissions(h)
       \/ Fails(h)

(* A request that, once written, leaves its user without the role or inactive *)
Lowers(q) == \/ q.op \in {"checkDeactivate", "deactivate"}
             \/ q.op \in {"checkAssign", "assign", "assigning"} /\ Admin \notin q.list

Watch == raced' = (raced \/ /\ ActiveAdmins' # ActiveAdmins
                            /\ \E h \in Handlers : Lowers(req[h]) /\ Lowers(req'[h]))

Bounded == Cardinality(contended') <= MaxContended

Next == Act /\ Watch /\ Bounded

Spec == Init /\ [][Next]_vars

-----------------------------------------------------------------------------
(* Every row has its type, and users hold only roles that are there. *)
TypeOK ==
  /\ active \in [Users -> BOOLEAN \cup {Nil}]
  /\ perms  \in [Roles -> (SUBSET Permissions) \cup {Nil, Gone}]
  /\ roles  \in [Users -> SUBSET Roles]
  /\ \A u \in Users : roles[u] \in ListsOfRoles /\ (roles[u] # {} => IsUser(u))
  /\ req    \in [Handlers -> Request]
  /\ contended \subseteq Users \cup Roles
  /\ raced \in BOOLEAN

(* "Son aktif admin korunur" and "sistem kilidi engeli": there is always
   an active user with every permission, whatever is assigned, replaced,
   deactivated or deleted in whatever order, unless the administrators changed
   under a request that was itself about to take one away. *)
NoLockout ==
  raced \/ \E u \in Users : active[u] = TRUE /\ PermissionsOf(u) = Permissions

=============================================================================
