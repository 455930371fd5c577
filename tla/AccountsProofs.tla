--------------------------- MODULE AccountsProofs ---------------------------
(***************************************************************************)
(* What holds of Accounts for every number of requests, users, roles and   *)
(* permissions.                                                            *)
(***************************************************************************)
EXTENDS Accounts, FiniteSetTheorems, TLAPS

OfUser == {"checkAssign", "assign", "assigning", "checkDeactivate", "deactivate"}

(* A request is about a user who is there, or about a role that is not ADMIN. *)
Good(q) ==
  /\ q \in Request
  /\ q.op \in OfUser => IsUser(q.user)
  /\ q.op \in {"grant", "granting"} => q.role # Admin

Typed ==
  /\ TypeOK
  /\ perms[Admin] = Permissions
  /\ \A h \in Handlers : Good(req[h])

(* A request whose next statement takes the role from its user, or the user
   from the active ones, with no check in between. *)
Taking(q) == \/ q.op = "deactivate"
             \/ q.op \in {"assign", "assigning"} /\ Admin \notin q.list

(* Unless they changed under such a request, there are active administrators,
   and one of them is not the user that such a request is about. *)
AdminInv ==
  ~raced => /\ ActiveAdmins # {}
            /\ \A h \in Handlers :
                 Taking(req[h]) => \E a \in ActiveAdmins : a # req[h].user

-----------------------------------------------------------------------------
LEMMA RequestShape ==
  ASSUME NEW r \in Request
  PROVE  /\ r.op \in OfUser => r.user \in Users
         /\ r.op = "insert" => r.user \in Users /\ r.list \in SUBSET Roles
         /\ r.op \in {"checkAssign", "assign", "assigning"} => r.list \in SUBSET Roles
         /\ r.op \in {"grant", "granting"} => r.role \in Roles /\ r.list \in SUBSET Permissions
  BY DEF Request, Idle, OfUser

LEMMA IdleIsGood == Good(Idle) /\ Idle.op = "idle" /\ ~ Taking(Idle)
  BY DEF Good, Request, Idle, OfUser, Taking

(* What a user's or a role's request is made of *)
LEMMA UserRequest ==
  ASSUME NEW u \in Users, NEW list \in SUBSET Roles, NEW b \in BOOLEAN
  PROVE  /\ [op |-> "insert", user |-> u, list |-> list] \in Request
         /\ [op |-> "checkAssign", user |-> u, list |-> list] \in Request
         /\ [op |-> "assign", user |-> u, list |-> list] \in Request
         /\ [op |-> "assigning", user |-> u, list |-> list, alone |-> b] \in Request
         /\ [op |-> "checkDeactivate", user |-> u] \in Request
         /\ [op |-> "deactivate", user |-> u] \in Request
  BY DEF Request

LEMMA RoleRequest ==
  ASSUME NEW r \in Roles, NEW list \in SUBSET Permissions, NEW b \in BOOLEAN
  PROVE  /\ [op |-> "grant", role |-> r, list |-> list] \in Request
         /\ [op |-> "granting", role |-> r, list |-> list, alone |-> b] \in Request
  BY DEF Request

Assigning == [op : {"assigning"}, user : Users, list : SUBSET Roles, alone : BOOLEAN]
Granting  == [op : {"granting"}, role : Roles, list : SUBSET Permissions, alone : BOOLEAN]

(* A request that is told it is not alone is otherwise the same. *)
LEMMA NotAlone ==
  ASSUME NEW r \in Request, r.op \in {"assigning", "granting"}
  PROVE  /\ [r EXCEPT !.alone = FALSE] \in Request
         /\ [r EXCEPT !.alone = FALSE].op = r.op
         /\ [r EXCEPT !.alone = FALSE].list = r.list
         /\ r.op = "assigning" => [r EXCEPT !.alone = FALSE].user = r.user
         /\ r.op = "granting" => [r EXCEPT !.alone = FALSE].role = r.role
<1>1. CASE r.op = "assigning"
  <2>1. r \in Assigning
    BY <1>1 DEF Request, Idle, Assigning
  <2>2. [r EXCEPT !.alone = FALSE] \in Assigning /\ [r EXCEPT !.alone = FALSE].user = r.user
    BY <2>1 DEF Assigning
  <2> QED
    BY <1>1, <2>1, <2>2 DEF Request, Assigning
<1>2. CASE r.op = "granting"
  <2>1. r \in Granting
    BY <1>2 DEF Request, Idle, Granting
  <2>2. [r EXCEPT !.alone = FALSE] \in Granting /\ [r EXCEPT !.alone = FALSE].role = r.role
    BY <2>1 DEF Granting
  <2> QED
    BY <1>2, <2>1, <2>2 DEF Request, Granting
<1> QED
  BY <1>1, <1>2

(* A request that passed the guard goes on as the write it guards. *)
LEMMA Checked ==
  ASSUME NEW r \in Request
  PROVE  /\ r.op = "checkAssign" =>
              /\ [r EXCEPT !.op = "assign"] \in Request
              /\ [r EXCEPT !.op = "assign"].op = "assign"
              /\ [r EXCEPT !.op = "assign"].user = r.user
         /\ r.op = "checkDeactivate" =>
              /\ [r EXCEPT !.op = "deactivate"] \in Request
              /\ [r EXCEPT !.op = "deactivate"].op = "deactivate"
              /\ [r EXCEPT !.op = "deactivate"].user = r.user
  BY DEF Request, Idle

-----------------------------------------------------------------------------
LEMMA InitTyped == Init => Typed
<1> SUFFICES ASSUME Init PROVE Typed
  OBVIOUS
<1>1. TypeOK
  <2>1. active \in [Users -> BOOLEAN \cup {Nil}] /\ raced \in BOOLEAN
    BY DEF Init
  <2>2. /\ perms \in [Roles -> (SUBSET Permissions) \cup {Nil, Gone}]
        /\ perms[Admin] = Permissions /\ Existing(Admin)
    BY SeedAssumption, NilAssumption DEF Init, Existing
  <2>3. roles \in [Users -> SUBSET Roles] /\ \A u \in Users : roles[u] \in ListsOfRoles
    BY <2>2, SeedAssumption DEF Init, ListsOfRoles
  <2>4. \A u \in Users : roles[u] # {} => IsUser(u)
    BY NilAssumption DEF Init, IsUser
  <2> QED
    BY <2>1, <2>2, <2>3, <2>4, IdleIsGood DEF Init, TypeOK, Good
<1> QED
  BY <1>1, IdleIsGood, SeedAssumption DEF Init, Typed, Good

(* Who wrote a list last leaves the others that replace it not alone. *)
LEMMA CreateManyTells ==
  ASSUME Typed, NEW h \in Handlers, NEW x, CreateMany(h, x)
  PROVE  /\ req' \in [Handlers -> Request]
         /\ req'[h] = Idle
         /\ \A g \in Handlers :
              \/ req'[g] \in {req[g], Idle}
              \/ /\ req[g].op \in {"assigning", "granting"}
                 /\ req'[g] = [req[g] EXCEPT !.alone = FALSE]
<1>1. req \in [Handlers -> Request]
  BY DEF Typed, TypeOK
<1>2. ASSUME NEW g \in Handlers
      PROVE  /\ req'[g] \in Request
             /\ \/ req'[g] \in {req[g], Idle}
                \/ /\ req[g].op \in {"assigning", "granting"}
                   /\ req'[g] = [req[g] EXCEPT !.alone = FALSE]
  <2>1. req'[g] = IF g = h THEN Idle
                  ELSE IF g \in Replacing(x) THEN [req[g] EXCEPT !.alone = FALSE]
                  ELSE req[g]
    BY DEF CreateMany
  <2>2. CASE g # h /\ g \in Replacing(x)
    <3>1. req[g].op \in {"assigning", "granting"} /\ req[g] \in Request
      BY <1>1, <2>2 DEF Replacing
    <3>2. [req[g] EXCEPT !.alone = FALSE] \in Request
      BY <3>1, NotAlone
    <3> QED
      BY <2>1, <2>2, <3>1, <3>2
  <2> QED
    BY <1>1, <2>1, <2>2, IdleIsGood DEF Good
<1>3. req' \in [Handlers -> Request]
  <2>1. req' = [g \in Handlers |-> req'[g]]
    BY DEF CreateMany
  <2> QED
    BY <1>2, <2>1
<1> QED
  BY <1>2, <1>3 DEF CreateMany

LEMMA NextTyped == Typed /\ [Next]_vars => Typed'
<1> SUFFICES ASSUME Typed, Next \/ UNCHANGED vars PROVE Typed'
  OBVIOUS
<1>0. /\ active \in [Users -> BOOLEAN \cup {Nil}]
      /\ perms \in [Roles -> (SUBSET Permissions) \cup {Nil, Gone}]
      /\ roles \in [Users -> SUBSET Roles]
      /\ \A u \in Users : roles[u] \in ListsOfRoles /\ (roles[u] # {} => IsUser(u))
      /\ req \in [Handlers -> Request] /\ contended \subseteq Users \cup Roles
      /\ perms[Admin] = Permissions /\ \A h \in Handlers : Good(req[h])
  BY DEF Typed, TypeOK
<1>1. raced' \in BOOLEAN
  BY Zenon DEF Next, Watch, vars, Typed, TypeOK
<1>2. ASSUME NEW h \in Handlers, NEW q, Good(q), req' = [req EXCEPT ![h] = q],
             UNCHANGED rows, contended' \subseteq Users \cup Roles
      PROVE  Typed'
  <2>1. req' \in [Handlers -> Request] /\ \A g \in Handlers : Good(req'[g])
    BY <1>0, <1>2 DEF Good
  <2>2. \A g \in Handlers : Good(req[g])'
    BY <1>2, <2>1 DEF Good, IsUser, rows
  <2> QED
    BY <1>0, <1>1, <1>2, <2>1, <2>2 DEF Typed, TypeOK, ListsOfRoles, Existing, IsUser, rows
<1>3. ASSUME active' \in [Users -> BOOLEAN \cup {Nil}],
             \A u \in Users : IsUser(u) => active'[u] # Nil,
             perms' \in [Roles -> (SUBSET Permissions) \cup {Nil, Gone}], perms'[Admin] = Permissions,
             roles' \in [Users -> SUBSET Roles],
             \A u \in Users : roles'[u] \in ListsOfRoles' /\ (roles'[u] # {} => active'[u] # Nil),
             req' \in [Handlers -> Request],
             \A g \in Handlers :
               \/ req'[g] \in {req[g], Idle}
               \/ /\ req[g].op \in {"assigning", "granting"}
                  /\ req'[g] = [req[g] EXCEPT !.alone = FALSE],
             contended' = contended
      PROVE  Typed'
  <2>1. ASSUME NEW g \in Handlers PROVE Good(req[g])'
    <3>1. Good(req[g]) /\ Good(Idle)
      BY <1>0, IdleIsGood
    <3>2. \A q : Good(q) => Good(q)'
      <4>1. \A q \in Request : q.op \in OfUser => q.user \in Users
        BY RequestShape
      <4> QED
        BY <1>3, <4>1 DEF Good, IsUser
    <3>3. ASSUME req[g].op \in {"assigning", "granting"} PROVE Good([req[g] EXCEPT !.alone = FALSE])
      <4>1. PICK r \in Request : r = req[g] /\ Good(r)
        BY <1>0
      <4>2. Good([r EXCEPT !.alone = FALSE])
        BY <3>3, <4>1, NotAlone DEF Good, OfUser
      <4> QED
        BY <4>1, <4>2
    <3> QED
      BY <1>3, <3>1, <3>2, <3>3
  <2> QED
    BY <1>1, <1>3, <2>1 DEF Typed, TypeOK, IsUser
<1>4. ListsOfRoles \subseteq SUBSET Roles /\ \A r \in Roles : Existing(r) <=> perms[r] \in SUBSET Permissions
  BY <1>0, NilAssumption DEF ListsOfRoles, Existing
<1>5. ASSUME NEW h \in Handlers, NEW u \in Users, StartDeactivate(h, u) PROVE Typed'
  <2>1. PICK op \in {"checkDeactivate", "deactivate"} : Start(h, [op |-> op, user |-> u]) /\ IsUser(u)
    BY <1>5 DEF StartDeactivate
  <2>2. Good([op |-> op, user |-> u])
    BY <2>1, UserRequest DEF Good
  <2> QED
    BY <1>0, <1>2, <2>1, <2>2 DEF Start, Become
<1>6. ASSUME NEW h \in Handlers, NEW u \in Users, NEW list \in ListsOfRoles,
             StartCreate(h, u, list) \/ StartAssign(h, u, list)
      PROVE  Typed'
  <2>1. PICK op \in {"insert", "checkAssign", "assign"} :
          /\ Start(h, [op |-> op, user |-> u, list |-> list])
          /\ op # "insert" => IsUser(u)
    BY <1>6 DEF StartCreate, StartAssign
  <2>2. list \in SUBSET Roles
    BY <1>4
  <2>3. [op |-> op, user |-> u, list |-> list] \in Request
    BY <2>2, UserRequest
  <2>4. Good([op |-> op, user |-> u, list |-> list])
    BY <2>1, <2>3 DEF Good, OfUser
  <2> QED
    BY <1>0, <1>2, <2>1, <2>4 DEF Start, Become
<1>7. ASSUME NEW h \in Handlers, NEW r \in Roles, NEW list \in Grants, StartPermissions(h, r, list)
      PROVE  Typed'
  <2>1. list \in SUBSET Permissions
    BY PermissionsAssumption
  <2>2. Good([op |-> "grant", role |-> r, list |-> list])
    BY <1>7, <2>1, RoleRequest DEF Good, OfUser, StartPermissions, Changeable
  <2> QED
    BY <1>0, <1>2, <1>7, <2>2 DEF StartPermissions, Start, Become
<1>8. ASSUME NEW h \in Handlers, AssertNotLastAdmin(h) PROVE Typed'
  <2>1. PICK r \in Request : r = req[h] /\ Good(r)
    BY <1>0
  <2>2. PICK q : /\ req' = [req EXCEPT ![h] = q]
                 /\ \/ r.op = "checkAssign" /\ q = [r EXCEPT !.op = "assign"]
                    \/ r.op = "checkDeactivate" /\ q = [r EXCEPT !.op = "deactivate"]
    BY <1>8, <2>1 DEF AssertNotLastAdmin, Become
  <2>3. Good(q)
    BY <2>1, <2>2, Checked DEF Good, OfUser
  <2> QED
    BY <1>0, <1>2, <1>8, <2>2, <2>3 DEF AssertNotLastAdmin
<1>9. ASSUME NEW h \in Handlers, DeleteRoles(h) \/ DeletePermissions(h) PROVE Typed'
  <2>1. CASE DeleteRoles(h)
    <3>1. PICK u \in Users, list \in SUBSET Roles :
            req[h].op = "assign" /\ req[h].user = u /\ req[h].list = list /\ IsUser(u)
      BY <1>0, <2>1, RequestShape DEF DeleteRoles, Good, OfUser
    <3>2. DeleteMany(h, u, [op |-> "assigning", user |-> u, list |-> list, alone |-> TRUE])
      BY <2>1, <3>1 DEF DeleteRoles
    <3>3. Good([op |-> "assigning", user |-> u, list |-> list, alone |-> TRUE])
      BY <3>1, UserRequest DEF Good
    <3> QED
      BY <1>0, <1>2, <3>2, <3>3 DEF DeleteMany
  <2>2. CASE DeletePermissions(h)
    <3>1. PICK r \in Roles, list \in SUBSET Permissions :
            req[h].op = "grant" /\ req[h].role = r /\ req[h].list = list /\ r # Admin
      BY <1>0, <2>2, RequestShape DEF DeletePermissions, Good
    <3>2. DeleteMany(h, r, [op |-> "granting", role |-> r, list |-> list, alone |-> TRUE])
      BY <2>2, <3>1 DEF DeletePermissions
    <3>3. Good([op |-> "granting", role |-> r, list |-> list, alone |-> TRUE])
      BY <3>1, RoleRequest DEF Good, OfUser
    <3> QED
      BY <1>0, <1>2, <3>2, <3>3 DEF DeleteMany
  <2> QED
    BY <1>9, <2>1, <2>2
<1>10. ASSUME NEW h \in Handlers, Fails(h) PROVE Typed'
  BY <1>0, <1>2, <1>10, IdleIsGood DEF Fails, Become
<1>11. ASSUME NEW h \in Handlers, Become(h, Idle)
       PROVE  req' \in [Handlers -> Request] /\ \A g \in Handlers : req'[g] \in {req[g], Idle}
  BY <1>0, <1>11, IdleIsGood DEF Become, Good
<1>12. ASSUME NEW h \in Handlers, InsertUser(h) PROVE Typed'
  <2>1. PICK u \in Users, list \in SUBSET Roles :
          req[h].user = u /\ req[h].list = list /\ list \in ListsOfRoles
    BY <1>0, <1>12, RequestShape DEF InsertUser
  <2>2. /\ active' = [active EXCEPT ![u] = TRUE] /\ roles' = [roles EXCEPT ![u] = list]
        /\ UNCHANGED <<perms, contended>> /\ ListsOfRoles' = ListsOfRoles
    BY <1>12, <2>1 DEF InsertUser, ListsOfRoles, Existing
  <2>3. /\ active' \in [Users -> BOOLEAN \cup {Nil}]
        /\ \A v \in Users : IsUser(v) => active'[v] # Nil
        /\ active'[u] # Nil
    BY <1>0, <2>2, NilAssumption DEF IsUser
  <2>4. /\ roles' \in [Users -> SUBSET Roles]
        /\ \A v \in Users : roles'[v] \in ListsOfRoles' /\ (roles'[v] # {} => active'[v] # Nil)
    BY <1>0, <2>1, <2>2, <2>3 DEF IsUser
  <2>5. req' \in [Handlers -> Request] /\ \A g \in Handlers : req'[g] \in {req[g], Idle}
    BY <1>11, <1>12 DEF InsertUser
  <2> QED
    BY <1>0, <1>3, <2>2, <2>3, <2>4, <2>5
<1>13. ASSUME NEW u \in Users, NEW b \in BOOLEAN, active' = [active EXCEPT ![u] = b], IsUser(u),
              UNCHANGED <<roles, perms, contended>>, req' \in [Handlers -> Request],
              \A g \in Handlers : req'[g] \in {req[g], Idle}
       PROVE  Typed'
  <2>1. b # Nil
    BY NilAssumption
  <2>2. active' \in [Users -> BOOLEAN \cup {Nil}] /\ \A v \in Users : IsUser(v) => active'[v] # Nil
    BY <1>0, <1>13, <2>1 DEF IsUser
  <2>3. ListsOfRoles' = ListsOfRoles
    BY <1>13 DEF ListsOfRoles, Existing
  <2> QED
    BY <1>0, <1>3, <1>13, <2>2, <2>3
<1>14. ASSUME NEW u \in Users, Activate(u) PROVE Typed'
  BY <1>0, <1>13, <1>14 DEF Activate
<1>15. ASSUME NEW h \in Handlers, Deactivate(h) PROVE Typed'
  <2>1. PICK u \in Users : req[h].user = u /\ IsUser(u)
    BY <1>0, <1>15, RequestShape DEF Deactivate, Good, OfUser
  <2> QED
    BY <1>11, <1>13, <1>15, <2>1 DEF Deactivate
<1>16. ASSUME NEW h \in Handlers, ReplaceRoles(h) PROVE Typed'
  <2>1. PICK u \in Users, list \in SUBSET Roles :
          req[h].user = u /\ req[h].list = list /\ list \in ListsOfRoles /\ IsUser(u)
    BY <1>0, <1>16, RequestShape DEF ReplaceRoles, Good, OfUser
  <2>2. PICK new \in ListsOfRoles : roles' = [roles EXCEPT ![u] = new]
    <3>1. list \in ListsOfRoles /\ roles[u] \cup list \in ListsOfRoles
      BY <1>0, <2>1 DEF ListsOfRoles
    <3> QED
      BY <1>16, <2>1, <3>1 DEF ReplaceRoles, ReplacedList
  <2>3. UNCHANGED <<active, perms, contended>> /\ CreateMany(h, u) /\ ListsOfRoles' = ListsOfRoles
    BY <1>16, <2>1 DEF ReplaceRoles, CreateMany, ListsOfRoles, Existing
  <2>4. /\ roles' \in [Users -> SUBSET Roles]
        /\ \A v \in Users : roles'[v] \in ListsOfRoles' /\ (roles'[v] # {} => active'[v] # Nil)
    BY <1>0, <1>4, <2>1, <2>2, <2>3 DEF IsUser
  <2> QED
    BY <1>0, <1>3, <2>3, <2>4, CreateManyTells DEF IsUser
<1>17. ASSUME NEW r \in Roles, r # Admin, NEW list \in SUBSET Permissions,
              perms' = [perms EXCEPT ![r] = list]
       PROVE  /\ perms' \in [Roles -> (SUBSET Permissions) \cup {Nil, Gone}] /\ perms'[Admin] = Permissions
              /\ ListsOfRoles \subseteq ListsOfRoles'
  BY <1>0, <1>17, NilAssumption, SeedAssumption DEF ListsOfRoles, Existing
<1>18. ASSUME NEW h \in Handlers, ReplacePermissions(h) PROVE Typed'
  <2>1. PICK r \in Roles, list \in SUBSET Permissions :
          req[h].role = r /\ req[h].list = list /\ r # Admin /\ Existing(r)
    BY <1>0, <1>18, RequestShape DEF ReplacePermissions, Good
  <2>2. PICK new \in SUBSET Permissions : perms' = [perms EXCEPT ![r] = new]
    <3>1. perms[r] \cup list \in SUBSET Permissions
      BY <1>4, <2>1
    <3> QED
      BY <1>18, <2>1, <3>1 DEF ReplacePermissions, ReplacedList
  <2>3. UNCHANGED <<active, roles, contended>> /\ CreateMany(h, r)
    BY <1>18, <2>1 DEF ReplacePermissions, CreateMany
  <2> QED
    BY <1>0, <1>3, <1>17, <2>1, <2>2, <2>3, CreateManyTells DEF IsUser
<1>19. ASSUME NEW r \in Roles, CreateRole(r) PROVE Typed'
  <2>1. PICK list \in SUBSET Permissions : perms' = [perms EXCEPT ![r] = list]
    BY <1>19, PermissionsAssumption DEF CreateRole
  <2>2. r # Admin
    BY <1>0, <1>19, NilAssumption DEF CreateRole
  <2> QED
    BY <1>0, <1>3, <1>17, <1>19, <2>1, <2>2 DEF CreateRole, IsUser
<1>20. ASSUME NEW r \in Roles, RemoveRole(r) PROVE Typed'
  <2>1. /\ perms' = [perms EXCEPT ![r] = Gone] /\ r # Admin /\ UNCHANGED <<active, req, contended>>
        /\ roles' = [u \in Users |-> roles[u] \ {r}]
    BY <1>20 DEF RemoveRole, Changeable, Cascade
  <2>2. perms' \in [Roles -> (SUBSET Permissions) \cup {Nil, Gone}] /\ perms'[Admin] = Permissions
    BY <1>0, <2>1, SeedAssumption
  <2>3. \A u \in Users : roles'[u] \in ListsOfRoles'
    <3>1. \A x \in Roles : x # r /\ Existing(x) => Existing(x)'
      BY <1>0, <2>1 DEF Existing
    <3> QED
      BY <1>0, <2>1, <3>1 DEF ListsOfRoles
  <2> QED
    BY <1>0, <1>3, <2>1, <2>2, <2>3 DEF IsUser
<1>21. CASE UNCHANGED vars
  BY <1>0, <1>1, <1>21 DEF vars, rows, Typed, TypeOK, ListsOfRoles, Existing, IsUser, Good
<1> QED
  BY <1>5, <1>6, <1>7, <1>8, <1>9, <1>10, <1>12, <1>14, <1>15, <1>16, <1>18, <1>19, <1>20, <1>21
  DEF Next, Act

(* Type correctness.  Its foreign keys say that a user holds only roles that
   are there, however roles are removed while lists that name them are on
   their way. *)
THEOREM TypeCorrect == Spec => []TypeOK
<1>1. Typed => TypeOK
  BY DEF Typed
<1> QED
  BY <1>1, InitTyped, NextTyped, PTL DEF Spec

-----------------------------------------------------------------------------
(* The guard, passed: whoever the request is about, another active user is
   an administrator. *)
LEMMA GuardLeavesOne ==
  ASSUME NEW u, NotLastAdmin(u), active[u] \in BOOLEAN, ActiveAdmins # {}
  PROVE  \E a \in ActiveAdmins : a # u
<1> SUFFICES ASSUME ActiveAdmins \subseteq {u} PROVE FALSE
  OBVIOUS
<1>1. ActiveAdmins = {u}
  OBVIOUS
<1>2. Cardinality({u}) = 1
  BY FS_Singleton, Zenon
<1>3. active[u]
  BY <1>1 DEF ActiveAdmins
<1> QED
  BY <1>1, <1>2, <1>3 DEF NotLastAdmin

(* No administrator is lost, and no request becomes one that takes the role
   away without another administrator. *)
LEMMA AdminsStay ==
  ASSUME AdminInv, raced => raced', ActiveAdmins \subseteq ActiveAdmins',
         \A g \in Handlers : Taking(req'[g]) =>
           \/ Taking(req[g]) /\ req'[g].user = req[g].user
           \/ raced \/ \E a \in ActiveAdmins : a # req'[g].user
  PROVE  AdminInv'
<1> SUFFICES ASSUME ~ raced'
             PROVE  /\ ActiveAdmins' # {}
                    /\ \A g \in Handlers : Taking(req'[g]) => \E a \in ActiveAdmins' : a # req'[g].user
  BY DEF AdminInv, Taking
<1>1. /\ ActiveAdmins # {} /\ ~ raced
      /\ \A g \in Handlers : Taking(req[g]) => \E a \in ActiveAdmins : a # req[g].user
  BY DEF AdminInv
<1> QED
  BY <1>1

(* A request takes the role from its user, or the user from the active ones.
   Another administrator is left; and if any was lost, every other request
   that could take one away has raced with it. *)
LEMMA AdminTaken ==
  ASSUME Typed, AdminInv, Watch, NEW h \in Handlers, Taking(req[h]), req'[h] = Idle,
         \A a \in ActiveAdmins : a # req[h].user => a \in ActiveAdmins',
         \A g \in Handlers : g # h =>
           /\ req'[g].op = req[g].op
           /\ req[g].op \in {"assign", "assigning"} => req'[g].list = req[g].list
           /\ req[g].op \in OfUser => req'[g].user = req[g].user
  PROVE  AdminInv'
<1>1. \A g \in Handlers : Taking(req'[g]) =>
        /\ Taking(req[g]) /\ req'[g].user = req[g].user
        /\ Lowers(req[g]) /\ Lowers(req'[g])
  BY IdleIsGood DEF Taking, Lowers, OfUser
<1>2. raced => raced'
  BY Zenon DEF Watch
<1>3. CASE ActiveAdmins' = ActiveAdmins
  BY <1>1, <1>2, <1>3, AdminsStay
<1>4. CASE ActiveAdmins' # ActiveAdmins
  <2> SUFFICES ASSUME ~ raced'
               PROVE  /\ ActiveAdmins' # {}
                      /\ \A g \in Handlers : Taking(req'[g]) => \E a \in ActiveAdmins' : a # req'[g].user
    BY DEF AdminInv, Taking
  <2>1. \A g \in Handlers : ~ (Lowers(req[g]) /\ Lowers(req'[g]))
    BY <1>4, Zenon DEF Watch
  <2>2. \E a \in ActiveAdmins : a # req[h].user
    BY <1>2 DEF AdminInv
  <2> QED
    BY <1>1, <2>1, <2>2
<1> QED
  BY <1>3, <1>4

LEMMA InitAdmins == Init => AdminInv
<1> SUFFICES ASSUME Init PROVE AdminInv
  OBVIOUS
<1>1. Root \in ActiveAdmins
  BY SeedAssumption DEF Init, ActiveAdmins, IsAdmin
<1>2. \A h \in Handlers : ~ Taking(req[h])
  BY IdleIsGood DEF Init
<1> QED
  BY <1>1, <1>2 DEF AdminInv

LEMMA NextAdmins == Typed /\ AdminInv /\ [Next]_vars => AdminInv'
<1> SUFFICES ASSUME Typed, AdminInv, Next \/ UNCHANGED vars PROVE AdminInv'
  OBVIOUS
<1>0. /\ active \in [Users -> BOOLEAN \cup {Nil}] /\ roles \in [Users -> SUBSET Roles]
      /\ perms \in [Roles -> (SUBSET Permissions) \cup {Nil, Gone}]
      /\ req \in [Handlers -> Request] /\ \A h \in Handlers : Good(req[h])
  BY DEF Typed, TypeOK
<1>1. CASE UNCHANGED vars
  BY <1>1 DEF vars, rows, AdminInv, ActiveAdmins, IsAdmin, Taking
<1> SUFFICES ASSUME Act, Watch PROVE AdminInv'
  BY <1>1 DEF Next
<1>2. raced => raced'
  BY Zenon DEF Watch
<1>3. ASSUME UNCHANGED <<active, roles>> PROVE ActiveAdmins' = ActiveAdmins
  BY <1>3 DEF ActiveAdmins, IsAdmin
<1>4. ASSUME NEW h \in Handlers, NEW q, req' = [req EXCEPT ![h] = q], UNCHANGED rows,
             Taking(q) => \/ Taking(req[h]) /\ q.user = req[h].user
                          \/ raced \/ \E a \in ActiveAdmins : a # q.user
      PROVE  AdminInv'
  BY <1>0, <1>2, <1>3, <1>4, AdminsStay DEF rows
<1>5. ~ raced => ActiveAdmins # {}
  BY DEF AdminInv
<1>6. ASSUME NEW u \in Users, ~ IsAdmin(u), ~ raced PROVE \E a \in ActiveAdmins : a # u
  BY <1>5, <1>6 DEF ActiveAdmins
<1>7. ASSUME NEW h \in Handlers, NEW u \in Users, StartDeactivate(h, u) PROVE AdminInv'
  <2>1. PICK q : /\ Start(h, q) /\ q.user = u
                 /\ \/ q.op = "checkDeactivate"
                    \/ q.op = "deactivate" /\ ~ IsAdmin(u)
    BY <1>7 DEF StartDeactivate
  <2> QED
    BY <1>4, <1>6, <2>1 DEF Start, Become, Taking
<1>8. ASSUME NEW h \in Handlers, NEW u \in Users, NEW list, StartCreate(h, u, list) PROVE AdminInv'
  BY <1>4, <1>8 DEF StartCreate, Start, Become, Taking
<1>9. ASSUME NEW h \in Handlers, NEW u \in Users, NEW list, StartAssign(h, u, list) PROVE AdminInv'
  <2>1. PICK q : /\ Start(h, q) /\ q.user = u /\ q.list = list
                 /\ \/ q.op = "checkAssign"
                    \/ q.op = "assign" /\ (~ IsAdmin(u) \/ Admin \in list)
    BY <1>9 DEF StartAssign
  <2> QED
    BY <1>4, <1>6, <2>1 DEF Start, Become, Taking
<1>10. ASSUME NEW h \in Handlers, NEW r, NEW list, StartPermissions(h, r, list) PROVE AdminInv'
  BY <1>4, <1>10 DEF StartPermissions, Start, Become, Taking
<1>11. ASSUME NEW h \in Handlers, AssertNotLastAdmin(h) PROVE AdminInv'
  <2>1. PICK r \in Request : r = req[h] /\ Good(r)
    BY <1>0
  <2>2. PICK q : /\ req' = [req EXCEPT ![h] = q]
                 /\ \/ r.op = "checkAssign" /\ q = [r EXCEPT !.op = "assign"]
                    \/ r.op = "checkDeactivate" /\ q = [r EXCEPT !.op = "deactivate"]
    BY <1>11, <2>1 DEF AssertNotLastAdmin, Become
  <2>3. q.user = r.user
    BY <2>2, Checked
  <2>4. NotLastAdmin(r.user) /\ active[r.user] \in BOOLEAN
    BY <1>0, <1>11, <2>1, <2>2, RequestShape DEF AssertNotLastAdmin, Good, OfUser, IsUser
  <2>5. raced \/ \E a \in ActiveAdmins : a # q.user
    BY <1>5, <2>3, <2>4, GuardLeavesOne
  <2> QED
    BY <1>4, <1>11, <2>2, <2>5 DEF AssertNotLastAdmin
<1>12. ASSUME NEW h \in Handlers, DeleteRoles(h) PROVE AdminInv'
  <2>1. PICK q : /\ DeleteMany(h, req[h].user, q) /\ q.op = "assigning" /\ q.user = req[h].user
                 /\ req[h].op = "assign" /\ q.list = req[h].list
    BY <1>12 DEF DeleteRoles
  <2> QED
    BY <1>4, <2>1 DEF DeleteMany, Taking
<1>13. ASSUME NEW h \in Handlers, DeletePermissions(h) PROVE AdminInv'
  <2>1. PICK q : DeleteMany(h, req[h].role, q) /\ q.op = "granting"
    BY <1>13 DEF DeletePermissions
  <2> QED
    BY <1>4, <2>1 DEF DeleteMany, Taking
<1>14. ASSUME NEW h \in Handlers, Fails(h) PROVE AdminInv'
  BY <1>4, <1>14, IdleIsGood DEF Fails, Become
<1>15. ASSUME req' = req, ActiveAdmins \subseteq ActiveAdmins' PROVE AdminInv'
  BY <1>2, <1>15, AdminsStay
<1>16. ASSUME NEW u \in Users, Activate(u) PROVE AdminInv'
  BY <1>0, <1>15, <1>16 DEF Activate, ActiveAdmins, IsAdmin
<1>17. ASSUME NEW r \in Roles, CreateRole(r) PROVE AdminInv'
  BY <1>3, <1>15, <1>17 DEF CreateRole
<1>18. ASSUME NEW r \in Roles, RemoveRole(r) PROVE AdminInv'
  <2>1. r # Admin /\ UNCHANGED <<active, req>> /\ roles' = [u \in Users |-> roles[u] \ {r}]
    BY <1>18 DEF RemoveRole, Changeable, Cascade
  <2>2. ActiveAdmins \subseteq ActiveAdmins'
    BY <2>1 DEF ActiveAdmins, IsAdmin
  <2> QED
    BY <1>15, <2>1, <2>2
<1>19. ASSUME NEW h \in Handlers, InsertUser(h) PROVE AdminInv'
  <2>1. PICK u \in Users : req[h].user = u
    BY <1>0, <1>19, RequestShape DEF InsertUser
  <2>2. ActiveAdmins \subseteq ActiveAdmins'
    BY <1>0, <1>19, <2>1, NilAssumption DEF InsertUser, IsUser, ActiveAdmins, IsAdmin
  <2>3. \A g \in Handlers : req'[g] \in {req[g], Idle}
    BY <1>0, <1>19 DEF InsertUser, Become
  <2> QED
    BY <1>2, <2>2, <2>3, AdminsStay, IdleIsGood
<1>20. ASSUME NEW h \in Handlers, Deactivate(h) PROVE AdminInv'
  <2>1. PICK u \in Users : req[h].user = u
    BY <1>0, <1>20, RequestShape DEF Deactivate, OfUser
  <2>2. \A a \in ActiveAdmins : a # u => a \in ActiveAdmins'
    BY <1>0, <1>20, <2>1 DEF Deactivate, ActiveAdmins, IsAdmin
  <2>3. /\ req'[h] = Idle /\ \A g \in Handlers : g # h => req'[g] = req[g]
        /\ Taking(req[h])
    BY <1>0, <1>20 DEF Deactivate, Become, Taking
  <2> QED
    BY <2>1, <2>2, <2>3, AdminTaken
<1>21. ASSUME NEW h \in Handlers, NEW x, CreateMany(h, x)
       PROVE  /\ req'[h] = Idle
              /\ \A g \in Handlers : g # h =>
                   /\ req'[g].op = req[g].op
                   /\ req[g].op \in {"assign", "assigning"} => req'[g].list = req[g].list
                   /\ req[g].op \in OfUser => req'[g].user = req[g].user
  <2>1. req'[h] = Idle
    BY <1>21 DEF CreateMany
  <2>2. ASSUME NEW g \in Handlers, g # h
        PROVE  /\ req'[g].op = req[g].op
               /\ req[g].op \in {"assign", "assigning"} => req'[g].list = req[g].list
               /\ req[g].op \in OfUser => req'[g].user = req[g].user
    <3>1. PICK r \in Request : r = req[g]
      BY <1>0
    <3>2. CASE g \in Replacing(x)
      <4>1. r.op \in {"assigning", "granting"} /\ req'[g] = [r EXCEPT !.alone = FALSE]
        BY <1>21, <2>2, <3>1, <3>2 DEF CreateMany, Replacing
      <4> QED
        BY <3>1, <4>1, NotAlone DEF OfUser
    <3>3. CASE g \notin Replacing(x)
      BY <1>21, <2>2, <3>3 DEF CreateMany
    <3> QED
      BY <3>2, <3>3
  <2> QED
    BY <2>1, <2>2
<1>22. ASSUME NEW h \in Handlers, ReplacePermissions(h) PROVE AdminInv'
  <2>1. CreateMany(h, req[h].role) /\ ActiveAdmins' = ActiveAdmins
    BY <1>3, <1>22 DEF ReplacePermissions, CreateMany
  <2>2. \A g \in Handlers : Taking(req'[g]) => Taking(req[g]) /\ req'[g].user = req[g].user
    BY <1>21, <2>1, IdleIsGood DEF Taking, OfUser
  <2> QED
    BY <1>2, <2>1, <2>2, AdminsStay
<1>23. ASSUME NEW h \in Handlers, ReplaceRoles(h) PROVE AdminInv'
  <2>1. PICK u \in Users, list \in SUBSET Roles : req[h].user = u /\ req[h].list = list
    BY <1>0, <1>23, RequestShape DEF ReplaceRoles, OfUser
  <2>2. CreateMany(h, u) /\ UNCHANGED active
    BY <1>23, <2>1 DEF ReplaceRoles, CreateMany
  <2>3. PICK new \in SUBSET Roles : list \subseteq new /\ roles' = [roles EXCEPT ![u] = new]
    BY <1>0, <1>23, <2>1 DEF ReplaceRoles, ReplacedList
  <2>4. CASE Admin \in list
    <3>1. ActiveAdmins \subseteq ActiveAdmins'
      BY <1>0, <2>2, <2>3, <2>4 DEF ActiveAdmins, IsAdmin
    <3>2. \A g \in Handlers : Taking(req'[g]) => Taking(req[g]) /\ req'[g].user = req[g].user
      BY <1>21, <2>2, IdleIsGood DEF Taking, OfUser
    <3> QED
      BY <1>2, <3>1, <3>2, AdminsStay
  <2>5. CASE Admin \notin list
    <3>1. Taking(req[h])
      BY <1>23, <2>1, <2>5 DEF ReplaceRoles, Taking
    <3>2. \A a \in ActiveAdmins : a # req[h].user => a \in ActiveAdmins'
      BY <1>0, <2>1, <2>2, <2>3 DEF ActiveAdmins, IsAdmin
    <3> QED
      BY <1>21, <2>2, <3>1, <3>2, AdminTaken
  <2> QED
    BY <2>4, <2>5
<1> QED
  BY <1>7, <1>8, <1>9, <1>10, <1>11, <1>12, <1>13, <1>14, <1>16, <1>17, <1>18, <1>19, <1>20,
     <1>22, <1>23 DEF Act

(* The system keeps an active user with every permission, whatever is
   assigned, replaced, deactivated or deleted in whatever order, unless the
   administrators changed under a request that was itself taking one away. *)
THEOREM AdministratorRemains == Spec => []NoLockout
<1>1. Typed /\ AdminInv => NoLockout
  <2> SUFFICES ASSUME Typed, AdminInv, ~ raced
               PROVE  \E u \in Users : active[u] = TRUE /\ PermissionsOf(u) = Permissions
    BY DEF NoLockout
  <2>1. PICK u \in Users : active[u] = TRUE /\ Admin \in roles[u]
    BY DEF AdminInv, ActiveAdmins, IsAdmin
  <2>2. \A r \in roles[u] : perms[r] \subseteq Permissions
    BY NilAssumption DEF Typed, TypeOK, ListsOfRoles, Existing
  <2>3. PermissionsOf(u) = Permissions
    BY <2>1, <2>2 DEF PermissionsOf, Typed
  <2> QED
    BY <2>1, <2>3
<1>2. Init => Typed /\ AdminInv
  BY InitTyped, InitAdmins
<1>3. Typed /\ AdminInv /\ [Next]_vars => (Typed /\ AdminInv)'
  BY NextTyped, NextAdmins
<1> QED
  BY <1>1, <1>2, <1>3, PTL DEF Spec
=============================================================================
