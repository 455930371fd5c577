SPECIFICATION Spec
CONSTANTS
  Handlers = {h1, h2}
  Users = {root, u}
  Root = root
  Roles = {admin, sales}
  Admin = admin
  Permissions <- MCPermissions
  Grants <- MCGrants
  Nil = Nil
  Gone = Gone
  MaxContended = 1
SYMMETRY AnyHandler
INVARIANTS
  TypeOK
  NoLockout
CHECK_DEADLOCK FALSE
