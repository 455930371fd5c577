---------------------------- MODULE Permissions ----------------------------
(***************************************************************************)
(* The permissions of the application, the roles it is installed with, and *)
(* the guard that every request passes (common/constants, common/guards).  *)
(***************************************************************************)

AllPermissions == {
  "user.create", "user.read", "user.update", "user.delete",
  "role.create", "role.read", "role.update", "role.delete", "role.assign",
  "deal.create", "deal.read", "deal.update", "deal.delete", "deal.move",
  "lead.create", "lead.read", "lead.update", "lead.delete", "lead.convert",
  "lead_form.read", "lead_form.manage", "pipeline.read", "pipeline.manage",
  "branding.manage", "whatsapp.send", "whatsapp.read",
  "invoice.create", "invoice.read", "invoice.update", "invoice.delete",
  "invoice.read_financial", "integration.read", "integration.manage",
  "company.create", "company.read", "company.update", "company.delete",
  "contact.create", "contact.read", "contact.update", "contact.delete",
  "meeting.create", "meeting.read", "meeting.update", "meeting.delete",
  "automation.read", "automation.manage", "custom_field.read", "custom_field.manage",
  "ai.use", "product.create", "product.read", "product.update", "product.delete",
  "quote.create", "quote.read", "quote.update", "quote.delete", "quote.send", "quote.convert",
  "data.export", "data.import", "data.merge", "audit.read", "gdpr.export", "gdpr.erase",
  "platform.tenant.manage"}

(* Of a manager: all of sales, nothing of the platform, invoices to read *)
ManagerLacks ==
  {"user.create", "user.update", "user.delete", "role.create", "role.read", "role.update",
   "role.delete", "role.assign", "branding.manage", "invoice.create", "invoice.update",
   "invoice.delete", "invoice.read_financial", "audit.read", "gdpr.export", "gdpr.erase",
   "platform.tenant.manage"}

RolePermissions == [
  ADMIN   |-> AllPermissions,
  MANAGER |-> AllPermissions \ ManagerLacks,
  SALES   |-> {
    "deal.create", "deal.read", "deal.update", "deal.move",
    "lead.create", "lead.read", "lead.update", "lead.convert",
    "lead_form.read", "pipeline.read", "whatsapp.send", "whatsapp.read",
    "meeting.create", "meeting.read", "meeting.update", "meeting.delete",
    "invoice.read", "company.create", "company.read",
    "contact.create", "contact.read", "contact.update", "custom_field.read", "ai.use",
    "product.read", "quote.create", "quote.read", "quote.update", "quote.send",
    "quote.convert", "data.export"},
  FINANCE |-> {
    "invoice.create", "invoice.read", "invoice.update", "invoice.delete",
    "invoice.read_financial", "product.read", "quote.read", "quote.convert"},
  VIEWER  |-> {
    "user.read", "role.read", "deal.read", "invoice.read", "company.read", "contact.read",
    "lead.read", "lead_form.read", "pipeline.read", "meeting.read", "custom_field.read",
    "product.read", "quote.read"}]

(* What the role form offers to grant or to take: a list of its own in the
   frontend, which lacks the groups that were added last. *)
FormPermissions ==
  AllPermissions \ {"lead_form.read", "lead_form.manage", "pipeline.read", "pipeline.manage",
                    "branding.manage", "whatsapp.send", "whatsapp.read"}

AnyWillDo(required, granted) == required = {} \/ required \cap granted # {}  \* a slip

(* PermissionsGuard: all that the handler requires *)
CanActivate(required, granted) == required \subseteq granted
=============================================================================
