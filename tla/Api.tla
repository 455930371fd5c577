-------------------------------- MODULE Api --------------------------------
(***************************************************************************)
(* The controllers of the backend as a client meets them: which handlers   *)
(* there are, which permissions each requires, and what the services       *)
(* behind them do to the status of a row, or refuse.  What they do beside  *)
(* that is the subject of the other modules.                               *)
(*                                                                         *)
(* A call is a pair of a controller and a handler.  Handlers without a     *)
(* session (intake forms, inbound webhooks, OAuth callbacks, login) and    *)
(* those that no page calls are not listed.                                *)
(***************************************************************************)
EXTENDS Permissions

AccountingController == [sync |-> {"invoice.update"}]

AiController ==
  [h \in {"status", "draftEmail", "summarize"} |-> {"ai.use"}]

AuditController == [list |-> {"audit.read"}]

AutomationController == [
  findAll |-> {"automation.read"}, create |-> {"automation.manage"},
  update |-> {"automation.manage"}, remove |-> {"automation.manage"}]

BrandingController == [get |-> {}, update |-> {"branding.manage"}]

CompaniesController == [
  create |-> {"company.create"}, findAll |-> {"company.read"},
  update |-> {"company.update"}, remove |-> {"company.delete"}]

ConnectionsController == [
  catalog |-> {"integration.read"}, list |-> {"integration.read"},
  connect |-> {"integration.manage"}, test |-> {"integration.manage"},
  oauthStart |-> {"integration.manage"}, remove |-> {"integration.manage"}]

ContactsController == [
  create |-> {"contact.create"}, findAll |-> {"contact.read"},
  update |-> {"contact.update"}, remove |-> {"contact.delete"}]

CustomFieldsController == [
  findAll |-> {"custom_field.read"}, create |-> {"custom_field.manage"},
  update |-> {"custom_field.manage"}, remove |-> {"custom_field.manage"}]

DataController == [export |-> {"data.export"}, import |-> {"data.import"}]

DealsController == [
  board |-> {"deal.read"}, findAll |-> {"deal.read"}, create |-> {"deal.create"},
  update |-> {"deal.update"}, move |-> {"deal.move"}, remove |-> {"deal.delete"}]

IntegrationsController == [
  list |-> {"integration.read"}, deliveries |-> {"integration.read"},
  create |-> {"integration.manage"}, test |-> {"integration.manage"},
  remove |-> {"integration.manage"}]

InvoicesController == [
  findAll |-> {"invoice.read"}, create |-> {"invoice.create"},
  issue |-> {"invoice.update"}, cancel |-> {"invoice.update"},
  addPayment |-> {"invoice.update", "invoice.read_financial"}]

LeadFormsController == [
  findAll |-> {"lead_form.read"}, create |-> {"lead_form.manage"},
  update |-> {"lead_form.manage"}, reveal |-> {"lead_form.manage"},
  rotate |-> {"lead_form.manage"}]

LeadsController == [
  findAll |-> {"lead.read"}, create |-> {"lead.create"}, update |-> {"lead.update"},
  convert |-> {"lead.convert"}, remove |-> {"lead.delete"}]

MeetingsController == [
  create |-> {"meeting.create"}, findAll |-> {"meeting.read"},
  update |-> {"meeting.update"}, remove |-> {"meeting.delete"}]

PipelinesController == [
  list |-> {"pipeline.read"}, addStage |-> {"pipeline.manage"},
  updateStage |-> {"pipeline.manage"}, reorder |-> {"pipeline.manage"},
  removeStage |-> {"pipeline.manage"}]

ProductsController == [
  findAll |-> {"product.read"}, create |-> {"product.create"},
  update |-> {"product.update"}, remove |-> {"product.delete"}]

QuotesController == [
  findAll |-> {"quote.read"}, create |-> {"quote.create"}, send |-> {"quote.send"},
  accept |-> {"quote.send"}, reject |-> {"quote.send"}, convert |-> {"quote.convert"},
  remove |-> {"quote.delete"}]

ReportsController == [
  h \in {"pipeline", "dealsSummary", "forecast", "salesByOwner", "topProducts", "wonLost",
         "invoicesSummary", "revenueMonthly"} |->
    IF h \in {"invoicesSummary", "revenueMonthly"}
    THEN {"invoice.read_financial"} ELSE {"deal.read"}]

RolesController == [
  findAll |-> {"role.read"}, create |-> {"role.create"}, update |-> {"role.update"},
  assignPermissions |-> {"role.update"}, remove |-> {"role.delete"}]

SearchController == [search |-> {}]

TenantsController == [h \in {"list", "create"} |-> {"platform.tenant.manage"}]

(* One handler assigns roles; it is here twice, by whether ADMIN is among
   them. *)
UsersController == [
  findAll |-> {"user.read"}, create |-> {"user.create"}, update |-> {"user.update"},
  setStatus |-> {"user.update"}, assignRoles |-> {"role.assign"},
  assignRolesButAdmin |-> {"role.assign"}, remove |-> {"user.delete"}]

WhatsappController == [
  status |-> {"whatsapp.read"}, conversations |-> {"whatsapp.read"},
  thread |-> {"whatsapp.read"}, send |-> {"whatsapp.send"}]

Controllers == [
  accounting |-> AccountingController, ai |-> AiController, audit |-> AuditController,
  automation |-> AutomationController, branding |-> BrandingController,
  companies |-> CompaniesController, connections |-> ConnectionsController,
  contacts |-> ContactsController, customFields |-> CustomFieldsController,
  data |-> DataController, deals |-> DealsController,
  integrations |-> IntegrationsController, invoices |-> InvoicesController,
  leadForms |-> LeadFormsController, leads |-> LeadsController,
  meetings |-> MeetingsController, pipelines |-> PipelinesController,
  products |-> ProductsController, quotes |-> QuotesController,
  reports |-> ReportsController, roles |-> RolesController, search |-> SearchController,
  tenants |-> TenantsController, users |-> UsersController,
  whatsapp |-> WhatsappController]

Needs(c) == Controllers[c[1]][c[2]]

-----------------------------------------------------------------------------
(* What a call makes of the row that a page shows: from each status that the
   service accepts, the statuses that may come of it.  "none": there is no
   such row.  A call that a service does not list here leaves it alone. *)

Created(S, new) == [s \in S \cup {"none"} |-> IF s = "none" THEN {new} ELSE {s}]
From(S, after)  == [s \in S |-> after]

(* Rows of which a page only shows what they say, in two versions *)
Versions == {"old", "new"}
Rows(create, update, use, remove) ==
  [h \in create \cup update \cup use \cup remove |->
    IF h \in create THEN Created(Versions, "old")
    ELSE IF h \in update THEN From(Versions, Versions)
    ELSE IF h \in use THEN [s \in Versions |-> {s}]
    ELSE From(Versions, {"none"})]

InvoiceStatus == {"DRAFT", "SENT", "PARTIALLY_PAID", "PAID", "CANCELLED"}
InvoicesService == [
  create     |-> Created(InvoiceStatus, "DRAFT"),
  issue      |-> From({"DRAFT"}, {"SENT"}),
  addPayment |-> From({"SENT", "PARTIALLY_PAID"}, {"PARTIALLY_PAID", "PAID"}),
  cancel     |-> From({"DRAFT", "SENT"}, {"CANCELLED"})]

QuoteStatus == {"DRAFT", "SENT", "ACCEPTED", "REJECTED", "CONVERTED"}
QuotesService == [
  create  |-> Created(QuoteStatus, "DRAFT"),
  send    |-> From({"DRAFT"}, {"SENT"}),
  accept  |-> From({"SENT"}, {"ACCEPTED"}),
  reject  |-> From({"DRAFT", "SENT"}, {"REJECTED"}),
  convert |-> From({"SENT", "ACCEPTED"}, {"CONVERTED"}),
  remove  |-> From(QuoteStatus \ {"CONVERTED"}, {"none"})]

LeadStatus == {"NEW", "QUALIFIED", "CONVERTED"}
LeadsService == [
  create  |-> Created(LeadStatus, "NEW"),
  update  |-> From({"NEW", "QUALIFIED"}, {"NEW", "QUALIFIED"}),
  convert |-> From({"NEW", "QUALIFIED"}, {"CONVERTED"}),
  remove  |-> From(LeadStatus, {"none"})]

(* The first deal: its stage, and whether it is the user's own.  Only an
   administrator and a manager may write to the deals of others. *)
DealStatus == {"first", "second", "foreign"}
DealsService(role) ==
  LET Own == IF role \in {"ADMIN", "MANAGER"} THEN DealStatus ELSE {"first", "second"} IN [
  create |-> Created(DealStatus, "first"),
  update |-> [s \in Own |-> {s}],
  move   |-> [s \in Own |-> IF s = "first" THEN {"second"} ELSE IF s = "second" THEN {"first"} ELSE {s}],
  remove |-> From(Own, {"none"})]

(* "last": the last administrator who is active; neither is he made passive
   nor is his role taken away. *)
UserStatus == {"active", "passive", "last"}
UsersService == [
  create      |-> Created(UserStatus, "active"),
  update      |-> [s \in UserStatus |-> {s}],
  setStatus   |-> From({"active", "passive"}, {"active", "passive"}),
  assignRoles |-> [s \in UserStatus |-> {s}],
  assignRolesButAdmin |-> [s \in UserStatus \ {"last"} |-> {s}],
  remove      |-> From({"active", "passive"}, {"passive"})]

(* "ADMIN": the role of that name *)
RoleStatus == Versions \cup {"ADMIN"}
RolesService == [
  create            |-> Created(RoleStatus, "old"),
  update            |-> [s \in RoleStatus |-> {s}],
  assignPermissions |-> From(Versions, Versions),
  remove            |-> From(Versions, {"none"})]

(* A stage, with deals or without; "only": without, and there is no other *)
StageStatus == {"only", "empty", "used"}
PipelinesService == [
  addStage    |-> [s \in StageStatus \cup {"none"} |->
                    IF s = "none" THEN {"only", "empty"} ELSE IF s = "only" THEN {"empty"} ELSE {s}],
  updateStage |-> [s \in StageStatus |-> {s}],
  reorder     |-> [s \in StageStatus |-> {s}],
  removeStage |-> From({"empty"}, {"none"})]

(* A provider: without a row there is nothing to test or to authorise. *)
ConnectionStatus == {"pending_auth", "connected"}
ConnectionsService == [
  connect    |-> From({"none"}, ConnectionStatus),
  test       |-> [s \in ConnectionStatus |-> {s}],
  oauthStart |-> [s \in ConnectionStatus |-> {s}],
  remove     |-> From(ConnectionStatus, {"none"})]

(* One conversation: sending starts it or adds to it.  "unconnected": it is
   of a time when WhatsApp was connected, and can only be read. *)
ConversationStatus == Versions \cup {"unconnected"}
WhatsappService == [
  send   |-> [s \in Versions \cup {"none"} |-> Versions],
  thread |-> [s \in ConversationStatus |-> {s}]]

Crud == Rows({"create"}, {"update"}, {}, {"remove"})

AutomationService   == Crud
CompaniesService    == Crud
ContactsService     == Crud
CustomFieldsService == Crud
MeetingsService     == Crud
ProductsService     == Crud
BrandingService     == Rows({}, {"update"}, {}, {})
TenantsService      == Rows({"create"}, {}, {}, {})
IntegrationsService == Rows({"create"}, {}, {"test"}, {"remove"})
LeadFormsService    == Rows({"create"}, {"update"}, {"reveal", "rotate"}, {})

Services(role) == [
  automation |-> AutomationService, branding |-> BrandingService,
  companies |-> CompaniesService, connections |-> ConnectionsService,
  contacts |-> ContactsService, customFields |-> CustomFieldsService,
  deals |-> DealsService(role), integrations |-> IntegrationsService,
  invoices |-> InvoicesService, leadForms |-> LeadFormsService, leads |-> LeadsService,
  meetings |-> MeetingsService, pipelines |-> PipelinesService,
  products |-> ProductsService, quotes |-> QuotesService, roles |-> RolesService,
  tenants |-> TenantsService, users |-> UsersService, whatsapp |-> WhatsappService]

ServicesOf == [r \in DOMAIN RolePermissions |-> Services(r)]

ServiceOf(role, name) ==
  IF name \in DOMAIN ServicesOf[role] THEN ServicesOf[role][name] ELSE <<>>

(* The statuses that a row of the service can have *)
StatusesOf == [name \in DOMAIN Controllers |->
  LET S == ServiceOf("ADMIN", name) IN
  IF S = <<>> THEN {"none"} ELSE UNION {DOMAIN S[h] : h \in DOMAIN S}]

(* What call c makes of a row of the service that has status s; {}: it is
   refused *)
After(role, name, c, s) ==
  LET S == ServiceOf(role, name) IN
  IF c[1] # name \/ c[2] \notin DOMAIN S THEN {s}
  ELSE IF s \in DOMAIN S[c[2]] THEN S[c[2]][s] ELSE {}
=============================================================================
