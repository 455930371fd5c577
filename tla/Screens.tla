------------------------------ MODULE Screens ------------------------------
(***************************************************************************)
(* The pages of the frontend: what each asks the API when it is opened,    *)
(* and which buttons it offers, to whom and for which rows.  A modal       *)
(* belongs to the page that opens it; a row that is clicked to be edited   *)
(* is a button like others.  What a form asks for, and how it looks, is    *)
(* left out.                                                               *)
(***************************************************************************)
EXTENDS Api

(* A query: the call, and the permissions without which the page does not
   make it *)
Query(ctrl, handler, shown) == [call |-> <<ctrl, handler>>, shown |-> shown]

(* A button: the permissions it takes, the statuses of the row it is offered
   for (no status: it is not about a row), the calls it makes one after the
   other, whether it waits for its own last use, and whether the list is
   asked again in the end *)
Button(name, shown, on, ctrl, handlers) ==
  [name |-> name, shown |-> shown, on |-> on,
   calls |-> [i \in DOMAIN handlers |-> <<ctrl, handlers[i]>>],
   waits |-> TRUE, refreshes |-> TRUE]

Silent(b)     == [b EXCEPT !.refreshes = FALSE]
Repeatable(b) == [b EXCEPT !.waits = FALSE]

(* A page: the service whose rows it lists, by the handler; when it is asked;
   further queries; buttons *)
Page(ctrl, handler, shown, further, buttons) ==
  [service |-> ctrl, main |-> Query(ctrl, handler, shown), further |-> further,
   buttons |-> buttons]

-----------------------------------------------------------------------------
(* Slips the properties below must catch; no action uses them. *)

SidebarForAll ==                                   \* a condition lost
  [p \in {"audit", "home", "search"} |-> {}]
InvoiceButtonsForSent ==                           \* a status too many
  {Button("issue", {"invoice.update"}, {"DRAFT", "SENT"}, "invoices", <<"issue">>)}

-----------------------------------------------------------------------------
(* CrudFormModal as list pages use it: create, and edit or delete the row
   that is clicked *)
CrudButtons(ctrl, create, update, delete) == {
  Button("create", {create}, {}, ctrl, <<"create">>),
  Button("edit", {update}, Versions, ctrl, <<"update">>),
  Button("delete", {update, delete}, Versions, ctrl, <<"remove">>)}

CompaniesPage == Page("companies", "findAll", {}, {},
  CrudButtons("companies", "company.create", "company.update", "company.delete"))

ContactsPage == Page("contacts", "findAll", {},
  {Query("companies", "findAll", {"company.read"})},
  CrudButtons("contacts", "contact.create", "contact.update", "contact.delete"))

MeetingsPage == Page("meetings", "findAll", {}, {},
  CrudButtons("meetings", "meeting.create", "meeting.update", "meeting.delete"))

ProductsPage == Page("products", "findAll", {}, {},
  CrudButtons("products", "product.create", "product.update", "product.delete"))

(* A modal for all that a "manage" permission allows *)
ManageButtons(ctrl, manage) == {
  Button("create", {manage}, {}, ctrl, <<"create">>),
  Button("edit", {manage}, Versions, ctrl, <<"update">>),
  Button("delete", {manage}, Versions, ctrl, <<"remove">>)}

AutomationRuleModal == ManageButtons("automation", "automation.manage")
AutomationPage == Page("automation", "findAll", {}, {}, AutomationRuleModal)

CustomFieldModal == ManageButtons("customFields", "custom_field.manage")
CustomFieldsPage == Page("customFields", "findAll", {}, {}, CustomFieldModal)

(* LeadFormModal: the form, and the secret that embeds it *)
LeadFormSave == {
  Button("create", {"lead_form.manage"}, {}, "leadForms", <<"create">>),
  Button("edit", {"lead_form.manage"}, Versions, "leadForms", <<"update">>)}
LeadFormSecret == {
  Silent(Repeatable(Button("reveal", {"lead_form.manage"}, Versions, "leadForms", <<"reveal">>))),
  Silent(Repeatable(Button("rotate", {"lead_form.manage"}, Versions, "leadForms", <<"rotate">>)))}

LeadFormsPage == Page("leadForms", "findAll", {}, {}, LeadFormSave \cup LeadFormSecret)

(* WhatsAppSendModal: for a row, beside what the page shows *)
WhatsAppSend(on) ==
  Silent(Button("whatsapp", {"whatsapp.send"}, on, "whatsapp", <<"send">>))

(* ConvertLeadModal asks for the stages whoever opens it. *)
ConvertLead == Button("convert", {"lead.convert"}, {"NEW", "QUALIFIED"}, "leads", <<"convert">>)
ConvertLeadAsks == Query("pipelines", "list", {"lead.convert"})

LeadRowButtons == {ConvertLead, WhatsAppSend(LeadStatus)}

LeadsPage == Page("leads", "findAll", {}, {ConvertLeadAsks}, LeadRowButtons \cup {
  Button("create", {"lead.create"}, {}, "leads", <<"create">>),
  Button("edit", {"lead.update"}, LeadStatus, "leads", <<"update">>),
  Button("delete", {"lead.update", "lead.delete"}, LeadStatus, "leads", <<"remove">>)})

-----------------------------------------------------------------------------
(* The board is of the pipeline of some deal, which is asked for first. *)
DealsQueries == {Query("deals", "findAll", {})}

(* DealsBoard: a card can be dragged to another stage. *)
DealsDrag == Repeatable(Button("move", {"deal.move"}, DealStatus, "deals", <<"move">>))

(* DealEditModal opens for every card: the fields, then the stage if it was
   changed. *)
DealEditButtons == {
  Button("save", {}, DealStatus, "deals", <<"update">>),
  Button("saveMoved", {}, DealStatus, "deals", <<"update", "move">>),
  Button("delete", {"deal.delete"}, DealStatus, "deals", <<"remove">>)}

(* The form needs a board, whose first stage it takes. *)
DealForm == Button("create", {"deal.create"}, DealStatus \cup {"none"}, "deals", <<"create">>)

DealsPage == Page("deals", "board", {}, DealsQueries, DealEditButtons \cup {DealsDrag, DealForm})

InvoiceButtons == {
  Repeatable(Button("issue", {"invoice.update"}, {"DRAFT"}, "invoices", <<"issue">>)),
  Button("payment", {"invoice.update"}, {"SENT", "PARTIALLY_PAID"}, "invoices", <<"addPayment">>),
  WhatsAppSend(InvoiceStatus \ {"DRAFT"}),
  Silent(Button("sync", {"invoice.update"}, InvoiceStatus \ {"DRAFT", "CANCELLED"},
                "accounting", <<"sync">>)),
  Repeatable(Button("cancel", {"invoice.update"}, {"DRAFT", "SENT"}, "invoices", <<"cancel">>))}

InvoiceForm == Button("create", {"invoice.create"}, {}, "invoices", <<"create">>)

InvoicesPage == Page("invoices", "findAll", {}, {}, InvoiceButtons \cup {InvoiceForm})

(* The products to choose from are asked for by whoever may write a quote. *)
QuotesQueries == {Query("products", "findAll", {"quote.create"})}

QuoteButtons == {
  Repeatable(Button("send", {"quote.send"}, {"DRAFT"}, "quotes", <<"send">>)),
  Repeatable(Button("accept", {"quote.send"}, {"SENT"}, "quotes", <<"accept">>)),
  Repeatable(Button("reject", {"quote.send"}, {"SENT"}, "quotes", <<"reject">>)),
  Repeatable(Button("convert", {"quote.convert"}, {"SENT", "ACCEPTED"}, "quotes", <<"convert">>)),
  WhatsAppSend(QuoteStatus \ {"DRAFT"}),
  Repeatable(Button("delete", {"quote.delete"}, QuoteStatus \ {"CONVERTED"}, "quotes", <<"remove">>))}

QuoteForm == Button("create", {"quote.create"}, {}, "quotes", <<"create">>)

QuotesPage == Page("quotes", "findAll", {}, QuotesQueries, QuoteButtons \cup {QuoteForm})

-----------------------------------------------------------------------------
(* UserEditModal: the name, then whether the user is active if that was
   changed, then the roles if they could be loaded: with ADMIN among them, or
   without *)
UserEditAsks(p) == Query("roles", "findAll", {"user.update", p})

UserEditButtons == {
  Button("save", {"user.update"}, UserStatus, "users", <<"update">>),
  Button("saveStatus", {"user.update"}, UserStatus, "users", <<"update", "setStatus">>),
  Button("saveRoles", {"user.update", "role.assign", "role.read"}, UserStatus, "users",
         <<"update", "assignRoles">>),
  Button("saveAll", {"user.update", "role.assign", "role.read"}, UserStatus, "users",
         <<"update", "setStatus", "assignRoles">>),
  Button("saveDemoted", {"user.update", "role.assign", "role.read"}, UserStatus, "users",
         <<"update", "assignRolesButAdmin">>),
  Button("saveAllDemoted", {"user.update", "role.assign", "role.read"}, UserStatus, "users",
         <<"update", "setStatus", "assignRolesButAdmin">>),
  Button("delete", {"user.update", "user.delete"}, UserStatus, "users", <<"remove">>)}

UsersPage == Page("users", "findAll", {},
  {UserEditAsks("role.read"), UserEditAsks("role.assign")},
  UserEditButtons \cup {Button("create", {"user.create"}, {}, "users", <<"create">>)})

(* RoleModal: the description, then the permissions *)
RoleButtons == {
  Button("create", {"role.create"}, {}, "roles", <<"create">>),
  Button("save", {"role.update"}, RoleStatus, "roles", <<"update", "assignPermissions">>),
  Button("delete", {"role.update", "role.delete"}, RoleStatus, "roles", <<"remove">>)}

RolesPage == Page("roles", "findAll", {}, {}, RoleButtons)

(* A stage is moved past another one. *)
PipelineButtons == {
  Button("add", {"pipeline.manage"}, StageStatus \cup {"none"}, "pipelines", <<"addStage">>),
  Repeatable(Button("patch", {"pipeline.manage"}, StageStatus, "pipelines", <<"updateStage">>)),
  Button("move", {"pipeline.manage"}, StageStatus \ {"only"}, "pipelines", <<"reorder">>),
  Repeatable(Button("remove", {"pipeline.manage"}, StageStatus, "pipelines", <<"removeStage">>))}

PipelinePage == Page("pipelines", "list", {}, {}, PipelineButtons)

ConnectForm == Button("connect", {"integration.manage"}, {"none"}, "connections", <<"connect">>)

ConnectionsButtons == {
  Silent(Button("test", {"integration.manage"}, ConnectionStatus, "connections", <<"test">>)),
  Silent(Button("authorize", {"integration.manage"}, {"pending_auth"}, "connections",
                <<"oauthStart">>)),
  Repeatable(Button("remove", {"integration.manage"}, ConnectionStatus, "connections",
                    <<"remove">>))}

ConnectionsPage == Page("connections", "list", {}, {Query("connections", "catalog", {})},
  ConnectionsButtons \cup {ConnectForm})

(* The deliveries of a webhook, when it is unfolded *)
IntegrationsQueries == {Query("integrations", "deliveries", {"integration.manage"})}

IntegrationsButtons == {
  Button("create", {"integration.manage"}, {}, "integrations", <<"create">>),
  Silent(Button("test", {"integration.manage"}, Versions, "integrations", <<"test">>)),
  Repeatable(Button("remove", {"integration.manage"}, Versions, "integrations", <<"remove">>))}

IntegrationsPage == Page("integrations", "list", {}, IntegrationsQueries, IntegrationsButtons)

(* The inbox asks for conversations and thread again and again; Enter sends
   without waiting, and also what is not connected. *)
WhatsAppPage == Page("whatsapp", "conversations", {},
  {Query("whatsapp", "status", {}), Query("whatsapp", "thread", {})},
  {Repeatable(Button("send", {"whatsapp.send"}, ConversationStatus, "whatsapp", <<"send">>))})

TenantsPage == Page("tenants", "list", {}, {},
  {Button("create", {}, {}, "tenants", <<"create">>)})

BrandingPage == Page("branding", "get", {}, {}, {
  Button("save", {"branding.manage"}, {}, "branding", <<"update">>),
  Button("reset", {"branding.manage"}, {}, "branding", <<"update">>)})

-----------------------------------------------------------------------------
(* Pages that list nothing that can be changed there *)

AuditPage  == Page("audit", "list", {}, {}, {})
SearchPage == Page("search", "search", {}, {}, {})

AiPage == Page("ai", "status", {}, {}, {
  Silent(Button("draft", {}, {}, "ai", <<"draftEmail">>)),
  Silent(Button("summarize", {}, {}, "ai", <<"summarize">>))})

(* There is no query; the page is there for the two buttons. *)
DataPage == Page("data", "export", {"no query"}, {}, {
  Silent(Repeatable(Button("export", {"data.export"}, {}, "data", <<"export">>))),
  Silent(Button("import", {"data.import"}, {}, "data", <<"import">>))})

HomeQueries ==
  {Query("reports", h, {"deal.read"}) : h \in {"wonLost", "dealsSummary"}} \cup
  {Query("reports", h, {"invoice.read_financial"}) : h \in {"invoicesSummary", "revenueMonthly"}}

HomePage == Page("reports", "forecast", {"deal.read"}, HomeQueries, {})

ReportsQueries ==
  {Query("deals", "findAll", {})} \cup
  {Query("reports", h, {}) :
     h \in {"pipeline", "dealsSummary", "wonLost", "salesByOwner", "topProducts"}} \cup
  {Query("reports", h, {"invoice.read_financial"}) : h \in {"revenueMonthly", "invoicesSummary"}}

ReportsPage == Page("reports", "forecast", {}, ReportsQueries, {})

Pages == [
  ai |-> AiPage, audit |-> AuditPage, automation |-> AutomationPage, branding |-> BrandingPage,
  companies |-> CompaniesPage, connections |-> ConnectionsPage, contacts |-> ContactsPage,
  customFields |-> CustomFieldsPage, data |-> DataPage, deals |-> DealsPage, home |-> HomePage,
  integrations |-> IntegrationsPage, invoices |-> InvoicesPage, leadForms |-> LeadFormsPage,
  leads |-> LeadsPage, meetings |-> MeetingsPage, pipeline |-> PipelinePage,
  products |-> ProductsPage, quotes |-> QuotesPage, reports |-> ReportsPage,
  roles |-> RolesPage, search |-> SearchPage, tenants |-> TenantsPage, users |-> UsersPage,
  whatsapp |-> WhatsAppPage]

-----------------------------------------------------------------------------
(* Where the sidebar leads: any of the permissions will do, none is needed
   for the rest. *)
Sidebar == [
  home |-> {}, leads |-> {"lead.read"}, leadForms |-> {"lead_form.read"},
  deals |-> {"deal.read"}, pipeline |-> {"pipeline.read"}, contacts |-> {"contact.read"},
  companies |-> {"company.read"}, meetings |-> {"meeting.read"},
  whatsapp |-> {"whatsapp.read"}, products |-> {"product.read"}, quotes |-> {"quote.read"},
  invoices |-> {"invoice.read"}, reports |-> {"deal.read"}, ai |-> {"ai.use"},
  data |-> {"data.export", "data.import"}, automation |-> {"automation.read"},
  customFields |-> {"custom_field.read"}, connections |-> {"integration.read"},
  integrations |-> {"integration.read"}, audit |-> {"audit.read"}, roles |-> {"role.read"},
  tenants |-> {"platform.tenant.manage"}, users |-> {"user.read"},
  branding |-> {"branding.manage"}]

(* Topbar: anyone may search. *)
SearchBox == [search |-> {}]

(* The shortcuts of the home page *)
HomeLinks == [
  deals |-> {"deal.read"}, leads |-> {"lead.read"}, leadForms |-> {"lead_form.read"},
  quotes |-> {"quote.read"}, invoices |-> {"invoice.read"}, reports |-> {"deal.read"},
  pipeline |-> {"pipeline.read"}]

(* The inbox, as long as WhatsApp is not connected, whoever reads it *)
InboxLinks == [connections |-> {"whatsapp.read"}]

Leads(menu, p, perms) ==
  p \in DOMAIN menu /\ (menu[p] = {} \/ menu[p] \cap perms # {})

Reachable(p, perms) ==
  \E menu \in {Sidebar, HomeLinks, SearchBox, InboxLinks} : Leads(menu, p, perms)

Asked(p, perms)  == {q \in Pages[p].further \cup {Pages[p].main} : q.shown \subseteq perms}
Offered(p, perms, shows) ==
  {b \in Pages[p].buttons : b.shown \subseteq perms /\ (b.on = {} \/ shows \in b.on)}

(* What of the permissions the page looks at, or its calls *)
Relevant == [p \in DOMAIN Pages |->
  UNION {q.shown \cup Needs(q.call) : q \in Pages[p].further \cup {Pages[p].main}} \cup
  UNION {b.shown \cup UNION {Needs(b.calls[i]) : i \in DOMAIN b.calls} : b \in Pages[p].buttons}]
=============================================================================
