# A TLA+ model of the CRM

This directory holds the formal model of the CRM in `src/`: TLA+ modules of
its stateful parts, TLC runs that check them on small instances, and TLAPS
proofs of what holds for every instance. `PROJECT.json` is the index: it maps
each definition to the lines it models and lists the runs, the mutants that
show each property can fail, the hazards, the findings and the theorems.

    tlc -workers 2 -config MCInvoices.cfg MCInvoices.tla     one run
    tlapm InvoicesProofs.tla                                 the proofs

## 1. The system

A NestJS backend (`src/backend`) over one Postgres database through Prisma, and
a Next.js frontend (`src/frontend`) that calls it. One Node process serves all
requests. Each backend module is controller → service → repository: the
controller checks role and permission and validates the DTO, the service holds
the rules, the repository is the only place with queries.

**How a request runs.** A service method is an async function. Between two
`await`s it runs alone; at each `await` other requests run. The usual shape is

    row = await repo.find(id)      -- read
    if (row.status !== ...) throw  -- check
    await repo.write(id, ...)      -- one statement or one $transaction
    events.emit(...)               -- in memory, after the commit

No query takes a row lock, no write repeats the check in its `where` clause, and
Postgres runs at READ COMMITTED. What is checked may no longer hold when
the write comes. This is the main difficulty of the code, and the models put a
step boundary at each such `await`. A `$transaction` commits as a whole or leaves
nothing, and is one step where the row locks of its writes make it one.

**How components interact.** Through rows (a quote's conversion inserts an
invoice, a lead's conversion a contact, a company and a deal), through
`EventEmitter2` events (`deal.*`, `quote.*`, `invoice.*` → webhooks,
automation), and through external HTTP services (webhook receivers, OAuth
providers, ledgers, WhatsApp). Events have no outbox: what is not emitted when
the process dies is never emitted.

### Inventory

| Part (`backend/src/modules`) | State | Operations | Hard behaviour | Correct means |
|---|---|---|---|---|
| `invoices` | Invoice, InvoiceLineItem, Payment, InvoiceCounter | create, update, issue, payments, cancel | overlapping payments, issues, edits; failed transaction; restart before the event | numbers unique and gap-free, books match payments, only drafts change |
| `quotes` | Quote, lines, QuoteCounter, Invoice | create, update, send, accept, reject, convert, delete | status overwritten after conversion; delete against convert; two conversions | a quote is billed once, for its own total, and linked to its invoice |
| `auth` | RefreshToken, User.isActive | login, refresh, logout | rotation in three statements, reuse sweep racing a rotation, failures in between | one successor per token, reuse revokes what existed |
| `integrations` | WebhookSubscription, WebhookDelivery, ProcessedWebhook | dispatchEvent, processDuePending, handleInbound, testWebhook | timeouts, late and repeated requests, overlapping workers, restarts | attempts are counted, the receiver acts once, SUCCESS means it acted |
| `deals`, `pipelines` | Deal, Stage, DealActivity | create, update, move, assign, remove; add, reorder, remove stages | ranks computed from stale neighbours; a stage removed while a deal moves in | order is total, a deal is in a stage of its pipeline, the log ends where the deal is |
| `leads`, `lead-forms` | Lead, LeadForm | create, update, convert, submit, ingestWebhook | two conversions; an edit checked before a conversion and written after it; intake counted in a second statement | a lead becomes one deal |
| `users`, `roles` | User, UserRole, Role | assignRoles, setStatus, remove; permissions | count-then-write on the last administrator | an active administrator remains |
| `connections` | Connection (secrets and config, each replaced as a whole) | connect, update, remove, start, callback, getFreshAccessToken | two refreshes of a token that the provider rotates; a callback delivered twice; lost answers | the stored refresh token is one the provider honours; what says connected can be used |
| `accounting` | AccountingSync | syncInvoice | lost answers, repeated pushes, an invoice cancelled meanwhile | what is called SYNCED is in the ledger, once |
| `contacts`, `companies`, `data`, `gdpr` | Contact, Company, Deal references | create, update, remove, import, merge, erase | references without foreign key, chains of merges, an import beside other requests | a deal follows its contact; an import adds no duplicate |
| tenancy (`common/tenant`, `prisma`) | tenantId of rows and of the token | query middleware | requests bound to no tenant; references across tenants | a request sees its tenant's rows |
| `automation`, mail | AutomationRule, DealActivity, EmailLog | rules; the run an event starts | one failing action among several; rules changed during the run | a rule's actions run when its conditions hold |
| `whatsapp` | WhatsAppMessage | send, inbound | redelivered payloads, lookups before the write | what was acknowledged is stored, in the sender's tenant |
| `products`, `custom-fields`, `meetings`, `branding`, `tenants` | single rows | create, read, update, delete | — | a page offers what the API grants |
| `reports`, `search`, `ai`, `audit` | none others rely on | reads, logging, external calls | which permissions a page needs for its queries | who reaches a page is answered |
| frontend | token in local storage, cache of the list, saves in flight | pages over the API | a token that expires, answers overtaken by saves, a role edited meanwhile | the list is current, no button the API refuses |

`PROJECT.json` lists each hazard at its line and the properties that would
notice it going wrong; where these exclude a case, or there are none, a note says what and why.

## 2. Modules

| Module | What it is |
|---|---|
| `InvoiceContract` | one invoice with every operation atomic: the life cycle the README of the system promises |
| `Invoices` | the invoice service and its rows, request by request; implements `InvoiceContract` |
| `QuoteContract` | one quote with every operation atomic |
| `Quotes` | the quote service, conversion included; implements `QuoteContract` |
| `Sessions` | refresh tokens of one user: login, rotation, reuse detection, logout, deactivation |
| `Webhooks` | outbound delivery with retries, composed with the inbound endpoint as its receiver |
| `Kanban` | the board: deals, stages and pipelines, ranks and the activity log |
| `Leads` | leads, intake forms and the conversion of a lead |
| `Accounts` | users, roles, permissions and the last administrator |
| `Connections` | connections, the OAuth protocol and its tokens, the push of an invoice to a ledger |
| `Directory` | contacts, companies, the deals that point to them; import, merge, erasure; the tenant of each query |
| `Messaging` | extends `Directory`: WhatsApp messages both ways and automation rules over the same contacts |
| `Permissions` | permissions, the installed roles, the guard of the controllers |
| `Api` | extends `Permissions`: the handlers of the controllers, what they require, what the services do to the status of a row |
| `Screens` | extends `Api`: the pages of the frontend, their queries and buttons, the menu |
| `Client` | extends `Screens`: one browser tab against the API |
| `MC*` | values of the constants for TLC |
| `InvoicesProofs`, `QuotesProofs`, `SessionsProofs`, `WebhooksProofs`, `LeadsProofs`, `AccountsProofs`, `ConnectionsProofs`, `MessagingProofs` | theorems about the module of the name, and their proofs; `MessagingProofs` covers `Directory` too, `LeadsProofs` the board (`Kanban`), `SessionsProofs` the tab (`Client` with the tables it stands on) |

`Permissions`, `Api`, `Screens` and `Directory` are checked as part of the
module at the end of their chain. `Kanban` and `Client` share no name with `Leads` and
`Sessions`, so that one module can extend both: what is `Init`, `Spec`, `TypeOK`
elsewhere is `BoardInit`, `BoardSpec`, `BoardTypeOK` and `TabInit`, `TabSpec`, `TabTypeOK`.

### Conventions

- A handler `h` holds in `req[h]` what the code holds in local variables across
  an `await`. `Decide…` actions are the read and the checks; the actions under
  `Commit` are the writes, named like the repository methods; `Done` and
  `Emit…` are what follows. `WriteFails` is a transaction that fails,
  `Crash` the death and restart of the process: `req` is lost, rows stay. In `Kanban` it is
  `job[h]`, with `JobFails`.
- Uuids are model values, or numbers taken in order where they only need to be
  new. Amounts are small integers for the code's `Decimal`s, which neither round
  nor overflow in the ranges used. DTO validation shapes the sets the inputs
  come from.
- History variables record what a property needs to remember and no guard
  reads them except to bound the state space. `contended` holds the rows on which two
  writers overlapped: a handler decided on the row while another
  one was about to write it. The code has no protection there (see Findings), so
  the strongest properties are stated for the other rows, and
  `MaxContended = 1` still lets a contended row exist beside one that is not.
- Each module begins with a few "slips": mutated forms of a definition, used by
  no action. Putting one in the place of its original must break a property.

### Invoices

| Action | Code (`invoices.service.ts`, `invoices.repository.ts`) |
|---|---|
| `Create` | `create`: one insert |
| `DecideUpdate`, `ReplaceDraft` | `update` |
| `DecideIssue`, `IssueWithNumber`, `EmitEvent` | `issue`: counter and row in one transaction, then `invoice.issued` |
| `DecidePay`, `AddPayment`, `EmitEvent` | `addPayment`: amount and status computed from the row as read, then `invoice.paid` |
| `DecideCancel`, `CancelInvoice` | `cancel` |

The counter is incremented by `INSERT … ON CONFLICT … RETURNING`, which reads and
writes in one statement: `NextSeq` is evaluated in the write step. The year is
read from the clock before the transaction, so an issue may straddle `NewYear`.

### Quotes

`DecideConvert` copies the quote as read (its total) into the decision;
`ConvertToInvoice` inserts the invoice, marks the quote and links it in one
transaction. `SetStatus` is what `accept` and `reject` write, whatever the row
has become. A write to a row deleted meanwhile fails (Prisma P2025) and rolls
back: `Found`.

### Sessions

Each database call of `refresh` is a step: the token row (`Refresh`,
`RefreshReused`), the user (`FindUser`), `RevokeRefreshToken`,
`CreateRefreshToken` with the placeholder hash, `UpdateRefreshTokenHash`. No two share
a transaction, and any may fail. The response can be lost: `held` then lacks a
token that exists. Every token that ever left the server may be presented again
at any time; `Suspicious` is the code's test.

### Webhooks

A sender (`dispatchEvent` or a call of `processDuePending`) takes its list first and
goes through it, one POST at a time. The receiver is modelled from
`handleInbound`: look up the key, serve, insert the key. The sender's timeout
leaves the request in `late`, to be served later. `RecordFails` follows the
try/catch of the worker, which turns a failed update after a good answer into a
recorded failure.

### Kanban

| Action | Code (`deals.service.ts`, `pipelines.service.ts` and their repositories) |
|---|---|
| `StartCreate`, `PlaceAtBottom`, `InsertDeal` | `create`, and the deal that a lead's conversion inserts |
| `StartMove`, `PlaceAtBottom` or `PlaceBetween`, `ApplyMove` | `move`: checks, ranks of the neighbours, one transaction with the activity |
| `StartAssign`, `SetOwner`; `StartRemove`, `SoftDelete` | `assign`, `remove` |
| `StartAddStage`, `CreateStage`; `StartUpdateStage`, `UpdateStage` | `addStage`, `updateStage` |
| `StartReorder`, `Reorder`; `StartRemoveStage`, `DeleteStage` | `reorderStages`, `removeStage` |

Ranks are counted in units of the last decimal place of the column, and `RankGap` is the
code's step of 1. The service computes them as doubles: `Number(rank)`, the step and the mean
each yield some number within `Precision` units of the exact one, so the operators that
compute a rank return the set of what it may be. `MinGap` is the distance below which
`needsRebalance`, which nothing calls, would ask for new ranks; `RankGap` is so small that
halving gets there after a move or two, as it does in the code after some thirty. The
reads of the two neighbours are one step. History: `overlapped` is what `contended` is
elsewhere, `crowded` the stages where a rank was computed from something else than the true
neighbours, from neighbours closer than `MinGap`, or beside another request, `reflagged` the stages whose won/lost flags were edited (the code leaves the deals in them as they are).

### Leads

| Action | Code (`leads.service.ts`, `lead-forms.service.ts` and their repositories) |
|---|---|
| `Create`, `Remove` | `create`, `remove`: one statement decides |
| `DecideUpdate`, `UpdateLead` | `update` |
| `DecideConvert`, `ConvertLead` | `convert`: its first query, and its writes with the commit |
| `CreateForm`, `UpdateForm`, `RemoveForm` | the same names in `LeadFormsService` |
| `Submit`, `IngestWebhook`, `CreateFromIntake`, `IncrementSubmit` | the two public endpoints and `ingest` |

`convert` is one transaction and yet two steps: at READ COMMITTED its first query
fixes nothing, and other requests commit before it writes. A deal stands for the
contact and company inserted with it; where it lands on the board is in `Kanban`.
`Fails` is any error between two statements, a restart included. `contended` is
narrower than elsewhere: two edits of a lead may overlap, a conversion and
another write may not.

### Accounts

| Action | Code (`users.service.ts`, `roles.service.ts` and their repositories) |
|---|---|
| `StartCreate`, `InsertUser`; `Activate` | `create`; `setStatus(true)` |
| `StartAssign`, `AssertNotLastAdmin`, `DeleteRoles`, `ReplaceRoles` | `assignRoles` |
| `StartDeactivate`, `AssertNotLastAdmin`, `Deactivate` | `setStatus(false)`, `remove` |
| `CreateRole`, `RemoveRole` | `create`, `remove` |
| `StartPermissions`, `DeletePermissions`, `ReplacePermissions` | `assignPermissions` |

`Someone(p)` is the guard chain: some active user has the permission when the
request begins; what the user loses later does not stop the request. This is the one
transaction modelled in two steps: deleting what is there and inserting a list is not
atomic at READ COMMITTED, so a replacement remembers in `alone` whether another
one committed since its snapshot; if so, those rows stay. `raced` becomes true when the
set of active administrators changes while a request is under way that will take
the role away or deactivate somebody.

### Connections

| Action | Code (`connections.service.ts`, `oauth.service.ts`, `accounting.service.ts`) |
|---|---|
| `StartConnect`, `InsertRow`; `StartUpdate`, `UpdateRow`; `Remove` | `connect`, `update`, `remove` |
| `StartAuthorize`, `SaveState` | `start`: a new state in the config |
| `Callback`; `CodeAccepted`, `StoreTokens`; `CodeRefused`, `ClearState` | `callback`: the row of the state, the exchange of the code, the two writes it may end in |
| `AskFresh`; `AskToRefresh`, `TokenRefreshed` or `RefreshRefused`, `SaveTokens` | `getFreshAccessToken` |
| `StartSync`, `CreateCustomer`, `CreateDocument`, `DocumentRefused`, `UpsertSync`, `UpsertFails` | `syncInvoice` with `pushQuickBooks` and `pushXero` |
| `AccessExpires`, `InvoiceMoves` | time; the invoice service |

`secretsEnc` and `config` are read before an HTTP call and replaced as a whole
after it: the action that reads keeps the copy in `req`. The provider is
modelled from how the code uses it: a refresh token is good until it is
rotated, a code once. It may name no company (`params[key]`) and give no refresh
token (`?? ''`): a row can be connected and yet unusable, and `GrantIsKept` says instead
that no write loses what a callback brought. A push asks for a token twice (to choose the provider, and
again before the call), and reads the invoice before both. History:
`disturbed` rows that two requests held, or whose rotated token was lost; `patched`
rows edited by hand; `doubled` invoices whose push was repeated for a reason
the code cannot see.

### Directory and Messaging

| Action | Code |
|---|---|
| `StartCreate`, `Create`; `StartUpdate`, `Update`; `Remove` | the services of contacts and of companies, which are alike: a record has a `kind` |
| `Convert` | `LeadsRepository.convert`, which creates what a deal points to |
| `StartImport`, `ImportLooksUp`, `ImportCreates` | `DataService.importContacts`, `importCompanies`, row by row |
| `StartMerge`, `Merge`; `StartErase`, `Erase` | `DataService.merge…`, `GdprService.eraseContact`: checks, then one transaction |
| `StartSend`, `Post`, `Store` | `WhatsAppService.send`: lookup of the contact and POST, then the row |
| `Deliver`, `InboundLinks`, `InboundStores`, `Acknowledge` | `handleInbound`: message after message, then the 200 |
| `CreateRule`, `UpdateRule`, `RemoveRule` | `AutomationService` |
| `Event`, `RunReads`, one action for each kind of rule action, `RunEnds` | `AutomationEngine`: rules found, actions performed one by one with their failures caught |

`Sees(ctx, row)` is the Prisma middleware: with a tenant, rows of that tenant;
without one, all rows. Inbound messages come without a tenant. A `contactId` or `leadId` that the caller of a
send names is stored unread, and a send then looks nobody up; `found` marks the messages
whose contact the service looked up. Deals refer
to contacts and companies by plain columns, contacts to companies by a foreign
key that clears itself. `heir` follows, beside the code, where each
merge or erasure should have moved a reference; `DealsFollow` compares. `mixed` holds the
records into which one of another tenant was merged: the references that
a tenant's request does not see stay where they were. `seen` holds the rows that an
import's lookup went over, `compared` keeps them with the row that it then creates.

### Permissions, Api, Screens, Client

| Definition | Code |
|---|---|
| `AllPermissions`, `RolePermissions`, `FormPermissions`, `CanActivate` | `permission.enum.ts`, the list of the role form in `permissions.ts`, `PermissionsGuard` |
| one record per controller in `Api`, `ServiceOf` | `@RequirePermissions` of each handler; status checks and writes of each service |
| one `…Page`, `…Buttons`, `…Queries` per page or modal in `Screens` | the `can(…)`, status conditions and calls in `app/**/page.tsx` and `components/organisms` |
| `Sidebar`, `SearchBox`, `HomeLinks`, `InboxLinks` | what leads to which page: the menu, the search box, the shortcuts, a link of the inbox |
| `SignIn`, `LoadMe`, `SignOut`, `Rejected` | `auth.tsx`, the interceptor of `api.ts` |
| `Open`, `ReadServed`, `ReadAnswered`, `ReadLost`, `Reask`, `Poll` | react-query as `providers.tsx` configures it |
| `Press`, `SaveServed`, `SaveAnswered`, `SaveFails` | the buttons, and `onSuccess` and `onError` of their mutations |
| `OthersWrite`, `EditRole` | other users |

A page has one row, of which the model knows a status; the tab shows the status of
its last answer. A save is `fair` while the tab is right about its
permissions and the row, and only a refused fair save counts as a surprise.
Messages, AI drafts and pushes to a ledger that other pages than the inbox start are never refused in the model:
they leave the row of the page as it is.
`Open` starts afresh: a tab leaves a page in the model only when nothing is
pending and the list is right, since what it leaves is forgotten.

## 3. Runs

| Run | Checks | Bounds |
|---|---|---|
| `invoices` | type, `NumbersAreUnique`, `NumbersHaveNoGap`, `BooksMatchPayments`, implementation of `InvoiceContract`, `IssueIsAnnounced` | 2 handlers, 2 invoices, totals 0 and 2, amounts 0–2, 2 years, 1 contended row, 1 crash |
| `quotes` | type, `LinkIsSound`, `BilledOnce`, implementation of `QuoteContract`, `ConversionIsAnnounced` | 2 handlers, 2 quotes, 2 invoices, totals 1 and 2, 1 contended, 1 crash |
| `quotes_billed_twice` | finds `OneInvoicePerQuote` violated | same |
| `sessions` | type, `RotatedOnce`, `ReuseRevokesWhatExisted`, `ReuseIsPunished` | 2 requests, 3 token rows, 1 overlapped token, any number of failures and crashes |
| `webhooks` | type, `PostsAreCounted`, `ProcessedOnce`, `EveryoneIsServed` | 1 event, 2 subscriptions, 1 dispatcher, 2 workers, 2 attempts, 2 posts, 1 fault |
| `webhooks_backoff` | finds `FirstRetryAfterAMinute` violated | 1 subscription, 1 worker |
| `kanban` | type, `OrderIsTotal`, `LogTellsTheStory` | 2 handlers (symmetric), a seller, 2 pipelines with 3 stages and 1, 3 deals, a gap and a minimum of 6 units, ranks that miss by up to 1, 3 requests |
| `leads` | type, `ConvertedOnce` | 2 handlers (symmetric), 2 leads, 2 deals, 1 form, 1 contended lead, any number of failures |
| `accounts` | type, `NoLockout` | 2 handlers (symmetric), 2 users, ADMIN and a role to be created, 2 lists of permissions |
| `connections` | type, `TokenIsLive`, `GrantIsKept`, `OneDocument` | 2 handlers (symmetric), 4 requests, 2 rows, 3 providers, 1 invoice, 2 OAuth states, 3 grants, 1 expiry |
| `messaging` | type, `DealsFollow`, `ImportAddsNoDuplicate`, `LinksStayInTenant`, `AckedIsStored`, `NoActionSkipped` | 2 handlers (symmetric), 3 requests, one of them possibly without a tenant, 4 records, 2 deals, 1 phone number, 2 rules, an import of 2 rows, a payload of 3 messages |
| `client` | type, `NoSurprise`, `MenuLeadsToAnswers`, `ShownIsCurrent` | 5 roles, 25 pages with their real buttons, 2 saves in flight, 1 edit of the role |

Why these bounds. The races of this code are between two requests on one
row, and the rows are independent except for the yearly counter, so two requests
and two rows show a race and a bystander. Totals 0 and 2 with amounts up to 2
give an invoice that is paid when issued, paid at once, and paid in two parts. Three token
rows allow a login, its rotation and one more. A backoff table of two entries
makes the second attempt the last one. In `kanban` a gap of 6
units leaves room for a card between two, whichever way the four roundings of a unit fall, and none for the
next; a seller who can be taken off a deal meets the check of ownership both ways. Four requests on connections are
a failed push, its repetition and a callback in between; a connected row and
three grants leave two to be rotated. Three requests in `messaging` are a chain of two (merge, then
erase) beside a third, on initial rows that are a contact with a company and a deal; the payload
has a message without sender between two with one. In `client` the second save in flight
is the one that the answer to the first may overtake; after an edit of the
role one save is left. `kanban` and `messaging` have about 1.1 and 2.0 million states,
the others less than 0.8.

Handlers are symmetric only in runs without liveness. `CHECK_DEADLOCK FALSE` is set where a
quiet system, in which no client asks for anything and the bounds are used up,
simply stops; `client` is checked for deadlock.

**Fairness.** Weak fairness on the steps of a handler that has started, in
`Invoices`, `Quotes`, `Sessions` and `Webhooks`: Node
resumes an async function once the awaited query or request settles, and the
HTTP client gives up after `TIMEOUT_MS`. Whether a step succeeds or fails is not
constrained. No fairness is assumed for clients, for
restarts, or for `processDuePending`: nothing in the code schedules it, and so
there is no property that a failed delivery is eventually retried.

### Findings

Two runs show behaviour that the documentation rules out:

- `OneInvoicePerQuote`: two conversions that overlap each create an invoice.
- `FirstRetryAfterAMinute`: the backoff table is indexed with the attempts made,
  so the first retry waits five minutes, not one, and the first entry is never
  used.

The other models reach more of the same kind. The properties name these
cases and exclude them, with the history variables that recognise them. Of the races in
this list the runs and proofs therefore say that the code loses nothing *else* in them; they
are no evidence that the code withstands them, and it does not:

- two payments that overlap both pass the overpayment guard, and two issues of one invoice
  take two numbers, of which one is on no invoice (`contended`);
- a move beside another request in its column, or between cards that are not neighbours any
  more or too close, may give two cards one rank (`crowded`); a move of a deal that another
  request holds logs a stage it is no longer in (`overlapped`);
- two overlapping uses of one refresh token are both answered with a new token,
  and no session is revoked (`overlapped`); an account deactivated during a
  login still gets tokens;
- two conversions of a lead, or a conversion and an edit, that overlap leave two
  deals or a lead that can be converted again (`contended`);
- two removals of the last two stages leave a pipeline without any; two
  replacements of one user's roles leave the union; a demotion that looked
  before the last administrator changed goes through (`raced`);
- a refresh that races another, or whose answer is lost, leaves a refresh token
  that the provider no longer takes (`disturbed`); a callback delivered twice may
  erase the QuickBooks company just stored (`disturbed`);
- a row is connected although the provider named no company or gave no refresh token
  (`oauth.service.ts:149`, `:157`); every push or refresh then fails;
- a push whose answer was lost, or that is run on an invoice already SYNCED, bills a
  second time (`doubled`);
- a row that another request writes between an import's lookup and its insert is not among
  those it looked over (`compared`), and may be the like of what it inserts;
- a message is stored with the contact that the caller names, which is not looked up
  (`whatsapp.service.ts:238-240`): it may be gone, or not the tenant's. `LinksStayInTenant`
  is about the contacts that the service looks up (`found`);
- a merge into a record that was deleted after the lookup moves the deals to what is gone, and
  `heir` moves with them: `DealsFollow` asks that all of them go where the merge says, not that
  this is still a row;
- removing a contact or a company detaches no deal; a merge across tenants, by a user
  without one, and a later merge in the tenant of the target leave references of other
  tenants behind (`mixed`).

About the frontend, beside the gaps that `Client` lists (`GuardGaps`,
`ServiceGaps`, `QueryGaps`, each a button or query that some role is offered
and the API refuses: among them the last administrator, whom the modal offers to make
passive or to deny the role, the only stage, which the pipeline page offers to remove, and
sending without a connection. The second and the third query gap take roles that the run does
not make):

- `permissions.ts:2` says that it matches the backend's enum exactly; it lacks
  `lead_form.*`, `pipeline.*`, `branding.manage` and `whatsapp.*`, so the role form
  cannot grant these (`FormPermissions`);
- the page of leads asks for the stages of whoever has `lead.convert`, and the API
  for `pipeline.read`. Every installed role has both, but a role made with the form
  cannot have the second. No run shows this one: the proof found it, being
  about every set of permissions;
- the inbox, as long as WhatsApp is not connected, links whoever reads it to the connections,
  whose queries refuse a salesman (`LinkGap`);
- an answer to the first request for a list, served before a save and arriving
  after it, stays on the page (`Reask` sets `behind`);
- a save of several calls that fails in a later one does not ask for the list;
- no code assigns the statuses OVERDUE of an invoice and EXPIRED of a quote; a
  meeting's update does not compare its times as its creation does.

The other side is as informative: the passing runs show that numbers stay unique
under any overlap, and have no gap unless two requests issue one invoice at once, that a status overwritten after a conversion cannot bill
a quote again, that the receiver acts once whatever the network does, that a
chain of merges and erasures takes the deals along, that an
acknowledged message is stored whatever failed before, and that
outside the overlaps named above every row follows its contract.

## 4. Proofs

Every invariant of a passing run is proved for all values of the constants, and so
are both refinements.

| Property | Theorem | In |
|---|---|---|
| `TypeOK` | `TypeCorrect` | each of the eight modules, about the one it is named for |
| `NumbersAreUnique`, `NumbersHaveNoGap`, `BooksMatchPayments` | `NumbersUnique`, `NoGaps`, `BooksAreRight` | `InvoicesProofs` |
| `ImplementsContract` | `ImplementsTheContract` | `InvoicesProofs`, `QuotesProofs` |
| `BilledOnce`, `LinkIsSound` | `BilledAtMostOnce`, `LinksAreSound` | `QuotesProofs` |
| `RotatedOnce`, `ReuseRevokesWhatExisted` | `RotatesOnce`, `ReuseRevokesAll` | `SessionsProofs` |
| `ProcessedOnce`, `PostsAreCounted` | `ActsOnce`, `EveryPostIsCounted` | `WebhooksProofs` |
| `ConvertedOnce` | `ConvertsOnce` | `LeadsProofs` |
| `BoardTypeOK`, `OrderIsTotal`, `LogTellsTheStory` | `BoardTyped`, `BoardOrder`, `BoardStory` | `LeadsProofs` |
| `TabTypeOK`, `NoSurprise`, `MenuLeadsToAnswers`, `ShownIsCurrent` | `TabTyped`, `OfferIsGood`, `MenuIsHonest`, `ShowsTheRow` | `SessionsProofs` |
| `NoLockout` | `AdministratorRemains` | `AccountsProofs` |
| `TokenIsLive`, `GrantIsKept`, `OneDocument` | `StoredTokenIsLive`, `GrantsAreKept`, `BilledOutsideOnce` | `ConnectionsProofs` |
| `DealsFollow`, `ImportAddsNoDuplicate` | `DealsFollowMerges`, `ImportsAddNoDuplicate` | `MessagingProofs` |
| `LinksStayInTenant`, `AckedIsStored`, `NoActionSkipped` | `LinksAreConfined`, `AnsweredIsStored`, `NothingSkipped` | `MessagingProofs` |

Hardly one of these is inductive by itself. Each proof module states the invariant that is,
shows that `Init` implies it and that every action preserves it, one lemma or step per
action, and derives the theorems with PTL. TLC checked the invariants on
the instances of the runs before they were proved.

The invariants have a common shape: a conjunct for what a request holds
between two of its steps, because that is where the code acts on what it read
before. What they say, beside the types:

- **Invoices**, `RaceInv`: what survives any race. A number is at most the counter of
  its year, so the next one is new; `amountPaid` is at most the recorded
  payments, and so is what a payment in flight will write. `SerialInv`: a row that
  is not contended has at most one writer (`SoleWriter`), what that writer decided
  on is still true (`StillTrue`), and the columns agree (`RowSound`). The step that would
  break `SoleWriter` is `Decide`, and it makes the row contended. On top of both, every step
  keeps `NumbersHaveNoGap`: an issue that commits numbers the row that was decided on.
- **Quotes**, `BillInv`: the invoice that a conversion will insert is new and no other
  request's; a link names an invoice of that quote, and one is made only by the single
  converter of a quote. `SerialInv` as for invoices. That a sent quote
  has a number, a part of `TypeOK`, needs all of it.
- **Refinement**: `ImplementsContract` says that the rows that are not contended
  step as the contract does, or stutter. Under `SerialInv` a write finds what its
  decision found, so the two steps of a request are the one of the contract.
- **Sessions**, `RotationInv`: a token that was exchanged is revoked; one that is not
  overlapped has at most one request that claims it, which came first, and at most one child.
- **Webhooks**, `KeyInv`: the receiver has acted once on what it has seen, and an answer
  that counts as a success is about something seen. `PostInv`: outside contention one sender carries a
  delivery, with an attempt number that is the next one, and posts, records,
  lost records and the request under way add up.
- **Leads**, `LeadInv`: a lead that is not contended has one writer, and a deal only if it is
  CONVERTED. **Accounts**, `AdminInv`: unless the administrators changed
  under it, a request that has passed the check leaves one besides its user.
- **Kanban**, `BoardInv`: a deal or a stage about to be inserted has no row and is no other
  request's, any other request has a row to write to, and a move stays in the
  pipeline with the status of its target. `OrderInv`: a column that is not crowded waits for
  one card at most, and no other card of it has the rank that was computed for that one; that
  rank is fresh because it lies strictly between the neighbours, or below the lowest, and does so although
each double on the way misses by up to `Precision`: neighbours closer than `MinGap` count as crowded. `LogInv`:
  a deal that is not overlapped has one request at most, and a move of it still knows
  the stage it is in, so the line it appends continues the log.
- **Connections**, `TokenInv`: a refresh token belongs to one row, whether it is in it or in
  the hands of a request, and what a request holds of an undisturbed row is what the row has.
  `GrantInv`: a config about to be written names the company that the row names, and tokens
  about to be written are newer than the row's. `PushInv`: a push in
  flight is of no draft, and outside the repeated ones it is the only one of its
  invoice and has put there what it reports.
- **Directory**, `Aims`: the kind of the rows that a merge or an erasure is about never
  changes. `DealInv`: the columns of a deal are the heirs of what they
  were, and such an heir is gone, or a row of the right kind and of the deal's
  tenant, or mixed. `ImportInv`: the rows that an import about to insert has looked over do not contain the
  like of what it inserts (`Sought`).
- **Messaging**, `MessagesInv`: what a request will store as looked up links into its tenant
  (`Good`); a delivery has stored what it passed (`Progress`); rows of a message and
  deliveries that owe it add up to at most its deliveries (`Counted`). `RunInv`: what a run has done, followed by
  what it has yet to do, is what the rules that it found list.

- **Client** needs the tables of the program first, and states what it needs of them.
  `ServiceSound`: every call leaves a status that the service knows. `ButtonRight`, a lemma for
  each page with buttons: whoever is shown a button has the permissions of its calls, up to
  `GuardGaps` (`Guarded`); the service accepts each call on the rows that the button is on, up to
  `ServiceGaps` (`Answered`); a save that asks for no list changes nothing on it (`Quiet`);
  between the calls of one save the row remains one the button is for (`Steady`).
  `PagesAnswered`: the same for queries, up to `QueryGaps` and the page that only the inbox's link leads to (`LinkGap`). Over these, `FairIsRight`: a fair save is
  offered to the user, and the row is one that it is for until its last call is
  served; `OldIsReplaced`: if the list, or the answer on its way, is not the row as it
  is, then a save in flight will ask again, or the tab is known to be `behind`.

Proving changed the model in two places. `QueryGaps` lacked the third gap (see Findings).
And `DealsFollow` used to excuse every record that a
merge without a tenant was about; the proof attempt showed that this is at once too much,
and false for chains of four merges, longer than the run makes. `mixed` now follows the
merges between tenants alone, and through further merges.

Assumptions. They are named `…Assumption` in the component modules, and TLC evaluates
them in every run:

- ids are numbers where rows are taken in order, and the markers `Nil` and `Gone` are neither
  ids nor rows (a row has an id, so a missing one is no row); likewise `None` in `Kanban`
  (`CardAssumption`) and `Nothing` in `Client` (`NothingAssumption`);
- the stages of the seed belong to their pipeline and none is in two places
  (`StagesAssumption`), and four roundings of a rank stay below the
  minimum distance, which is at most the step (`RankAssumption`: true of a column with ranks below 2^22);
- the roles a tab may have are installed ones (`ClientAssumption`); edits then
  add and take what the role form can, any number of times;
- requests in flight, senders and rules are finite in number (`Handlers` in `Directory`,
  `SendersAssumption`, `RulesAssumption`): counting them needs it, and they are promises and rows;
- a backoff schedule has at least two entries, all positive (the code's table has five);
- messages from Meta have distinct ids (`PayloadsAssumption`; a `wamid` is unique);
- what is there at first is what the program could have left: connections with a
  grant each, deals whose contact and company exist, have the right kind and the deal's tenant.

Two lemmas of `MessagingProofs` are about data of any length: `FlattenTyped` (the
actions of several rules in a row are a list of actions) and `MovedOver`. They need no
induction theorem: `FlattenSeq` is a function defined from its predecessor, and the least index at
which it could fail (`LeastExists`, from `WFMin`) is a contradiction.

**Only model-checked.** The liveness properties `IssueIsAnnounced`, `ConversionIsAnnounced`,
`ReuseIsPunished` and `EveryoneIsServed`: the prover does not reason about fairness and
ENABLED. The two violated properties are counterexamples, which only a run can give.

## 5. Not modelled

- Authorisation in the modules other than `Accounts`, `Kanban` (ownership),
  `Directory` and `Messaging` (tenants) and `Client`: requests are
  those that passed it. DTO validation appears as the sets of inputs.
- Expiry of refresh tokens: an expired token is refused before any write.
- Line items: `calcTotals` enters as the set of totals it can return.
- The unique index on the invoice number: the model shows that it never fires.
- Encryption of secrets, signatures, the tests of a connection: they decide
  whether a request is refused, and a refusal writes nothing.
- Leads as the subject of a WhatsApp message: looked up like contacts; a lead that the caller
  names is there as what stops the lookup. The status of a message: written with it, read by nobody.
- What is in products, custom fields, meetings, tenants and branding: single
  rows without a protocol. They appear in `Api` with the status that pages see.
- Aggregations of reports, the results of searches, what the AI answers (and its
  503 where it is not configured), rows of the audit log: reads and logging.
- Of the frontend: what a form asks for and refuses, charts, the
  dictionary (`i18n.tsx`) and the language page, the embedded lead form.
- Handlers that no page calls are not in `Api`.

## 6. Plan

Every component of the table in section 1 that keeps state is modelled, and what is safety
is proved. What would come next, in order of weight:

1. In `Client`, a row with two fields instead of one status: an edit form sends every
   field it was opened with, and so undoes what another user changed in the
   meantime. `PROJECT.json` lists this hazard without a property.
2. `Sessions` beside `Accounts`: an account deactivated during a login still gets tokens, and
   what they are then good for is decided by the guard of each request.
3. The four liveness properties for every number of handlers. Each is one chain of steps of
   one handler under weak fairness, so a prover with rules for ENABLED would find the
   invariants it needs among those proved here.
