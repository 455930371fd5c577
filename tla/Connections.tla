---------------------------- MODULE Connections ----------------------------
(***************************************************************************)
(* Connections to outside services (modules/connections) and the push of   *)
(* invoices to a ledger through them (modules/accounting).                 *)
(*                                                                         *)
(* A connection row holds two documents, each read as a whole and later    *)
(* replaced as a whole: the encrypted secrets (the OAuth tokens) and the   *)
(* config (the OAuth state, the company id).  Between the read and the     *)
(* write stands an HTTP call to the provider, which rotates the refresh    *)
(* token, whose answer may be lost, and which is not asked twice.  A push  *)
(* reads the invoice first, obtains a token twice, creates the document    *)
(* outside and records the outcome last.                                   *)
(***************************************************************************)
EXTENDS Integers, Sequences, FiniteSets

CONSTANTS
  Handlers,         \* requests in flight at the same time
  Rows,             \* numbers standing for connection ids, taken in order
  Providers,        \* keys of the catalogue that requests name
  Invoices,
  Nil, Gone,
  InitialProviders, \* what was connected and authorised earlier, in order
  Drafts,           \* invoices that are still DRAFT; the others are issued
  MaxRequests,      \* bound: requests after that
  MaxStates,        \* bound: authorisations started
  MaxTokens,        \* bound: grants by the provider, the earlier ones included
  MaxExpiries       \* bound: access tokens that expire

(* provider-catalog.ts and oauth-catalog.ts: how a provider is authorised, if
   it can be connected at all, and what its callback may name besides a code. *)
Catalogue ==
  [whatsapp   |-> [auth |-> "api_key", available |-> TRUE],
   stripe     |-> [auth |-> "api_key", available |-> TRUE],
   quickbooks |-> [auth |-> "oauth2",  available |-> TRUE],
   xero       |-> [auth |-> "oauth2",  available |-> TRUE],
   iyzico     |-> [auth |-> "api_key", available |-> FALSE]]
OAuthCatalogue == [quickbooks |-> {"realmId"}, xero |-> {}]
OAuthProviders == DOMAIN OAuthCatalogue
Extras         == UNION {OAuthCatalogue[p] : p \in OAuthProviders}

ASSUME ProvidersAssumption ==
  /\ Providers \subseteq DOMAIN Catalogue
  /\ InitialProviders \in Seq(OAuthProviders \cap Providers)
ASSUME RowsAssumption    == Rows \subseteq Nat \ {0} /\ DOMAIN InitialProviders \subseteq Rows
ASSUME DraftsAssumption  == Drafts \subseteq Invoices
ASSUME BoundsAssumption  ==
  /\ {MaxRequests, MaxStates, MaxTokens, MaxExpiries} \subseteq Nat
  /\ Len(InitialProviders) <= MaxTokens

VARIABLES
  row,         \* Connection rows (Nil: none yet, Gone: deleted)
  sync,        \* AccountingSync rows by invoice (Nil: none)
  status,      \* Invoice.status, as far as the push tells it apart
  req,
  requests, states, tokens, \* how many requests, OAuth states and grants there were
  live,        \* refresh tokens the provider accepts
  expired,     \* access tokens past their time
  spent,       \* states whose authorisation code was exchanged
  ledger,      \* documents in the ledger, in the order of their external ids
  disturbed,   \* history: rows held by two requests at once, or whose new
               \* tokens never reached the database
  patched,     \* history: rows whose config or status was set by hand
  doubled      \* history: invoices pushed again while SYNCED, by two requests
               \* at once, or whose document was not recorded

database == <<row, sync>>
outside  == <<status, live, expired, spent, ledger>>
counters == <<requests, states, tokens>>
history  == <<disturbed, patched, doubled>>
vars     == <<database, req, counters, outside, history>>

Secrets == [access : 0..MaxTokens, refresh : 0..MaxTokens]   \* 0: absent
Config  == [state : 0..MaxStates, realm : BOOLEAN]
Row     == [provider : Providers, status : {"pending_auth", "connected", "disabled"},
            secrets : Secrets, config : Config]

Idle == [op |-> "idle"]
Sync == [provider : OAuthProviders, status : {"SYNCED", "FAILED"},
         external : Nat, attempts : Nat \ {0}]
Asking == [invoice : Invoices, seen : {"DRAFT", "SENT", "CANCELLED"},
           provider : OAuthProviders, again : BOOLEAN]
Request ==
  {Idle}
    \cup [op : {"connect"}, provider : Providers]
    \cup [op : {"patch"}, row : Rows, secrets : Secrets,
          change : {"secrets", "config", "connected", "disabled"}]
    \cup [op : {"authorize", "clear"}, row : Rows, config : Config]
    \cup [op : {"exchange"}, row : Rows, state : 1..MaxStates, named : SUBSET Extras,
          secrets : Secrets, config : Config]
    \cup [op : {"store"}, row : Rows, named : SUBSET Extras,
          secrets : Secrets, config : Config]
    \cup [op : {"ask", "bill"}, ask : Asking]
    \cup [op : {"refresh", "save"}, ask : Asking, row : Rows,
          secrets : Secrets, config : Config]
    \cup [op : {"push"}, ask : Asking, config : Config]
    \cup [op : {"record"}, ask : Asking, status : {"SYNCED", "FAILED"}, external : Nat]

ASSUME NilAssumption == Nil # Gone /\ Nil \notin Row \cup Sync /\ Gone \notin Row

Exists(r)     == row[r] \notin {Nil, Gone}
RowsOf(p)     == {r \in Rows : Exists(r) /\ row[r].provider = p}
HoldingOps    == {"authorize", "exchange", "store", "clear", "patch", "refresh", "save"}
Holders(r)    == {h \in Handlers : req[h].op \in HoldingOps /\ req[h].row = r}
PushOps       == {"ask", "refresh", "save", "push", "bill", "record"}
Pushers(i)    == {h \in Handlers : req[h].op \in PushOps /\ req[h].ask.invoice = i}
Documents(i)  == {x \in DOMAIN ledger : ledger[x].invoice = i}

-----------------------------------------------------------------------------
(* Slips the properties below must catch; no action uses them. *)

SameRefresh(old, answer)   == [access |-> answer.access, refresh |-> old.refresh]
OnlyState(cfg, s)          == [state |-> s]                 \* ...cfg forgotten
AlwaysFailed(h)            == "FAILED"
Emptied(cfg)               == [state |-> 0, realm |-> FALSE]

-----------------------------------------------------------------------------
(* Forms of the two documents that are written. *)

WithState(cfg, s) == [cfg EXCEPT !.state = s]
StripState(cfg)   == [cfg EXCEPT !.state = 0]

(* What the callback named is added; what it left out stays as it was. *)
WithExtra(named, cfg) == IF "realmId" \in named THEN [cfg EXCEPT !.realm = TRUE] ELSE cfg

Refreshed(old, answer) == answer

Finalised(seen) == seen \notin {"DRAFT", "CANCELLED"}

Idles(h)    == req' = [req EXCEPT ![h] = Idle]
Goes(h, r)  == req' = [req EXCEPT ![h] = r]
Begin(h)    == req[h] = Idle /\ requests < MaxRequests /\ requests' = requests + 1

(* The request holds what it read of row r until its write. *)
Holds(h, r) == disturbed' = IF Holders(r) \ {h} = {} THEN disturbed ELSE disturbed \cup {r}

-----------------------------------------------------------------------------
(* ConnectionsService.connect, update and remove *)

StartConnect(h, p) ==
  /\ Begin(h)
  /\ Catalogue[p].available
  /\ RowsOf(p) = {}
  /\ Goes(h, [op |-> "connect", provider |-> p])
  /\ UNCHANGED <<database, outside, states, tokens, history>>

InsertRow(h) ==
  LET p == req[h].provider IN
  /\ req[h].op = "connect"
  /\ \E r \in Rows :
       /\ row[r] = Nil /\ \A q \in Rows : q < r => row[q] # Nil
       /\ row' = [row EXCEPT ![r] =
            [provider |-> p,
             status   |-> IF Catalogue[p].auth = "oauth2" THEN "pending_auth" ELSE "connected",
             secrets  |-> [access |-> 0, refresh |-> 0],
             config   |-> [state |-> 0, realm |-> FALSE]]]
  /\ Idles(h)
  /\ UNCHANGED <<sync, outside, counters, history>>

(* New secrets are merged into those read; a new config replaces the old. *)
StartUpdate(h, r) ==
  /\ Begin(h)
  /\ Exists(r)
  /\ \E change \in {"secrets", "config", "connected", "disabled"} :
       Goes(h, [op |-> "patch", row |-> r, change |-> change, secrets |-> row[r].secrets])
  /\ Holds(h, r)
  /\ UNCHANGED <<database, outside, states, tokens, patched, doubled>>

UpdateRow(h) ==
  LET r == req[h].row  change == req[h].change IN
  /\ req[h].op = "patch" /\ Exists(r)
  /\ row' = [row EXCEPT ![r] =
       CASE change = "secrets" -> [@ EXCEPT !.secrets = req[h].secrets]
         [] change = "config"  -> [@ EXCEPT !.config = [state |-> 0, realm |-> FALSE]]
         [] OTHER              -> [@ EXCEPT !.status = change]]
  /\ patched' = IF change = "secrets" THEN patched ELSE patched \cup {r}
  /\ Idles(h)
  /\ UNCHANGED <<sync, outside, counters, disturbed, doubled>>

Remove(h, r) ==
  /\ Begin(h)
  /\ Exists(r)
  /\ row' = [row EXCEPT ![r] = Gone]
  /\ UNCHANGED <<req, sync, outside, states, tokens, history>>

-----------------------------------------------------------------------------
(* OAuthService.start and callback *)

StartAuthorize(h, r) ==
  /\ Begin(h)
  /\ Exists(r) /\ row[r].provider \in OAuthProviders /\ states < MaxStates
  /\ Goes(h, [op |-> "authorize", row |-> r, config |-> row[r].config])
  /\ Holds(h, r)
  /\ UNCHANGED <<database, outside, states, tokens, patched, doubled>>

SaveState(h) ==
  LET r == req[h].row IN
  /\ req[h].op = "authorize" /\ Exists(r) /\ states < MaxStates
  /\ states' = states + 1
  /\ row' = [row EXCEPT ![r].config = WithState(req[h].config, states + 1)]
  /\ Idles(h)
  /\ UNCHANGED <<sync, outside, requests, tokens, history>>

(* The browser comes back with a state and a code, perhaps more than once, and
   with all or some of the other parameters; an expired state is refused like
   an unknown one and changes nothing. *)
Callback(h, s) ==
  /\ Begin(h)
  /\ \E r \in Rows :
       /\ Exists(r) /\ row[r].config.state = s
       /\ \E named \in SUBSET Extras :
            /\ named \subseteq OAuthCatalogue[row[r].provider]
            /\ Goes(h, [op |-> "exchange", row |-> r, state |-> s, named |-> named,
                        secrets |-> row[r].secrets, config |-> row[r].config])
       /\ Holds(h, r)
  /\ UNCHANGED <<database, outside, states, tokens, patched, doubled>>

Grant == /\ tokens < MaxTokens
         /\ tokens' = tokens + 1

(* The code is good once.  The answer may name no refresh token, which is then
   stored as none; it may be lost, or unreadable. *)
CodeAccepted(h) ==
  LET q == req[h] IN
  /\ q.op = "exchange" /\ q.state \notin spent /\ Grant
  /\ spent' = spent \cup {q.state}
  /\ \E refresh \in {0, tokens + 1} :
       /\ live' = live \cup ({refresh} \ {0})
       /\ \/ Goes(h, [op |-> "store", row |-> q.row, named |-> q.named, config |-> q.config,
                      secrets |-> [access |-> tokens + 1, refresh |-> refresh]])
          \/ Idles(h)
  /\ UNCHANGED <<database, requests, states, status, expired, ledger, history>>

CodeRefused(h) ==
  LET q == req[h] IN
  /\ q.op = "exchange"
  /\ Goes(h, [op |-> "clear", row |-> q.row, config |-> q.config])
  /\ UNCHANGED <<database, counters, outside, history>>

StoreTokens(h) ==
  LET q == req[h] IN
  /\ q.op = "store" /\ Exists(q.row)
  /\ row' = [row EXCEPT ![q.row].status  = "connected",
                        ![q.row].secrets = q.secrets,
                        ![q.row].config  = WithExtra(q.named, StripState(q.config))]
  /\ Idles(h)
  /\ UNCHANGED <<sync, outside, counters, history>>

ClearState(h) ==
  /\ req[h].op = "clear" /\ Exists(req[h].row)
  /\ row' = [row EXCEPT ![req[h].row].config = StripState(req[h].config)]
  /\ Idles(h)
  /\ UNCHANGED <<sync, outside, counters, history>>

-----------------------------------------------------------------------------
(* OAuthService.getFreshAccessToken, called by the push of an invoice.  Which
   row of a provider it finds is not specified, if there are two. *)

Fresh(r)      == row[r].secrets.access # 0 /\ row[r].secrets.access \notin expired
Connected(r)  == row[r].status = "connected"
WithToken(a, cfg) ==                      \* what syncInvoice does with a token
  IF a.again THEN [op |-> "push", ask |-> a, config |-> cfg]
  ELSE IF Finalised(a.seen) THEN [op |-> "ask", ask |-> [a EXCEPT !.again = TRUE]]
  ELSE Idle
NoToken(a) ==
  IF a.provider = "quickbooks" /\ ~a.again
  THEN [op |-> "ask", ask |-> [a EXCEPT !.provider = "xero"]] ELSE Idle

AskFresh(h) ==
  LET a == req[h].ask IN
  /\ req[h].op = "ask"
  /\ \/ \E r \in RowsOf(a.provider) :
          Connected(r) /\ Fresh(r) /\ Goes(h, WithToken(a, row[r].config))
     \/ /\ \/ RowsOf(a.provider) = {}
           \/ \E r \in RowsOf(a.provider) :
                ~Connected(r) \/ (~Fresh(r) /\ row[r].secrets.refresh = 0)
        /\ Goes(h, NoToken(a))
  /\ UNCHANGED <<database, counters, outside, history>>

AskToRefresh(h) ==
  LET a == req[h].ask IN
  /\ req[h].op = "ask"
  /\ \E r \in RowsOf(a.provider) :
       /\ Connected(r) /\ ~Fresh(r) /\ row[r].secrets.refresh # 0
       /\ Goes(h, [op |-> "refresh", ask |-> a, row |-> r,
                   secrets |-> row[r].secrets, config |-> row[r].config])
       /\ Holds(h, r)
  /\ UNCHANGED <<database, counters, outside, patched, doubled>>

(* The provider accepts the refresh token it gave last and gives another, or
   names none, which keeps it.  When the answer is lost the new one is, too. *)
TokenRefreshed(h) ==
  LET q == req[h] IN
  /\ q.op = "refresh" /\ q.secrets.refresh \in live /\ Grant
  /\ \E rotates \in BOOLEAN :
       LET kept == IF rotates THEN tokens + 1 ELSE q.secrets.refresh IN
       /\ live' = (live \ {q.secrets.refresh}) \cup {kept}
       /\ \/ /\ Goes(h, [op |-> "save", ask |-> q.ask, row |-> q.row, config |-> q.config,
                         secrets |-> Refreshed(q.secrets,
                                               [access |-> tokens + 1, refresh |-> kept])])
             /\ UNCHANGED history
          \/ /\ Idles(h)
             /\ disturbed' = disturbed \cup {q.row}
             /\ UNCHANGED <<patched, doubled>>
  /\ UNCHANGED <<database, requests, states, status, expired, spent, ledger>>

RefreshRefused(h) ==
  /\ req[h].op = "refresh"
  /\ Goes(h, NoToken(req[h].ask))
  /\ UNCHANGED <<database, counters, outside, history>>

SaveTokens(h) ==
  LET q == req[h] IN
  /\ q.op = "save" /\ Exists(q.row)
  /\ row' = [row EXCEPT ![q.row].secrets = q.secrets]
  /\ Goes(h, WithToken(q.ask, q.config))
  /\ UNCHANGED <<sync, counters, outside, history>>

-----------------------------------------------------------------------------
(* AccountingService.syncInvoice *)

StartSync(h, i) ==
  /\ Begin(h)
  /\ Goes(h, [op |-> "ask", ask |-> [invoice |-> i, seen |-> status[i],
                                    provider |-> "quickbooks", again |-> FALSE]])
  /\ doubled' = IF Pushers(i) = {} /\ (sync[i] = Nil \/ sync[i].status = "FAILED")
                THEN doubled ELSE doubled \cup {i}
  /\ UNCHANGED <<database, outside, states, tokens, disturbed, patched>>

Outcome(a, s, x) == [op |-> "record", ask |-> a, status |-> s, external |-> x]

(* pushQuickBooks: the company, then a customer, then the invoice for it *)
CreateCustomer(h) ==
  LET a == req[h].ask IN
  /\ req[h].op = "push" /\ a.provider = "quickbooks"
  /\ \/ req[h].config.realm /\ Goes(h, [op |-> "bill", ask |-> a])
     \/ Goes(h, Outcome(a, "FAILED", 0))
  /\ UNCHANGED <<database, counters, outside, history>>

SuccessOf(h) == "SYNCED"

CreateDocument(h) ==                    \* and pushXero, which is only this
  LET a == req[h].ask  x == Len(ledger) + 1 IN
  /\ \/ req[h].op = "bill"
     \/ req[h].op = "push" /\ a.provider = "xero"
  /\ ledger' = Append(ledger, [invoice |-> a.invoice, provider |-> a.provider])
  /\ \/ Goes(h, Outcome(a, SuccessOf(h), x)) /\ UNCHANGED history
     \/ /\ Goes(h, Outcome(a, "FAILED", 0))       \* the answer is lost
        /\ doubled' = doubled \cup {a.invoice}
        /\ UNCHANGED <<disturbed, patched>>
  /\ UNCHANGED <<database, counters, status, live, expired, spent>>

DocumentRefused(h) ==
  /\ \/ req[h].op = "bill"
     \/ req[h].op = "push" /\ req[h].ask.provider = "xero"
  /\ Goes(h, Outcome(req[h].ask, "FAILED", 0))
  /\ UNCHANGED <<database, counters, outside, history>>

(* upsertSync: a failure leaves the external id of an earlier success. *)
UpsertSync(h) ==
  LET q == req[h]  i == q.ask.invoice
      old == IF sync[i] = Nil THEN [external |-> 0, attempts |-> 0] ELSE sync[i]
  IN /\ q.op = "record"
     /\ sync' = [sync EXCEPT ![i] =
          [provider |-> q.ask.provider, status |-> q.status,
           external |-> IF q.status = "SYNCED" THEN q.external ELSE old.external,
           attempts |-> old.attempts + 1]]
     /\ Idles(h)
     /\ UNCHANGED <<row, counters, outside, history>>

(* A success that cannot be written is caught and recorded as a failure. *)
UpsertFails(h) ==
  LET q == req[h] IN
  /\ q.op = "record" /\ q.status = "SYNCED"
  /\ Goes(h, Outcome(q.ask, "FAILED", 0))
  /\ doubled' = doubled \cup {q.ask.invoice}
  /\ UNCHANGED <<database, counters, outside, disturbed, patched>>

(* The request ends without another write: an error, a crash. *)
Fails(h) ==
  LET q == req[h] IN
  /\ q # Idle
  /\ Idles(h)
  /\ disturbed' = IF q.op = "save" THEN disturbed \cup {q.row} ELSE disturbed
  /\ doubled'   = IF q.op = "record" /\ q.external # 0
                  THEN doubled \cup {q.ask.invoice} ELSE doubled
  /\ UNCHANGED <<database, counters, outside, patched>>

-----------------------------------------------------------------------------
(* Meanwhile access tokens expire, and invoices are issued and cancelled. *)

AccessExpires(n) ==
  /\ n \in 1..tokens /\ n \notin expired /\ Cardinality(expired) < MaxExpiries
  /\ expired' = expired \cup {n}
  /\ UNCHANGED <<database, req, counters, status, live, spent, ledger, history>>

InvoiceMoves(i) ==
  /\ \/ status[i] = "DRAFT" /\ status' = [status EXCEPT ![i] = "SENT"]
     \/ status[i] # "CANCELLED" /\ status' = [status EXCEPT ![i] = "CANCELLED"]
  /\ UNCHANGED <<database, req, counters, live, expired, spent, ledger, history>>

Init ==
  LET n == Len(InitialProviders) IN
  /\ row = [r \in Rows |-> IF r > n THEN Nil ELSE
       [provider |-> InitialProviders[r], status |-> "connected",
        secrets |-> [access |-> r, refresh |-> r],
        config  |-> WithExtra(OAuthCatalogue[InitialProviders[r]],
                              [state |-> 0, realm |-> FALSE])]]
  /\ sync   = [i \in Invoices |-> Nil]
  /\ status = [i \in Invoices |-> IF i \in Drafts THEN "DRAFT" ELSE "SENT"]
  /\ req    = [h \in Handlers |-> Idle]
  /\ requests = 0 /\ states = 0 /\ tokens = n
  /\ live = 1..n /\ expired = {} /\ spent = {}
  /\ ledger = <<>>
  /\ disturbed = {} /\ patched = {} /\ doubled = {}

StartOn(h) ==
  \/ \E p \in Providers : StartConnect(h, p)
  \/ \E r \in Rows : StartUpdate(h, r) \/ Remove(h, r) \/ StartAuthorize(h, r)
  \/ \E s \in 1..states : Callback(h, s)
  \/ \E i \in Invoices : StartSync(h, i)

Step(h) ==
  \/ InsertRow(h) \/ UpdateRow(h)
  \/ SaveState(h) \/ CodeAccepted(h) \/ CodeRefused(h) \/ StoreTokens(h) \/ ClearState(h)
  \/ AskFresh(h) \/ AskToRefresh(h) \/ TokenRefreshed(h) \/ RefreshRefused(h) \/ SaveTokens(h)
  \/ CreateCustomer(h) \/ CreateDocument(h) \/ DocumentRefused(h)
  \/ UpsertSync(h) \/ UpsertFails(h) \/ Fails(h)

Next ==
  \/ \E h \in Handlers : StartOn(h) \/ Step(h)
  \/ \E n \in 1..MaxTokens : AccessExpires(n)
  \/ \E i \in Invoices : InvoiceMoves(i)

Spec == Init /\ [][Next]_vars

-----------------------------------------------------------------------------
(* Every row, request and document has its type. *)
TypeOK ==
  /\ row  \in [Rows -> Row \cup {Nil, Gone}]
  /\ sync \in [Invoices -> Sync \cup {Nil}]
  /\ status \in [Invoices -> {"DRAFT", "SENT", "CANCELLED"}]
  /\ req \in [Handlers -> Request]
  /\ requests \in 0..MaxRequests /\ states \in 0..MaxStates /\ tokens \in 0..MaxTokens
  /\ live \subseteq 1..tokens /\ expired \subseteq 1..tokens /\ spent \subseteq 1..states
  /\ ledger \in Seq([invoice : Invoices, provider : OAuthProviders])
  /\ disturbed \subseteq Rows /\ patched \subseteq Rows /\ doubled \subseteq Invoices

(* "encrypted tokens with auto-refresh": at rest, the refresh token in the row
   is one the provider still accepts, unless two requests held the row at once
   or an answer that rotated it was lost. *)
TokenIsLive ==
  \A r \in Rows \ disturbed :
    Exists(r) /\ Holders(r) = {} /\ row[r].secrets.refresh # 0 =>
      row[r].secrets.refresh \in live

(* What the provider gave is kept.  The writes that replace a whole document
   from an earlier reading of it do not take away the company a callback named,
   nor bring back the tokens of an older grant: the refresh token changes only
   with a grant that is newer than the one in the row.  Excepted are rows that
   two requests held at once, whose rotation was lost, or that were set by
   hand.  (Whether a connected row can be used is up to the provider: it may
   have named neither a company nor a refresh token.) *)
KeepsGrant(old, new) ==
  /\ old.config.realm => new.config.realm
  /\ old.secrets.access <= new.secrets.access
  /\ old.secrets.refresh # new.secrets.refresh => old.secrets.access < new.secrets.access

GrantIsKept ==
  [][\A r \in Rows \ (disturbed' \cup patched') :
       Exists(r) /\ Exists(r)' => KeepsGrant(row[r], row'[r])]_vars

(* What a row calls SYNCED is in that provider's ledger, under its own id, and
   no draft ever is; "retry by re-running" does not bill a second time, unless
   an answer or its record was lost, two pushes overlapped, or one was run on
   an invoice that was SYNCED. *)
OneDocument ==
  /\ \A i \in Invoices : sync[i] # Nil /\ sync[i].status = "SYNCED" =>
       /\ sync[i].external \in DOMAIN ledger
       /\ ledger[sync[i].external] = [invoice |-> i, provider |-> sync[i].provider]
  /\ \A x \in DOMAIN ledger : status[ledger[x].invoice] # "DRAFT"
  /\ \A i \in Invoices \ doubled : Cardinality(Documents(i)) <= 1
=============================================================================
