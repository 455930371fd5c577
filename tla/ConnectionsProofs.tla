------------------------- MODULE ConnectionsProofs --------------------------
(***************************************************************************)
(* What holds of Connections for every number of requests, rows, invoices, *)
(* grants and providers of the catalogue.                                  *)
(***************************************************************************)
EXTENDS Connections, FiniteSetTheorems, TLAPS

(* A callback brings a state that was handed out. *)
StateIsKnown == \A h \in Handlers : req[h].op = "exchange" => req[h].state \in 1..states

Typed == TypeOK /\ StateIsKnown

(* Request h holds row r; it carries secrets that it read or was given. *)
Held(h, r)  == req[h].op \in HoldingOps /\ req[h].row = r
CarryingOps == {"patch", "exchange", "store", "refresh", "save"}
Carries(h, r, t) ==
  req[h].op \in CarryingOps /\ req[h].row = r /\ req[h].secrets.refresh = t
InRow(r, t) == Exists(r) /\ row[r].secrets.refresh = t
Owns(r, t)  == InRow(r, t) \/ \E h \in Handlers : Carries(h, r, t)

(* One request at a time holds a row, unless it is disturbed. *)
Alone ==
  \A r \in Rows \ disturbed : \A g, h \in Handlers : Held(g, r) /\ Held(h, r) => g = h

(* A refresh token belongs to one row. *)
Separate ==
  \A r, s \in Rows : \A t \in 1..MaxTokens :
    /\ Owns(r, t) => t <= tokens
    /\ Owns(r, t) /\ Owns(s, t) => r = s

(* What the requests carry of a row nobody else holds. *)
CarriedBy(h) ==
  /\ req[h].op \in {"refresh", "save"} => req[h].secrets.refresh # 0
  /\ req[h].op \in {"patch", "refresh"} /\ req[h].row \notin disturbed /\ Exists(req[h].row) =>
       req[h].secrets = row[req[h].row].secrets
  /\ req[h].op \in {"store", "save"} /\ req[h].row \notin disturbed =>
       req[h].secrets.refresh \in live \cup {0}
Carried == \A h \in Handlers : CarriedBy(h)

(* A row that is held was there. *)
HeldWasThere == \A h \in Handlers : req[h].op \in HoldingOps => row[req[h].row] # Nil

(* The refresh token of a row is live, but between the answer that rotated it
   and the write of the new one. *)
RowIsLive ==
  \A r \in Rows \ disturbed :
    /\ Exists(r) /\ row[r].secrets.refresh # 0
    /\ \A h \in Handlers : ~(Held(h, r) /\ req[h].op = "save")
    => row[r].secrets.refresh \in live

TokenInv == Alone /\ Separate /\ Carried /\ HeldWasThere /\ RowIsLive

(* A config that will be written names the company if the row's does. *)
ConfigOps == {"authorize", "exchange", "store", "clear"}
ConfigKept ==
  \A h \in Handlers :
    /\ req[h].op \in ConfigOps
    /\ req[h].row \notin disturbed \cup patched
    /\ Exists(req[h].row)
    => req[h].config.realm = row[req[h].row].config.realm

(* Secrets come from a grant there was; those that a request was given come
   from a later one than those of the row it holds. *)
NewerIsCarried ==
  /\ \A r \in Rows : Exists(r) => row[r].secrets.access <= tokens
  /\ \A h \in Handlers :
       /\ req[h].op \in CarryingOps => req[h].secrets.access <= tokens
       /\ req[h].op \in {"store", "save"} /\ req[h].row \notin disturbed /\ Exists(req[h].row) =>
            row[req[h].row].secrets.access < req[h].secrets.access

GrantInv == ConfigKept /\ NewerIsCarried

Pushes(h, i) == req[h].op \in PushOps /\ req[h].ask.invoice = i

(* No request pushes a draft past its second look. *)
NoDraft ==
  \A h \in Handlers :
    /\ req[h].op \in PushOps /\ req[h].ask.seen # "DRAFT" =>
         status[req[h].ask.invoice] # "DRAFT"
    /\ req[h].op \in PushOps /\ (req[h].ask.again \/ req[h].op \in {"push", "bill", "record"}) =>
         req[h].ask.seen # "DRAFT"

Recorded(h, x) ==
  /\ req[h].op = "record" /\ req[h].status = "SYNCED" /\ req[h].external = x

(* A success names the document it created. *)
SuccessIsReal ==
  \A h \in Handlers : req[h].op = "record" /\ req[h].status = "SYNCED" =>
    /\ req[h].external \in DOMAIN ledger
    /\ ledger[req[h].external] = [invoice |-> req[h].ask.invoice, provider |-> req[h].ask.provider]

Settled(i) == sync[i] # Nil /\ sync[i].status = "SYNCED"

(* An invoice that was not doubled has one pusher and one document; the
   document is recorded, or about to be. *)
OnePush ==
  \A i \in Invoices \ doubled :
    /\ \A g, h \in Handlers : Pushes(g, i) /\ Pushes(h, i) => g = h
    /\ Settled(i) => \A h \in Handlers : ~Pushes(h, i)
    /\ \A x \in DOMAIN ledger : ledger[x].invoice = i =>
         \/ Settled(i) /\ sync[i].external = x
         \/ \E h \in Handlers : Pushes(h, i) /\ Recorded(h, x)

LedgerIsRight ==
  /\ \A i \in Invoices : Settled(i) =>
       /\ sync[i].external \in DOMAIN ledger
       /\ ledger[sync[i].external] = [invoice |-> i, provider |-> sync[i].provider]
  /\ \A x \in DOMAIN ledger : status[ledger[x].invoice] # "DRAFT"

PushInv == NoDraft /\ SuccessIsReal /\ OnePush /\ LedgerIsRight

-----------------------------------------------------------------------------
(* Shapes *)

(* The operation of a request fixes which fields it has. *)
LEMMA RequestShape ==
  ASSUME NEW q \in Request
  PROVE  /\ q.op = "idle" <=> q = Idle
         /\ q.op = "connect" => q.provider \in Providers
         /\ q.op \in HoldingOps => q.row \in Rows
         /\ q.op \in CarryingOps => q.secrets \in Secrets
         /\ q.op \in {"authorize", "exchange", "store", "clear", "refresh", "save", "push"} =>
              q.config \in Config
         /\ q.op \in PushOps => q.ask \in Asking
         /\ q.op = "exchange" => q.state \in 1..MaxStates
         /\ q.op \in {"exchange", "store"} => q.named \in SUBSET Extras
         /\ q.op = "patch" => q.change \in {"secrets", "config", "connected", "disabled"}
         /\ q.op = "record" => q.status \in {"SYNCED", "FAILED"} /\ q.external \in Nat
  BY DEF Request, Idle, HoldingOps, CarryingOps, PushOps

LEMMA StateSet ==
  ASSUME NEW c \in Config, NEW s \in 0..MaxStates
  PROVE  WithState(c, s) \in Config /\ WithState(c, s).realm = c.realm
  BY DEF Config, WithState

LEMMA StateStripped ==
  ASSUME NEW c \in Config
  PROVE  StripState(c) \in Config /\ StripState(c).realm = c.realm
  BY BoundsAssumption DEF Config, StripState

LEMMA ExtraSet ==
  ASSUME NEW c \in Config, NEW named
  PROVE  WithExtra(named, c) \in Config /\ (c.realm => WithExtra(named, c).realm)
  BY DEF Config, WithExtra

(* The updates of a row. *)
SetSecrets(x, t) == [x EXCEPT !.secrets = t]
SetConfig(x, c)  == [x EXCEPT !.config = c]
SetStatus(x, u)  == [x EXCEPT !.status = u]
SetAll(x, t, c)  == [x EXCEPT !.status = "connected", !.secrets = t, !.config = c]

LEMMA RowShape ==
  ASSUME NEW x \in Row
  PROVE  /\ x \notin {Nil, Gone}
         /\ x.secrets \in Secrets /\ x.config \in Config /\ x.provider \in Providers
  BY NilAssumption DEF Row

LEMMA SecretsSet ==
  ASSUME NEW x \in Row, NEW t \in Secrets
  PROVE  /\ SetSecrets(x, t) \in Row /\ SetSecrets(x, t).provider = x.provider
         /\ SetSecrets(x, t).secrets = t
         /\ SetSecrets(x, t).config = x.config /\ SetSecrets(x, t).status = x.status
  BY DEF Row, SetSecrets

LEMMA ConfigSet ==
  ASSUME NEW x \in Row, NEW c \in Config
  PROVE  /\ SetConfig(x, c) \in Row /\ SetConfig(x, c).provider = x.provider
         /\ SetConfig(x, c).config = c
         /\ SetConfig(x, c).secrets = x.secrets /\ SetConfig(x, c).status = x.status
  BY DEF Row, SetConfig

LEMMA StatusSet ==
  ASSUME NEW x \in Row, NEW u \in {"connected", "disabled"}
  PROVE  /\ SetStatus(x, u) \in Row /\ SetStatus(x, u).provider = x.provider
         /\ SetStatus(x, u).secrets = x.secrets /\ SetStatus(x, u).config = x.config
  BY DEF Row, SetStatus

LEMMA AllSet ==
  ASSUME NEW x \in Row, NEW t \in Secrets, NEW c \in Config
  PROVE  /\ SetAll(x, t, c) \in Row /\ SetAll(x, t, c).provider = x.provider
         /\ SetAll(x, t, c).secrets = t /\ SetAll(x, t, c).config = c
  BY DEF Row, SetAll

(* What a push does next, with and without a token. *)
LEMMA NextWithToken ==
  ASSUME NEW a \in Asking, NEW c \in Config
  PROVE  WithToken(a, c) \in Request /\ WithToken(a, c).op \in {"push", "ask", "idle"}
  BY DEF Asking, WithToken, Finalised, Request, Idle

LEMMA NextWithoutToken ==
  ASSUME NEW a \in Asking
  PROVE  NoToken(a) \in Request /\ NoToken(a).op \in {"ask", "idle"}
  BY DEF Asking, NoToken, Request, Idle, OAuthProviders, OAuthCatalogue

(* Row r, which is there, becomes x. *)
Rewrites(r, x) ==
  /\ r \in Rows /\ Exists(r)
  /\ x \in Row /\ x.provider = row[r].provider
  /\ row' = [row EXCEPT ![r] = x]

LEMMA UpdateRewrites ==
  ASSUME Typed, NEW h \in Handlers, UpdateRow(h)
  PROVE  \E x : /\ Rewrites(req[h].row, x)
                /\ x.secrets \in {row[req[h].row].secrets, req[h].secrets}
                /\ req[h].row \notin patched' =>
                     x.config = row[req[h].row].config /\ x.status = row[req[h].row].status
<1> DEFINE r == req[h].row
           c == req[h].change
<1>1. /\ r \in Rows /\ row[r] \in Row /\ req[h].secrets \in Secrets
      /\ c \in {"secrets", "config", "connected", "disabled"}
  BY RequestShape DEF Typed, TypeOK, UpdateRow, Exists, HoldingOps, CarryingOps
<1>2. CASE c = "secrets"
  <2> DEFINE y == SetSecrets(row[r], req[h].secrets)
  <2>1. row' = [row EXCEPT ![r] = y]
    BY <1>2 DEF UpdateRow, SetSecrets
  <2>2. /\ y \in Row /\ y.provider = row[r].provider /\ y.secrets = req[h].secrets
        /\ y.config = row[r].config /\ y.status = row[r].status
    BY <1>1, SecretsSet
  <2> HIDE DEF y
  <2> QED
    BY <1>1, <2>1, <2>2 DEF UpdateRow, Rewrites
<1>3. CASE c = "config"
  <2> DEFINE y == SetConfig(row[r], [state |-> 0, realm |-> FALSE])
  <2>1. row' = [row EXCEPT ![r] = y] /\ r \in patched'
    BY <1>3 DEF UpdateRow, SetConfig
  <2>2. [state |-> 0, realm |-> FALSE] \in Config
    BY BoundsAssumption DEF Config
  <2>3. y \in Row /\ y.provider = row[r].provider /\ y.secrets = row[r].secrets
    BY <1>1, <2>2, ConfigSet
  <2> HIDE DEF y
  <2> QED
    BY <1>1, <2>1, <2>3 DEF UpdateRow, Rewrites
<1>4. CASE c \in {"connected", "disabled"}
  <2> DEFINE y == SetStatus(row[r], c)
  <2>1. row' = [row EXCEPT ![r] = y] /\ r \in patched'
    BY <1>4 DEF UpdateRow, SetStatus
  <2>2. y \in Row /\ y.provider = row[r].provider /\ y.secrets = row[r].secrets
    BY <1>1, <1>4, StatusSet
  <2> HIDE DEF y
  <2> QED
    BY <1>1, <2>1, <2>2 DEF UpdateRow, Rewrites
<1> QED
  BY <1>1, <1>2, <1>3, <1>4

LEMMA SaveStateRewrites ==
  ASSUME Typed, NEW h \in Handlers, SaveState(h)
  PROVE  \E x : /\ Rewrites(req[h].row, x)
                /\ x.secrets = row[req[h].row].secrets /\ x.status = row[req[h].row].status
                /\ x.config.realm = req[h].config.realm
<1> DEFINE r == req[h].row
           c == WithState(req[h].config, states + 1)
           y == SetConfig(row[r], c)
<1>1. r \in Rows /\ row[r] \in Row /\ req[h].config \in Config /\ states + 1 \in 0..MaxStates
  BY RequestShape, BoundsAssumption DEF Typed, TypeOK, SaveState, Exists, HoldingOps
<1>2. row' = [row EXCEPT ![r] = y]
  BY DEF SaveState, SetConfig
<1>3. c \in Config /\ c.realm = req[h].config.realm
  BY <1>1, StateSet
<1>4. /\ y \in Row /\ y.provider = row[r].provider /\ y.config = c
      /\ y.secrets = row[r].secrets /\ y.status = row[r].status
  BY <1>1, <1>3, ConfigSet
<1> HIDE DEF y
<1> QED
  BY <1>1, <1>2, <1>3, <1>4 DEF SaveState, Rewrites

LEMMA ClearRewrites ==
  ASSUME Typed, NEW h \in Handlers, ClearState(h)
  PROVE  \E x : /\ Rewrites(req[h].row, x)
                /\ x.secrets = row[req[h].row].secrets /\ x.status = row[req[h].row].status
                /\ x.config.realm = req[h].config.realm
<1> DEFINE r == req[h].row
           c == StripState(req[h].config)
           y == SetConfig(row[r], c)
<1>1. r \in Rows /\ row[r] \in Row /\ req[h].config \in Config
  BY RequestShape DEF Typed, TypeOK, ClearState, Exists, HoldingOps
<1>2. row' = [row EXCEPT ![r] = y]
  BY DEF ClearState, SetConfig
<1>3. c \in Config /\ c.realm = req[h].config.realm
  BY <1>1, StateStripped
<1>4. /\ y \in Row /\ y.provider = row[r].provider /\ y.config = c
      /\ y.secrets = row[r].secrets /\ y.status = row[r].status
  BY <1>1, <1>3, ConfigSet
<1> HIDE DEF y
<1> QED
  BY <1>1, <1>2, <1>3, <1>4 DEF ClearState, Rewrites

LEMMA StoreRewrites ==
  ASSUME Typed, NEW h \in Handlers, StoreTokens(h)
  PROVE  \E x : /\ Rewrites(req[h].row, x)
                /\ x.secrets = req[h].secrets
                /\ req[h].config.realm => x.config.realm
<1> DEFINE r == req[h].row
           c == WithExtra(req[h].named, StripState(req[h].config))
           y == SetAll(row[r], req[h].secrets, c)
<1>1. r \in Rows /\ row[r] \in Row /\ req[h].config \in Config /\ req[h].secrets \in Secrets
  BY RequestShape DEF Typed, TypeOK, StoreTokens, Exists, HoldingOps, CarryingOps
<1>2. row' = [row EXCEPT ![r] = y]
  BY DEF StoreTokens, SetAll
<1>3. /\ StripState(req[h].config) \in Config
      /\ StripState(req[h].config).realm = req[h].config.realm
  BY <1>1, StateStripped
<1>4. c \in Config /\ (req[h].config.realm => c.realm)
  BY <1>3, ExtraSet
<1>5. y \in Row /\ y.provider = row[r].provider /\ y.secrets = req[h].secrets /\ y.config = c
  BY <1>1, <1>4, AllSet
<1> HIDE DEF y
<1> QED
  BY <1>1, <1>2, <1>4, <1>5 DEF StoreTokens, Rewrites

LEMMA SaveTokensRewrites ==
  ASSUME Typed, NEW h \in Handlers, SaveTokens(h)
  PROVE  \E x : /\ Rewrites(req[h].row, x)
                /\ x.secrets = req[h].secrets
                /\ x.status = row[req[h].row].status /\ x.config = row[req[h].row].config
<1> DEFINE r == req[h].row
           y == SetSecrets(row[r], req[h].secrets)
<1>1. r \in Rows /\ row[r] \in Row /\ req[h].secrets \in Secrets
  BY RequestShape DEF Typed, TypeOK, SaveTokens, Exists, HoldingOps, CarryingOps
<1>2. row' = [row EXCEPT ![r] = y]
  BY DEF SaveTokens, SetSecrets
<1>3. /\ y \in Row /\ y.provider = row[r].provider /\ y.secrets = req[h].secrets
      /\ y.config = row[r].config /\ y.status = row[r].status
  BY <1>1, SecretsSet
<1> HIDE DEF y
<1> QED
  BY <1>1, <1>2, <1>3 DEF SaveTokens, Rewrites

(* A new row has no tokens, and is connected only if it needs none. *)
LEMMA InsertInserts ==
  ASSUME Typed, NEW h \in Handlers, InsertRow(h)
  PROVE  \E r \in Rows, x \in Row :
           /\ row[r] = Nil /\ row' = [row EXCEPT ![r] = x]
           /\ x.secrets.refresh = 0 /\ x.secrets.access = 0
<1> DEFINE p == req[h].provider
           x == [provider |-> p,
                 status   |-> IF Catalogue[p].auth = "oauth2" THEN "pending_auth" ELSE "connected",
                 secrets  |-> [access |-> 0, refresh |-> 0],
                 config   |-> [state |-> 0, realm |-> FALSE]]
<1>1. p \in Providers
  BY RequestShape DEF Typed, TypeOK, InsertRow
<1>2. x \in Row /\ x.secrets.refresh = 0
  BY <1>1, BoundsAssumption DEF Row, Secrets, Config
<1>3. x.provider \in OAuthProviders => x.status = "pending_auth"
  BY DEF OAuthProviders, OAuthCatalogue, Catalogue
<1> QED
  BY <1>2, <1>3 DEF InsertRow

-----------------------------------------------------------------------------
(* The types *)

LEMMA InitTyped == Init => Typed
<1> SUFFICES ASSUME Init PROVE Typed
  OBVIOUS
<1> DEFINE n == Len(InitialProviders)
<1>1. /\ n \in Nat /\ DOMAIN InitialProviders = 1..n
      /\ \A r \in 1..n : InitialProviders[r] \in OAuthProviders \cap Providers
  BY ProvidersAssumption
<1>2. n <= MaxTokens /\ {MaxRequests, MaxStates, MaxTokens, MaxExpiries} \subseteq Nat
  BY BoundsAssumption
<1>3. ASSUME NEW r \in Rows PROVE row[r] \in Row \cup {Nil, Gone}
  <2>1. CASE r > n
    BY <2>1 DEF Init
  <2>2. CASE ~(r > n)
    <3>1. r \in 1..n /\ InitialProviders[r] \in Providers
      BY <1>1, <2>2, RowsAssumption
    <3>2. [state |-> 0, realm |-> FALSE] \in Config
      BY <1>2 DEF Config
    <3>3. WithExtra(OAuthCatalogue[InitialProviders[r]], [state |-> 0, realm |-> FALSE]) \in Config
      BY <3>2, ExtraSet
    <3>4. [access |-> r, refresh |-> r] \in Secrets
      BY <1>1, <1>2, <3>1 DEF Secrets
    <3>5. row[r] = [provider |-> InitialProviders[r], status |-> "connected",
                    secrets |-> [access |-> r, refresh |-> r],
                    config  |-> WithExtra(OAuthCatalogue[InitialProviders[r]],
                                          [state |-> 0, realm |-> FALSE])]
      BY <2>2 DEF Init
    <3> QED
      BY <3>1, <3>3, <3>4, <3>5 DEF Row
  <2> QED
    BY <2>1, <2>2
<1>4. row \in [Rows -> Row \cup {Nil, Gone}]
  BY <1>3 DEF Init
<1>5. req \in [Handlers -> Request] /\ StateIsKnown
  BY DEF Init, Request, Idle, StateIsKnown
<1>6. /\ requests \in 0..MaxRequests /\ states \in 0..MaxStates /\ tokens \in 0..MaxTokens
      /\ live \subseteq 1..tokens /\ expired \subseteq 1..tokens /\ spent \subseteq 1..states
  BY <1>1, <1>2 DEF Init
<1>7. /\ sync \in [Invoices -> Sync \cup {Nil}]
      /\ status \in [Invoices -> {"DRAFT", "SENT", "CANCELLED"}]
      /\ ledger \in Seq([invoice : Invoices, provider : OAuthProviders])
      /\ disturbed \subseteq Rows /\ patched \subseteq Rows /\ doubled \subseteq Invoices
  BY DEF Init
<1> QED
  BY <1>4, <1>5, <1>6, <1>7 DEF Typed, TypeOK

(* A row is rewritten or inserted, or goes. *)
LEMMA RowTyped ==
  ASSUME Typed, NEW r \in Rows, NEW x \in Row \cup {Gone}, row' = [row EXCEPT ![r] = x]
  PROVE  row' \in [Rows -> Row \cup {Nil, Gone}]
  BY DEF Typed, TypeOK

(* Request h goes on with q. *)
Becomes(h, q) == q \in Request /\ Goes(h, q)

LEMMA Becoming ==
  ASSUME Typed, NEW h \in Handlers, NEW q, Becomes(h, q), states' >= states, states' \in Nat,
         q.op = "exchange" => q.state \in 1..states
  PROVE  /\ req' \in [Handlers -> Request] /\ StateIsKnown'
         /\ req'[h] = q /\ \A g \in Handlers : g # h => req'[g] = req[g]
  BY DEF Typed, TypeOK, StateIsKnown, Becomes, Goes

LEMMA IdleBecomes == ASSUME NEW h, Idles(h) PROVE Becomes(h, Idle) /\ Idle.op = "idle"
  BY DEF Becomes, Goes, Idles, Request, Idle

(* The requests that read a row and hold it. *)
LEMMA HeldRequest ==
  ASSUME NEW r \in Rows, NEW x \in Row, NEW a \in Asking, NEW s \in 1..MaxStates
  PROVE  /\ \A c \in {"secrets", "config", "connected", "disabled"} :
              [op |-> "patch", row |-> r, change |-> c, secrets |-> x.secrets] \in Request
         /\ [op |-> "authorize", row |-> r, config |-> x.config] \in Request
         /\ \A named \in SUBSET Extras :
              [op |-> "exchange", row |-> r, state |-> s, named |-> named,
               secrets |-> x.secrets, config |-> x.config] \in Request
         /\ [op |-> "refresh", ask |-> a, row |-> r,
             secrets |-> x.secrets, config |-> x.config] \in Request
  BY RowShape DEF Request

(* What a push becomes in its steps. *)
LEMMA AskIsAsking ==
  ASSUME Typed, NEW h \in Handlers, req[h].op \in PushOps
  PROVE  req[h].ask \in Asking
  BY RequestShape DEF Typed, TypeOK

LEMMA OutcomeIsRequest ==
  ASSUME NEW a \in Asking, NEW s \in {"SYNCED", "FAILED"}, NEW x \in Nat
  PROVE  /\ Outcome(a, s, x) \in Request /\ Outcome(a, s, x).op = "record"
         /\ Outcome(a, s, x).ask = a /\ Outcome(a, s, x).status = s /\ Outcome(a, s, x).external = x
  BY DEF Outcome, Request

LEMMA FreshBecomes ==
  ASSUME Typed, NEW h \in Handlers, AskFresh(h)
  PROVE  \E q : /\ Becomes(h, q) /\ q.op \in {"push", "ask", "idle"}
                /\ q \in {NoToken(req[h].ask)} \cup {WithToken(req[h].ask, c) : c \in Config}
<1>1. req[h].ask \in Asking
  BY AskIsAsking DEF AskFresh, PushOps
<1>2. CASE Goes(h, NoToken(req[h].ask))
  BY <1>1, <1>2, NextWithoutToken DEF Becomes
<1>3. CASE \E r \in RowsOf(req[h].ask.provider) : Goes(h, WithToken(req[h].ask, row[r].config))
  <2>1. PICK r \in RowsOf(req[h].ask.provider) : Goes(h, WithToken(req[h].ask, row[r].config))
    BY <1>3
  <2>2. row[r].config \in Config
    BY <2>1, RowShape DEF RowsOf, Exists, Typed, TypeOK
  <2> QED
    BY <1>1, <2>1, <2>2, NextWithToken DEF Becomes
<1> QED
  BY <1>2, <1>3 DEF AskFresh

LEMMA RefusedBecomes ==
  ASSUME Typed, NEW h \in Handlers, RefreshRefused(h)
  PROVE  Becomes(h, NoToken(req[h].ask)) /\ NoToken(req[h].ask).op \in {"ask", "idle"}
<1>1. req[h].ask \in Asking
  BY AskIsAsking DEF RefreshRefused, PushOps
<1> QED
  BY <1>1, NextWithoutToken DEF RefreshRefused, Becomes

LEMMA SavedBecomes ==
  ASSUME Typed, NEW h \in Handlers, SaveTokens(h)
  PROVE  \E q : /\ Becomes(h, q) /\ q.op \in {"push", "ask", "idle"}
                /\ q \in {WithToken(req[h].ask, c) : c \in Config}
<1>1. req[h].ask \in Asking
  BY AskIsAsking DEF SaveTokens, PushOps
<1>2. req[h].config \in Config
  BY RequestShape DEF SaveTokens, Typed, TypeOK
<1> QED
  BY <1>1, <1>2, NextWithToken DEF SaveTokens, Becomes

LEMMA CustomerBecomes ==
  ASSUME Typed, NEW h \in Handlers, CreateCustomer(h)
  PROVE  \E q : /\ Becomes(h, q) /\ q.op \in {"bill", "record"} /\ q.ask = req[h].ask
                /\ q.op = "record" => q.status = "FAILED"
<1>1. req[h].ask \in Asking
  BY AskIsAsking DEF CreateCustomer, PushOps
<1>2. CASE Goes(h, [op |-> "bill", ask |-> req[h].ask])
  BY <1>1, <1>2 DEF Becomes, Request
<1>3. CASE Goes(h, Outcome(req[h].ask, "FAILED", 0))
  BY <1>1, <1>3, OutcomeIsRequest DEF Becomes
<1> QED
  BY <1>2, <1>3 DEF CreateCustomer

LEMMA UpsertWrites ==
  ASSUME Typed, NEW h \in Handlers, UpsertSync(h)
  PROVE  \E z \in Sync :
           /\ sync' = [sync EXCEPT ![req[h].ask.invoice] = z]
           /\ z.status = req[h].status /\ z.provider = req[h].ask.provider
           /\ z.status = "SYNCED" => z.external = req[h].external
<1> DEFINE q == req[h]
           i == q.ask.invoice
           old == IF sync[i] = Nil THEN [external |-> 0, attempts |-> 0] ELSE sync[i]
           z == [provider |-> q.ask.provider, status |-> q.status,
                 external |-> IF q.status = "SYNCED" THEN q.external ELSE old.external,
                 attempts |-> old.attempts + 1]
<1>1. q.ask \in Asking /\ q.status \in {"SYNCED", "FAILED"} /\ q.external \in Nat
  BY RequestShape DEF UpsertSync, Typed, TypeOK, PushOps
<1>2. i \in Invoices /\ q.ask.provider \in OAuthProviders
  BY <1>1 DEF Asking
<1>3. old.external \in Nat /\ old.attempts \in Nat
  BY <1>2 DEF Typed, TypeOK, Sync
<1>4. z \in Sync
  BY <1>1, <1>2, <1>3 DEF Sync
<1>5. sync' = [sync EXCEPT ![i] = z]
  BY DEF UpsertSync
<1>6. z.status = q.status /\ z.provider = q.ask.provider /\ (z.status = "SYNCED" => z.external = q.external)
  OBVIOUS
<1> QED
  BY <1>4, <1>5, <1>6

LEMMA NextTyped == Typed /\ [Next]_vars => Typed'
<1> SUFFICES ASSUME Typed, Next \/ UNCHANGED vars PROVE Typed'
  OBVIOUS
<1>0. /\ row \in [Rows -> Row \cup {Nil, Gone}] /\ sync \in [Invoices -> Sync \cup {Nil}]
      /\ status \in [Invoices -> {"DRAFT", "SENT", "CANCELLED"}]
      /\ req \in [Handlers -> Request]
      /\ requests \in 0..MaxRequests /\ states \in 0..MaxStates /\ tokens \in 0..MaxTokens
      /\ live \subseteq 1..tokens /\ expired \subseteq 1..tokens /\ spent \subseteq 1..states
      /\ ledger \in Seq([invoice : Invoices, provider : OAuthProviders])
      /\ disturbed \subseteq Rows /\ patched \subseteq Rows /\ doubled \subseteq Invoices
      /\ {MaxRequests, MaxStates, MaxTokens} \subseteq Nat
  BY BoundsAssumption DEF Typed, TypeOK
<1>q. ASSUME NEW h \in Handlers PROVE req[h] \in Request
  BY <1>0
(* A step that only moves its request, and the histories. *)
<1>m. ASSUME NEW h \in Handlers, NEW q, Becomes(h, q), q.op = "exchange" => q.state \in 1..states,
             requests' \in 0..MaxRequests, UNCHANGED <<database, states, tokens, outside>>,
             disturbed' \subseteq Rows, patched' \subseteq Rows, doubled' \subseteq Invoices
      PROVE  Typed'
  <2>1. req' \in [Handlers -> Request] /\ StateIsKnown'
    BY <1>0, <1>m, Becoming DEF outside
  <2> QED
    BY <1>0, <1>m, <2>1 DEF Typed, TypeOK, database, outside
(* A step that writes a row and leaves. *)
<1>w. ASSUME NEW h \in Handlers, NEW q, Becomes(h, q), q.op # "exchange",
             row' \in [Rows -> Row \cup {Nil, Gone}],
             requests' \in 0..MaxRequests, states' >= states, states' \in 0..MaxStates,
             disturbed' = disturbed, patched' \subseteq Rows,
             UNCHANGED <<sync, tokens, outside, doubled>>
      PROVE  Typed'
  <2>1. req' \in [Handlers -> Request] /\ StateIsKnown'
    BY <1>0, <1>w, Becoming
  <2>2. spent' \subseteq 1..states'
    BY <1>0, <1>w DEF outside
  <2> QED
    BY <1>0, <1>w, <2>1, <2>2 DEF Typed, TypeOK, outside
<1>b. ASSUME NEW h, Begin(h) PROVE requests' \in 0..MaxRequests
  BY <1>0, <1>b DEF Begin
<1>h. ASSUME NEW h, NEW r \in Rows, Holds(h, r) PROVE disturbed' \subseteq Rows
  BY <1>0, <1>h DEF Holds
<1>e. ASSUME NEW r, r \in Rows, Exists(r) PROVE row[r] \in Row
  BY <1>0, <1>e DEF Exists
<1>1. ASSUME NEW h \in Handlers, NEW p \in Providers, StartConnect(h, p) PROVE Typed'
  <2>1. Becomes(h, [op |-> "connect", provider |-> p])
    BY <1>1 DEF StartConnect, Becomes, Request
  <2> QED
    BY <1>0, <1>1, <1>b, <1>m, <2>1 DEF StartConnect, history
<1>2. ASSUME NEW h \in Handlers, InsertRow(h) PROVE Typed'
  <2>1. row' \in [Rows -> Row \cup {Nil, Gone}]
    BY <1>2, InsertInserts, RowTyped
  <2>2. Becomes(h, Idle) /\ Idle.op = "idle"
    BY <1>2, IdleBecomes DEF InsertRow
  <2> QED
    BY <1>0, <1>2, <1>w, <2>1, <2>2 DEF InsertRow, history, counters
<1>3. ASSUME NEW h \in Handlers, NEW r \in Rows, StartUpdate(h, r) PROVE Typed'
  <2>1. PICK c \in {"secrets", "config", "connected", "disabled"} :
          Goes(h, [op |-> "patch", row |-> r, change |-> c, secrets |-> row[r].secrets])
    BY <1>3 DEF StartUpdate
  <2>2. row[r].secrets \in Secrets
    BY <1>3, <1>e, RowShape DEF StartUpdate
  <2>3. Becomes(h, [op |-> "patch", row |-> r, change |-> c, secrets |-> row[r].secrets])
    BY <2>1, <2>2 DEF Becomes, Request
  <2> QED
    BY <1>0, <1>3, <1>b, <1>h, <1>m, <2>3 DEF StartUpdate
<1>4. ASSUME NEW h \in Handlers, UpdateRow(h) PROVE Typed'
  <2>1. PICK x : Rewrites(req[h].row, x)
    BY <1>4, UpdateRewrites
  <2>2. Becomes(h, Idle) /\ Idle.op = "idle"
    BY <1>4, IdleBecomes DEF UpdateRow
  <2>3. patched' \subseteq Rows
    BY <1>0, <1>4, <2>1 DEF UpdateRow, Rewrites
  <2>4. row' \in [Rows -> Row \cup {Nil, Gone}]
    BY <2>1, RowTyped DEF Rewrites
  <2>5. UNCHANGED <<sync, requests, states, tokens, outside, disturbed, doubled>>
    BY <1>4 DEF UpdateRow, counters
  <2> QED
    BY <1>0, <1>w, <2>2, <2>3, <2>4, <2>5
<1>5. ASSUME NEW h \in Handlers, NEW r \in Rows, Remove(h, r) PROVE Typed'
  <2>1. row' \in [Rows -> Row \cup {Nil, Gone}]
    BY <1>5, RowTyped DEF Remove
  <2> QED
    BY <1>0, <1>5, <1>b, <2>1 DEF Remove, Typed, TypeOK, StateIsKnown, outside, history
<1>6. ASSUME NEW h \in Handlers, NEW r \in Rows, StartAuthorize(h, r) PROVE Typed'
  <2>1. Becomes(h, [op |-> "authorize", row |-> r, config |-> row[r].config])
    <3>1. row[r].config \in Config
      BY <1>6, <1>e, RowShape DEF StartAuthorize
    <3> QED
      BY <1>6, <3>1 DEF StartAuthorize, Becomes, Request
  <2> QED
    BY <1>0, <1>6, <1>b, <1>h, <1>m, <2>1 DEF StartAuthorize
<1>7. ASSUME NEW h \in Handlers, SaveState(h) PROVE Typed'
  <2>1. PICK x : Rewrites(req[h].row, x)
    BY <1>7, SaveStateRewrites
  <2>2. Becomes(h, Idle) /\ Idle.op = "idle"
    BY <1>7, IdleBecomes DEF SaveState
  <2>3. row' \in [Rows -> Row \cup {Nil, Gone}]
    BY <2>1, RowTyped DEF Rewrites
  <2> QED
    BY <1>0, <1>7, <1>w, <2>2, <2>3 DEF SaveState, history
<1>8. ASSUME NEW h \in Handlers, NEW s \in 1..states, Callback(h, s) PROVE Typed'
  <2>1. PICK r \in Rows :
          /\ Exists(r) /\ Holds(h, r)
          /\ \E named \in SUBSET Extras :
               Goes(h, [op |-> "exchange", row |-> r, state |-> s, named |-> named,
                        secrets |-> row[r].secrets, config |-> row[r].config])
    BY <1>8 DEF Callback
  <2>n. PICK named \in SUBSET Extras :
          Goes(h, [op |-> "exchange", row |-> r, state |-> s, named |-> named,
                   secrets |-> row[r].secrets, config |-> row[r].config])
    BY <2>1
  <2>2. row[r].config \in Config /\ row[r].secrets \in Secrets /\ s \in 1..MaxStates
    BY <1>0, <1>e, <2>1, RowShape
  <2>3. Becomes(h, [op |-> "exchange", row |-> r, state |-> s, named |-> named,
                    secrets |-> row[r].secrets, config |-> row[r].config])
    BY <2>n, <2>2 DEF Becomes, Request
  <2> QED
    BY <1>0, <1>8, <1>b, <1>h, <1>m, <2>1, <2>3 DEF Callback
<1>9. ASSUME NEW h \in Handlers, CodeAccepted(h) PROVE Typed'
  <2>0. PICK k \in {0, tokens + 1} :
          /\ live' = live \cup ({k} \ {0})
          /\ \/ Goes(h, [op |-> "store", row |-> req[h].row, named |-> req[h].named,
                         config |-> req[h].config,
                         secrets |-> [access |-> tokens + 1, refresh |-> k]])
             \/ Idles(h)
    BY <1>9 DEF CodeAccepted
  <2>1. /\ tokens' = tokens + 1 /\ tokens' \in 0..MaxTokens
        /\ spent' = spent \cup {req[h].state}
        /\ req[h].op = "exchange"
    BY <1>0, <1>9 DEF CodeAccepted, Grant
  <2>2. /\ req[h].row \in Rows /\ req[h].config \in Config /\ req[h].state \in 1..states
        /\ req[h].named \in SUBSET Extras
    BY <1>q, <2>1, RequestShape DEF HoldingOps, Typed, StateIsKnown
  <2>3. [access |-> tokens + 1, refresh |-> k] \in Secrets
    BY <1>0, <2>1 DEF Secrets
  <2>4. [op |-> "store", row |-> req[h].row, named |-> req[h].named, config |-> req[h].config,
         secrets |-> [access |-> tokens + 1, refresh |-> k]] \in Request
    BY <2>2, <2>3 DEF Request
  <2>5. \E q : Becomes(h, q) /\ q.op # "exchange"
    BY <2>0, <2>4, IdleBecomes DEF Becomes
  <2>6. req' \in [Handlers -> Request] /\ StateIsKnown'
    BY <1>0, <1>9, <2>5, Becoming DEF CodeAccepted
  <2>7. live' \subseteq 1..tokens' /\ expired \subseteq 1..tokens' /\ spent' \subseteq 1..states
    <3>1. 1..tokens \subseteq 1..tokens' /\ tokens + 1 \in 1..tokens'
      BY <1>0, <2>1
    <3> QED
      BY <1>0, <2>0, <2>1, <2>2, <3>1
  <2> QED
    BY <1>0, <1>9, <2>1, <2>6, <2>7 DEF CodeAccepted, Typed, TypeOK, database, history
<1>10. ASSUME NEW h \in Handlers, CodeRefused(h) PROVE Typed'
  <2>1. req[h].row \in Rows /\ req[h].config \in Config
    BY <1>q, <1>10, RequestShape DEF CodeRefused, HoldingOps
  <2>2. Becomes(h, [op |-> "clear", row |-> req[h].row, config |-> req[h].config])
    BY <1>10, <2>1 DEF CodeRefused, Becomes, Request
  <2> QED
    BY <1>0, <1>10, <1>m, <2>2 DEF CodeRefused, history, counters
<1>11. ASSUME NEW h \in Handlers, StoreTokens(h) PROVE Typed'
  <2>1. PICK x : Rewrites(req[h].row, x)
    BY <1>11, StoreRewrites
  <2>2. Becomes(h, Idle) /\ Idle.op = "idle"
    BY <1>11, IdleBecomes DEF StoreTokens
  <2>3. row' \in [Rows -> Row \cup {Nil, Gone}]
    BY <2>1, RowTyped DEF Rewrites
  <2>4. UNCHANGED <<sync, requests, states, tokens, outside, disturbed, patched, doubled>>
    BY <1>11 DEF StoreTokens, history, counters
  <2> QED
    BY <1>0, <1>w, <2>2, <2>3, <2>4
<1>12. ASSUME NEW h \in Handlers, ClearState(h) PROVE Typed'
  <2>1. PICK x : Rewrites(req[h].row, x)
    BY <1>12, ClearRewrites
  <2>2. Becomes(h, Idle) /\ Idle.op = "idle"
    BY <1>12, IdleBecomes DEF ClearState
  <2>3. row' \in [Rows -> Row \cup {Nil, Gone}]
    BY <2>1, RowTyped DEF Rewrites
  <2>4. UNCHANGED <<sync, requests, states, tokens, outside, disturbed, patched, doubled>>
    BY <1>12 DEF ClearState, history, counters
  <2> QED
    BY <1>0, <1>w, <2>2, <2>3, <2>4
<1>a. ASSUME NEW h \in Handlers, req[h].op \in PushOps PROVE req[h].ask \in Asking
  BY <1>q, <1>a, RequestShape
<1>13. ASSUME NEW h \in Handlers, AskFresh(h) PROVE Typed'
  <2>1. PICK q : Becomes(h, q) /\ q.op \in {"push", "ask", "idle"}
    BY <1>13, FreshBecomes
  <2> QED
    BY <1>0, <1>13, <1>m, <2>1 DEF AskFresh, history, counters
<1>14. ASSUME NEW h \in Handlers, AskToRefresh(h) PROVE Typed'
  <2>1. PICK r \in RowsOf(req[h].ask.provider) :
          /\ Holds(h, r)
          /\ Goes(h, [op |-> "refresh", ask |-> req[h].ask, row |-> r,
                      secrets |-> row[r].secrets, config |-> row[r].config])
    BY <1>14 DEF AskToRefresh
  <2>2. r \in Rows /\ row[r].config \in Config /\ row[r].secrets \in Secrets /\ req[h].ask \in Asking
    BY <1>14, <1>a, <1>e, RowShape DEF AskToRefresh, RowsOf, PushOps
  <2>3. Becomes(h, [op |-> "refresh", ask |-> req[h].ask, row |-> r,
                    secrets |-> row[r].secrets, config |-> row[r].config])
    BY <2>1, <2>2 DEF Becomes, Request
  <2> QED
    BY <1>0, <1>14, <1>h, <1>m, <2>1, <2>2, <2>3 DEF AskToRefresh, counters
<1>15. ASSUME NEW h \in Handlers, TokenRefreshed(h) PROVE Typed'
  <2>1. /\ tokens' = tokens + 1 /\ tokens' \in 0..MaxTokens
        /\ req[h].op = "refresh" /\ req[h].secrets.refresh \in live
    BY <1>0, <1>15 DEF TokenRefreshed, Grant
  <2>2. /\ req[h].row \in Rows /\ req[h].config \in Config /\ req[h].ask \in Asking
    BY <1>q, <2>1, RequestShape DEF HoldingOps, PushOps
  <2>3. PICK k \in {tokens + 1, req[h].secrets.refresh} :
          /\ live' = (live \ {req[h].secrets.refresh}) \cup {k}
          /\ \/ /\ Goes(h, [op |-> "save", ask |-> req[h].ask, row |-> req[h].row,
                            config |-> req[h].config,
                            secrets |-> [access |-> tokens + 1, refresh |-> k]])
                /\ UNCHANGED history
             \/ /\ Idles(h) /\ disturbed' = disturbed \cup {req[h].row}
                /\ UNCHANGED <<patched, doubled>>
    BY <1>15 DEF TokenRefreshed, Refreshed
  <2>4. k \in 1..tokens' /\ [access |-> tokens + 1, refresh |-> k] \in Secrets
    BY <1>0, <2>1 DEF Secrets
  <2>5. [op |-> "save", ask |-> req[h].ask, row |-> req[h].row, config |-> req[h].config,
         secrets |-> [access |-> tokens + 1, refresh |-> k]] \in Request
    BY <2>2, <2>4 DEF Request
  <2>6. \E q : Becomes(h, q) /\ q.op # "exchange"
    BY <2>3, <2>5, IdleBecomes DEF Becomes
  <2>7. req' \in [Handlers -> Request] /\ StateIsKnown'
    BY <1>0, <1>15, <2>6, Becoming DEF TokenRefreshed
  <2>8. /\ live' \subseteq 1..tokens' /\ expired \subseteq 1..tokens'
        /\ disturbed' \subseteq Rows /\ UNCHANGED <<patched, doubled>>
    <3>1. 1..tokens \subseteq 1..tokens'
      BY <1>0, <2>1
    <3> QED
      BY <1>0, <2>2, <2>3, <2>4, <3>1 DEF history
  <2> QED
    BY <1>0, <1>15, <2>1, <2>7, <2>8 DEF TokenRefreshed, Typed, TypeOK, database
<1>16. ASSUME NEW h \in Handlers, RefreshRefused(h) PROVE Typed'
  <2>1. Becomes(h, NoToken(req[h].ask)) /\ NoToken(req[h].ask).op \in {"ask", "idle"}
    BY <1>16, RefusedBecomes
  <2> QED
    BY <1>0, <1>16, <1>m, <2>1 DEF RefreshRefused, history, counters
<1>17. ASSUME NEW h \in Handlers, SaveTokens(h) PROVE Typed'
  <2>1. PICK x : Rewrites(req[h].row, x)
    BY <1>17, SaveTokensRewrites
  <2>2. PICK q : Becomes(h, q) /\ q.op \in {"push", "ask", "idle"}
    BY <1>17, SavedBecomes
  <2>3. row' \in [Rows -> Row \cup {Nil, Gone}]
    BY <2>1, RowTyped DEF Rewrites
  <2> QED
    BY <1>0, <1>17, <1>w, <2>2, <2>3 DEF SaveTokens, history, counters
<1>18. ASSUME NEW h \in Handlers, NEW i \in Invoices, StartSync(h, i) PROVE Typed'
  <2>1. [invoice |-> i, seen |-> status[i], provider |-> "quickbooks", again |-> FALSE] \in Asking
    BY <1>0 DEF Asking, OAuthProviders, OAuthCatalogue
  <2>2. Becomes(h, [op |-> "ask", ask |-> [invoice |-> i, seen |-> status[i],
                                          provider |-> "quickbooks", again |-> FALSE]])
    BY <1>18, <2>1 DEF StartSync, Becomes, Request
  <2> QED
    BY <1>0, <1>18, <1>b, <1>m, <2>2 DEF StartSync
<1>19. ASSUME NEW h \in Handlers, CreateCustomer(h) PROVE Typed'
  <2>1. PICK q : Becomes(h, q) /\ q.op \in {"bill", "record"}
    BY <1>19, CustomerBecomes
  <2> QED
    BY <1>0, <1>19, <1>m, <2>1 DEF CreateCustomer, history, counters
<1>20. ASSUME NEW h \in Handlers, CreateDocument(h) PROVE Typed'
  <2>1. req[h].ask \in Asking
    BY <1>20, <1>a DEF CreateDocument, PushOps
  <2>2. Len(ledger) + 1 \in Nat
    BY <1>0
  <2>3. PICK q : Becomes(h, q) /\ q.op = "record"
    BY <1>20, <2>1, <2>2, OutcomeIsRequest DEF CreateDocument, Becomes, SuccessOf
  <2>4. /\ [invoice |-> req[h].ask.invoice, provider |-> req[h].ask.provider]
              \in [invoice : Invoices, provider : OAuthProviders]
        /\ req[h].ask.invoice \in Invoices
    BY <2>1 DEF Asking
  <2>5. ledger' \in Seq([invoice : Invoices, provider : OAuthProviders])
    BY <1>0, <1>20, <2>4 DEF CreateDocument
  <2>6. disturbed' \subseteq Rows /\ patched' \subseteq Rows /\ doubled' \subseteq Invoices
    BY <1>0, <1>20, <2>4 DEF CreateDocument, history
  <2>7. req' \in [Handlers -> Request] /\ StateIsKnown'
    BY <1>0, <1>20, <2>3, Becoming DEF CreateDocument, counters
  <2> QED
    BY <1>0, <1>20, <2>5, <2>6, <2>7 DEF CreateDocument, Typed, TypeOK, database, counters
<1>21. ASSUME NEW h \in Handlers, DocumentRefused(h) PROVE Typed'
  <2>1. req[h].ask \in Asking
    BY <1>21, <1>a DEF DocumentRefused, PushOps
  <2>2. PICK q : Becomes(h, q) /\ q.op = "record"
    BY <1>21, <2>1, OutcomeIsRequest DEF DocumentRefused, Becomes
  <2> QED
    BY <1>0, <1>21, <1>m, <2>2 DEF DocumentRefused, history, counters
<1>22. ASSUME NEW h \in Handlers, UpsertSync(h) PROVE Typed'
  <2>1. PICK z \in Sync : sync' = [sync EXCEPT ![req[h].ask.invoice] = z]
    BY <1>22, UpsertWrites
  <2>2. Becomes(h, Idle) /\ Idle.op = "idle"
    BY <1>22, IdleBecomes DEF UpsertSync
  <2>3. req' \in [Handlers -> Request] /\ StateIsKnown'
    BY <1>0, <1>22, <2>2, Becoming DEF UpsertSync, counters
  <2>4. sync' \in [Invoices -> Sync \cup {Nil}]
    BY <1>0, <2>1
  <2> QED
    BY <1>0, <1>22, <2>3, <2>4 DEF UpsertSync, Typed, TypeOK, outside, counters, history
<1>23. ASSUME NEW h \in Handlers, UpsertFails(h) PROVE Typed'
  <2>1. req[h].ask \in Asking /\ req[h].ask.invoice \in Invoices
    BY <1>23, <1>a DEF UpsertFails, PushOps, Asking
  <2>2. PICK q : Becomes(h, q) /\ q.op = "record"
    BY <1>23, <2>1, OutcomeIsRequest DEF UpsertFails, Becomes
  <2> QED
    BY <1>0, <1>23, <1>m, <2>1, <2>2 DEF UpsertFails, counters
<1>24. ASSUME NEW h \in Handlers, Fails(h) PROVE Typed'
  <2>1. /\ req[h].op = "save" => req[h].row \in Rows
        /\ req[h].op = "record" => req[h].ask.invoice \in Invoices
    BY <1>q, RequestShape DEF HoldingOps, PushOps, Asking
  <2>2. Becomes(h, Idle) /\ Idle.op = "idle"
    BY <1>24, IdleBecomes DEF Fails
  <2> QED
    BY <1>0, <1>24, <1>m, <2>1, <2>2 DEF Fails, counters
<1>25. ASSUME NEW n \in 1..MaxTokens, AccessExpires(n) PROVE Typed'
  BY <1>0, <1>25 DEF AccessExpires, Typed, TypeOK, StateIsKnown, database, counters, history
<1>26. ASSUME NEW i \in Invoices, InvoiceMoves(i) PROVE Typed'
  BY <1>0, <1>26 DEF InvoiceMoves, Typed, TypeOK, StateIsKnown, database, counters, history
<1>27. CASE UNCHANGED vars
  BY <1>27 DEF vars, Typed, TypeOK, StateIsKnown, database, counters, outside, history
<1> QED
  BY <1>1, <1>2, <1>3, <1>4, <1>5, <1>6, <1>7, <1>8, <1>9, <1>10, <1>11, <1>12, <1>13, <1>14, <1>15,
     <1>16, <1>17, <1>18, <1>19, <1>20, <1>21, <1>22, <1>23, <1>24, <1>25, <1>26, <1>27
     DEF Next, StartOn, Step

LEMMA AlwaysTyped == Spec => []Typed
  BY InitTyped, NextTyped, PTL DEF Spec

(* Every row, request, document and counter has its type. *)
THEOREM TypeCorrect == Spec => []TypeOK
  BY AlwaysTyped, PTL DEF Typed

-----------------------------------------------------------------------------
(* The tokens *)

LEMMA Unpacked ==
  ASSUME Typed
  PROVE  /\ row \in [Rows -> Row \cup {Nil, Gone}] /\ req \in [Handlers -> Request]
         /\ tokens \in Nat /\ MaxTokens \in Nat /\ live \subseteq 1..tokens
         /\ disturbed \subseteq Rows
  BY BoundsAssumption DEF Typed, TypeOK

LEMMA RowThere ==
  ASSUME Typed, NEW r \in Rows
  PROVE  Exists(r) <=> row[r] \in Row
  BY RowShape DEF Typed, TypeOK, Exists

LEMMA HolderShape ==
  ASSUME Typed, NEW h \in Handlers
  PROVE  /\ req[h].op \in HoldingOps => req[h].row \in Rows
         /\ req[h].op \in CarryingOps => req[h].secrets \in Secrets
  BY RequestShape DEF Typed, TypeOK

LEMMA CarryingHolds == CarryingOps \subseteq HoldingOps
  BY DEF CarryingOps, HoldingOps

(* Nothing comes to own a token; or one row comes to own a new one. *)
LEMMA NothingGained ==
  ASSUME Typed, Separate, tokens' \in Nat, tokens' >= tokens,
         \A r \in Rows : \A t \in 1..MaxTokens : Owns(r, t)' => Owns(r, t)
  PROVE  Separate'
<1> SUFFICES ASSUME NEW r \in Rows, NEW s \in Rows, NEW t \in 1..MaxTokens
             PROVE  /\ Owns(r, t)' => t <= tokens'
                    /\ Owns(r, t)' /\ Owns(s, t)' => r = s
  BY DEF Separate
<1>1. /\ Owns(r, t) => t <= tokens
      /\ Owns(r, t) /\ Owns(s, t) => r = s
  BY DEF Separate
<1>2. (Owns(r, t)' => Owns(r, t)) /\ (Owns(s, t)' => Owns(s, t))
  OBVIOUS
<1>3. t \in Nat /\ tokens \in Nat
  BY Unpacked
<1> HIDE DEF Owns
<1> QED
  BY <1>1, <1>2, <1>3

LEMMA OneGained ==
  ASSUME Typed, Separate, tokens' = tokens + 1, NEW x \in Rows,
         \A r \in Rows : \A t \in 1..MaxTokens :
           Owns(r, t)' => Owns(r, t) \/ (r = x /\ t = tokens + 1)
  PROVE  Separate'
<1> SUFFICES ASSUME NEW r \in Rows, NEW s \in Rows, NEW t \in 1..MaxTokens
             PROVE  /\ Owns(r, t)' => t <= tokens'
                    /\ Owns(r, t)' /\ Owns(s, t)' => r = s
  BY DEF Separate
<1>1. /\ Owns(r, t) => t <= tokens
      /\ Owns(s, t) => t <= tokens
      /\ Owns(r, t) /\ Owns(s, t) => r = s
  BY DEF Separate
<1>2. /\ Owns(r, t)' => Owns(r, t) \/ (r = x /\ t = tokens + 1)
      /\ Owns(s, t)' => Owns(s, t) \/ (s = x /\ t = tokens + 1)
  OBVIOUS
<1>3. t \in Nat /\ tokens \in Nat
  BY Unpacked
<1> HIDE DEF Owns
<1> QED
  BY <1>1, <1>2, <1>3

(* Only request h moves. *)
Moves(h) == \A g \in Handlers : g # h => req'[g] = req[g]

(* Request h holds no row any more. *)
LEMMA MoveOn ==
  ASSUME Typed, Typed', TokenInv, NEW h \in Handlers, Moves(h), row' = row,
         tokens' >= tokens, live \subseteq live', disturbed \subseteq disturbed',
         req'[h].op \notin HoldingOps,
         req[h].op = "save" => req[h].row \in disturbed'
  PROVE  TokenInv'
<1>1. Alone' /\ HeldWasThere'
  BY DEF TokenInv, Alone, HeldWasThere, Held, Moves
<1>2. Separate'
  <2>1. \A r \in Rows : \A t \in 1..MaxTokens : Owns(r, t)' => Owns(r, t)
    BY CarryingHolds DEF Owns, InRow, Carries, Moves, Exists
  <2>2. tokens' \in Nat
    BY DEF Typed, TypeOK
  <2> QED
    BY <2>1, <2>2, NothingGained DEF TokenInv
<1>3. Carried'
  BY DEF TokenInv, Carried, CarriedBy, Moves, Exists, HoldingOps
<1>4. RowIsLive'
  <2> SUFFICES ASSUME NEW r \in Rows \ disturbed', Exists(r), row[r].secrets.refresh # 0,
                      \A g \in Handlers : ~(Held(g, r) /\ req[g].op = "save")'
               PROVE  row[r].secrets.refresh \in live'
    BY DEF RowIsLive, Exists
  <2>1. \A g \in Handlers : ~(Held(g, r) /\ req[g].op = "save")
    BY DEF Moves, Held
  <2> QED
    BY <2>1 DEF TokenInv, RowIsLive
<1> QED
  BY <1>1, <1>2, <1>3, <1>4 DEF TokenInv

(* Request h takes row r and reads it. *)
LEMMA Take ==
  ASSUME Typed, Typed', TokenInv, NEW h \in Handlers, NEW r \in Rows, Moves(h), row' = row,
         tokens' = tokens, live' = live, Holds(h, r), Exists(r),
         req[h].op \notin HoldingOps,
         req'[h].op \in {"patch", "authorize", "exchange", "refresh"}, req'[h].row = r,
         req'[h].op # "authorize" => req'[h].secrets = row[r].secrets,
         req'[h].op = "refresh" => row[r].secrets.refresh # 0
  PROVE  TokenInv'
<1>0. disturbed \subseteq disturbed' /\ (r \notin disturbed' => Holders(r) \ {h} = {})
  BY DEF Holds
<1>1. Alone'
  <2> SUFFICES ASSUME NEW s \in Rows \ disturbed', NEW f \in Handlers, NEW g \in Handlers,
                      Held(f, s)', Held(g, s)'
               PROVE  f = g
    BY DEF Alone
  <2>1. s # r => Held(f, s) /\ Held(g, s)
    BY DEF Held, Moves
  <2>2. s = r => f = h /\ g = h
    BY <1>0 DEF Held, Moves, Holders
  <2> QED
    BY <1>0, <2>1, <2>2 DEF TokenInv, Alone
<1>2. Separate'
  <2>1. \A s \in Rows : \A t \in 1..MaxTokens : Owns(s, t)' => Owns(s, t)
    BY DEF Owns, InRow, Carries, Moves, Exists, CarryingOps
  <2>2. tokens' \in Nat
    BY DEF Typed, TypeOK
  <2> QED
    BY <2>1, <2>2, NothingGained DEF TokenInv
<1>3. Carried'
  BY <1>0 DEF TokenInv, Carried, CarriedBy, Moves, Exists
<1>4. RowIsLive'
  <2> SUFFICES ASSUME NEW s \in Rows \ disturbed', Exists(s), row[s].secrets.refresh # 0,
                      \A g \in Handlers : ~(Held(g, s) /\ req[g].op = "save")'
               PROVE  row[s].secrets.refresh \in live
    BY DEF RowIsLive, Exists
  <2>1. \A g \in Handlers : ~(Held(g, s) /\ req[g].op = "save")
    BY DEF Moves, Held, HoldingOps
  <2> QED
    BY <1>0, <2>1 DEF TokenInv, RowIsLive
<1>5. HeldWasThere'
  BY DEF TokenInv, HeldWasThere, Moves, Exists
<1> QED
  BY <1>1, <1>2, <1>3, <1>4, <1>5 DEF TokenInv

(* Request h writes row r, which it held, and holds it no more. *)
LEMMA Write ==
  ASSUME Typed, Typed', TokenInv, NEW h \in Handlers, NEW r, NEW x,
         Moves(h), Held(h, r), Rewrites(r, x),
         UNCHANGED <<tokens, live, disturbed>>, req'[h].op \notin HoldingOps,
         \/ x.secrets = row[r].secrets /\ req[h].op # "save"
         \/ x.secrets = req[h].secrets /\ req[h].op \in {"patch", "store", "save"}
  PROVE  TokenInv'
<1>0. /\ r \in Rows /\ row[r] \in Row /\ x \in Row /\ Exists(r) /\ Exists(r)'
      /\ row'[r] = x /\ \A s \in Rows : s # r => row'[s] = row[s]
  BY Unpacked, RowThere, RowShape DEF Rewrites, Exists
<1>1. \A s \in Rows : s # r => (Exists(s)' <=> Exists(s))
  BY <1>0 DEF Exists
<1>2. Alone'
  BY DEF TokenInv, Alone, Held, Moves
<1>3. HeldWasThere'
  <2> SUFFICES ASSUME NEW g \in Handlers, req'[g].op \in HoldingOps PROVE row'[req'[g].row] # Nil
    BY DEF HeldWasThere
  <2>1. req'[g] = req[g] /\ req[g].row \in Rows
    BY HolderShape DEF Moves
  <2> QED
    BY <1>0, <2>1, RowShape DEF TokenInv, HeldWasThere
<1>4. Separate'
  <2>s. ASSUME NEW s \in Rows, NEW t \in 1..MaxTokens, Owns(s, t)' PROVE Owns(s, t)
    <3>1. CASE InRow(s, t)' /\ s = r
      <4>1. x.secrets.refresh = t
        BY <1>0, <3>1 DEF InRow
      <4>2. InRow(r, t) \/ Carries(h, r, t)
        BY <1>0, <4>1 DEF InRow, Carries, CarryingOps, Held
      <4> QED
        BY <3>1, <4>2 DEF Owns
    <3>2. CASE InRow(s, t)' /\ s # r
      BY <1>0, <1>1, <3>2 DEF InRow, Owns
    <3>3. ASSUME NEW g \in Handlers, Carries(g, s, t)' PROVE Owns(s, t)
      BY <3>3, CarryingHolds DEF Carries, Moves, Owns
    <3> QED
      BY <2>s, <3>1, <3>2, <3>3 DEF Owns
  <2> QED
    BY <2>s, NothingGained, Unpacked DEF TokenInv
<1>5. ASSUME NEW g \in Handlers, g # h, req[g].op \in HoldingOps, req[g].row \notin disturbed
      PROVE  req[g].row \in Rows /\ req[g].row # r
  BY <1>0, <1>5, HolderShape DEF TokenInv, Alone, Held
<1>6. ASSUME NEW g \in Handlers PROVE CarriedBy(g)'
  <2>1. CASE g = h
    BY <2>1 DEF CarriedBy, HoldingOps
  <2>2. CASE g # h
    <3>1. req'[g] = req[g] /\ CarriedBy(g)
      BY <2>2 DEF Moves, TokenInv, Carried
    <3>2. ASSUME req[g].op \in {"patch", "refresh"}, req[g].row \notin disturbed,
                 row'[req[g].row] \notin {Nil, Gone}
          PROVE  req[g].secrets = row'[req[g].row].secrets
      <4>1. req[g].row \in Rows /\ req[g].row # r
        BY <1>5, <2>2, <3>1, <3>2 DEF HoldingOps
      <4>2. row'[req[g].row] = row[req[g].row]
        BY <1>0, <4>1
      <4> QED
        BY <3>1, <3>2, <4>2 DEF CarriedBy, Exists
    <3> QED
      BY <3>1, <3>2 DEF CarriedBy, Exists
  <2> QED
    BY <2>1, <2>2
<1>7. RowIsLive'
  <2> SUFFICES ASSUME NEW s \in Rows, s \notin disturbed, Exists(s)', row'[s].secrets.refresh # 0,
                      \A g \in Handlers : ~(Held(g, s) /\ req[g].op = "save")'
               PROVE  row'[s].secrets.refresh \in live
    BY DEF RowIsLive
  <2>1. CASE s # r
    <3>1. \A g \in Handlers : ~(Held(g, s) /\ req[g].op = "save")
      BY <2>1 DEF Moves, Held
    <3> QED
      BY <1>0, <1>1, <2>1, <3>1 DEF TokenInv, RowIsLive
  <2>2. CASE s = r
    <3>1. CASE req[h].op # "save" /\ x.secrets = row[r].secrets
      <4>1. \A g \in Handlers : ~(Held(g, r) /\ req[g].op = "save")
        BY <1>0, <2>2, <3>1 DEF TokenInv, Alone
      <4> QED
        BY <1>0, <2>2, <3>1, <4>1 DEF TokenInv, RowIsLive
    <3>2. CASE req[h].op \in {"store", "save"} /\ x.secrets = req[h].secrets
      BY <1>0, <2>2, <3>2 DEF TokenInv, Carried, CarriedBy, Held
    <3>3. CASE req[h].op = "patch" /\ x.secrets = req[h].secrets
      <4>1. x.secrets = row[r].secrets
        BY <1>0, <2>2, <3>3 DEF TokenInv, Carried, CarriedBy, Held
      <4> QED
        BY <3>1, <3>3, <4>1
    <3> QED
      BY <3>1, <3>2, <3>3
  <2> QED
    BY <2>1, <2>2
<1> QED
  BY <1>2, <1>3, <1>4, <1>6, <1>7 DEF TokenInv, Carried

(* A row that nobody holds is inserted without tokens. *)
LEMMA Insert ==
  ASSUME Typed, Typed', TokenInv, NEW h \in Handlers, Moves(h), NEW r \in Rows, NEW x \in Row,
         row[r] = Nil, row' = [row EXCEPT ![r] = x], x.secrets.refresh = 0,
         UNCHANGED <<tokens, live, disturbed>>,
         req[h].op \notin HoldingOps, req'[h].op \notin HoldingOps
  PROVE  TokenInv'
<1>0. row'[r] = x /\ \A s \in Rows : s # r => row'[s] = row[s]
  BY Unpacked
<1>1. ASSUME NEW g \in Handlers, req'[g].op \in HoldingOps
      PROVE  /\ req'[g] = req[g] /\ req[g].row \in Rows /\ row'[req[g].row] = row[req[g].row]
             /\ req[g].row # r
  BY <1>0, <1>1, HolderShape DEF TokenInv, HeldWasThere, Moves
<1>2. Alone' /\ HeldWasThere'
  BY <1>1 DEF TokenInv, Alone, HeldWasThere, Held
<1>3. Separate'
  <2>s. ASSUME NEW s \in Rows, NEW t \in 1..MaxTokens, Owns(s, t)' PROVE Owns(s, t)
    <3>1. InRow(s, t)' => InRow(s, t)
      BY <1>0 DEF InRow, Exists
    <3>2. \A g \in Handlers : Carries(g, s, t)' => Carries(g, s, t)
      BY CarryingHolds DEF Carries, Moves
    <3> QED
      BY <2>s, <3>1, <3>2 DEF Owns
  <2> QED
    BY <2>s, NothingGained, Unpacked DEF TokenInv
<1>4. ASSUME NEW g \in Handlers PROVE CarriedBy(g)'
  <2>1. CASE req'[g].op \in HoldingOps
    BY <1>1, <2>1 DEF TokenInv, Carried, CarriedBy, Exists
  <2> QED
    BY <2>1 DEF CarriedBy, HoldingOps
<1>5. RowIsLive'
  <2> SUFFICES ASSUME NEW s \in Rows, s \notin disturbed, Exists(s)', row'[s].secrets.refresh # 0,
                      \A g \in Handlers : ~(Held(g, s) /\ req[g].op = "save")'
               PROVE  row'[s].secrets.refresh \in live
    BY DEF RowIsLive
  <2>1. s # r
    BY <1>0
  <2>2. Exists(s) /\ row'[s] = row[s]
    BY <1>0, <2>1 DEF Exists
  <2>3. ASSUME NEW g \in Handlers PROVE ~(Held(g, s) /\ req[g].op = "save")
    <3>1. CASE g = h
      BY <3>1, <2>2 DEF Held, HoldingOps
    <3>2. CASE g # h
      BY <3>2 DEF Moves, Held
    <3> QED
      BY <3>1, <3>2
  <2> QED
    BY <2>2, <2>3 DEF TokenInv, RowIsLive
<1> QED
  BY <1>2, <1>3, <1>4, <1>5 DEF TokenInv, Carried

LEMMA RemoveKeeps ==
  ASSUME Typed, Typed', TokenInv, NEW r \in Rows, row' = [row EXCEPT ![r] = Gone],
         UNCHANGED <<req, tokens, live, disturbed>>
  PROVE  TokenInv'
<1>0. /\ row'[r] = Gone /\ \A s \in Rows : s # r => row'[s] = row[s]
      /\ \A s \in Rows : Exists(s)' => row'[s] = row[s] /\ Exists(s)
  BY Unpacked DEF Exists
<1>1. Alone'
  BY DEF TokenInv, Alone, Held
<1>2. HeldWasThere'
  BY <1>0, HolderShape, NilAssumption DEF TokenInv, HeldWasThere
<1>3. Separate'
  <2>s. ASSUME NEW s \in Rows, NEW t \in 1..MaxTokens, Owns(s, t)' PROVE Owns(s, t)
    <3>1. InRow(s, t)' => InRow(s, t)
      BY <1>0 DEF InRow
    <3>2. \A g \in Handlers : Carries(g, s, t)' => Carries(g, s, t)
      BY DEF Carries
    <3> QED
      BY <2>s, <3>1, <3>2 DEF Owns
  <2> QED
    BY <2>s, NothingGained, Unpacked DEF TokenInv
<1>4. ASSUME NEW g \in Handlers PROVE CarriedBy(g)'
  <2>1. CarriedBy(g) /\ (req[g].op \in {"patch", "refresh"} => req[g].row \in Rows)
    BY HolderShape DEF TokenInv, Carried, HoldingOps
  <2>2. req[g].op \in {"patch", "refresh"} /\ row'[req[g].row] \notin {Nil, Gone} =>
          row'[req[g].row] = row[req[g].row]
    BY <1>0, <2>1 DEF Exists
  <2> QED
    BY <2>1, <2>2 DEF CarriedBy, Exists
<1>5. RowIsLive'
  <2> SUFFICES ASSUME NEW s \in Rows, s \notin disturbed, Exists(s)', row'[s].secrets.refresh # 0,
                      \A g \in Handlers : ~(Held(g, s) /\ req[g].op = "save")'
               PROVE  row'[s].secrets.refresh \in live
    BY DEF RowIsLive
  <2>1. \A g \in Handlers : ~(Held(g, s) /\ req[g].op = "save")
    BY DEF Held
  <2> QED
    BY <1>0, <2>1 DEF TokenInv, RowIsLive
<1> QED
  BY <1>1, <1>2, <1>3, <1>4, <1>5 DEF TokenInv, Carried

(* The code is refused: the request goes on holding the row, without secrets. *)
LEMMA RefusedKeeps ==
  ASSUME Typed, Typed', TokenInv, NEW h \in Handlers, CodeRefused(h)
  PROVE  TokenInv'
<1>0. /\ req[h].op = "exchange" /\ req'[h].op = "clear" /\ req'[h].row = req[h].row
      /\ Moves(h) /\ UNCHANGED <<row, tokens, live, disturbed>>
  BY Unpacked DEF CodeRefused, Goes, Moves, database, counters, outside, history
<1>1. \A g \in Handlers, s \in Rows : Held(g, s)' <=> Held(g, s)
  BY <1>0 DEF Held, Moves, HoldingOps
<1>2. Alone' /\ HeldWasThere'
  BY <1>0, <1>1 DEF TokenInv, Alone, HeldWasThere, Moves, HoldingOps
<1>3. Separate'
  <2>1. \A s \in Rows : \A t \in 1..MaxTokens : Owns(s, t)' => Owns(s, t)
    BY <1>0 DEF Owns, InRow, Carries, Moves, Exists, CarryingOps
  <2> QED
    BY <1>0, <2>1, NothingGained, Unpacked DEF TokenInv
<1>4. Carried'
  BY <1>0 DEF TokenInv, Carried, CarriedBy, Moves, Exists
<1>5. RowIsLive'
  <2> SUFFICES ASSUME NEW s \in Rows, s \notin disturbed, Exists(s), row[s].secrets.refresh # 0,
                      \A g \in Handlers : ~(Held(g, s) /\ req[g].op = "save")'
               PROVE  row[s].secrets.refresh \in live
    BY <1>0 DEF RowIsLive, Exists
  <2>1. \A g \in Handlers : ~(Held(g, s) /\ req[g].op = "save")
    BY <1>0 DEF Held, Moves
  <2> QED
    BY <2>1 DEF TokenInv, RowIsLive
<1> QED
  BY <1>2, <1>3, <1>4, <1>5 DEF TokenInv

(* The code is exchanged for a new token, which is on its way to the row. *)
LEMMA GrantKeeps ==
  ASSUME Typed, Typed', TokenInv, NEW h \in Handlers, NEW r \in Rows, Moves(h), Held(h, r),
         req[h].op = "exchange", req'[h].op = "store", req'[h].row = r,
         NEW k \in {0, tokens + 1}, req'[h].secrets.refresh = k,
         tokens' = tokens + 1, live' = live \cup ({k} \ {0}), UNCHANGED <<row, disturbed>>
  PROVE  TokenInv'
<1>1. \A g \in Handlers, s \in Rows : Held(g, s)' <=> Held(g, s)
  BY DEF Held, Moves, HoldingOps
<1>2. Alone' /\ HeldWasThere'
  BY <1>1 DEF TokenInv, Alone, HeldWasThere, Moves, HoldingOps, Held
<1>3. Separate'
  <2>1. ASSUME NEW s \in Rows, NEW t \in 1..MaxTokens, Owns(s, t)'
        PROVE  Owns(s, t) \/ (s = r /\ t = tokens + 1)
    <3>1. InRow(s, t)' => InRow(s, t)
      BY DEF InRow, Exists
    <3>2. \A g \in Handlers : Carries(g, s, t)' => Carries(g, s, t) \/ (s = r /\ t = tokens + 1)
      BY DEF Carries, Moves
    <3> QED
      BY <2>1, <3>1, <3>2 DEF Owns
  <2> QED
    BY <2>1, OneGained DEF TokenInv
<1>4. Carried'
  BY Unpacked DEF TokenInv, Carried, CarriedBy, Moves, Exists
<1>5. RowIsLive'
  <2> SUFFICES ASSUME NEW s \in Rows, s \notin disturbed, Exists(s), row[s].secrets.refresh # 0,
                      \A g \in Handlers : ~(Held(g, s) /\ req[g].op = "save")'
               PROVE  row[s].secrets.refresh \in live
    BY DEF RowIsLive, Exists
  <2>1. \A g \in Handlers : ~(Held(g, s) /\ req[g].op = "save")
    BY DEF Held, Moves
  <2> QED
    BY <2>1 DEF TokenInv, RowIsLive
<1> QED
  BY <1>2, <1>3, <1>4, <1>5 DEF TokenInv

(* The provider takes the refresh token of the row and gives another, which is
   on its way to the row or lost. *)
LEMMA RotateKeeps ==
  ASSUME Typed, Typed', TokenInv, NEW h \in Handlers, NEW r \in Rows, Moves(h), Held(h, r),
         req[h].op = "refresh", NEW o, o = req[h].secrets.refresh, o \in live,
         NEW k \in {tokens + 1, o}, live' = (live \ {o}) \cup {k},
         tokens' = tokens + 1, row' = row,
         \/ /\ req'[h].op = "save" /\ req'[h].row = r /\ req'[h].secrets.refresh = k
            /\ disturbed' = disturbed
         \/ req'[h].op \notin HoldingOps /\ disturbed' = disturbed \cup {r}
  PROVE  TokenInv'
<1>0. /\ o \in 1..MaxTokens /\ tokens \in Nat /\ k # 0
      /\ disturbed \subseteq disturbed' /\ Carries(h, r, o)
  <2>1. tokens \in 0..MaxTokens /\ MaxTokens \in Nat /\ live \subseteq 1..tokens
    BY BoundsAssumption DEF Typed, TypeOK
  <2>2. o \in 1..MaxTokens /\ tokens \in Nat /\ k # 0
    BY <2>1
  <2>3. Carries(h, r, o)
    BY DEF Held, Carries, CarryingOps
  <2> QED
    BY <2>2, <2>3
<1>1. \A g \in Handlers, s \in Rows : Held(g, s)' => Held(g, s)
  BY DEF Held, Moves, HoldingOps
<1>2. Alone' /\ HeldWasThere'
  <2>1. Alone'
    BY <1>0, <1>1 DEF TokenInv, Alone
  <2>2. HeldWasThere'
    BY DEF TokenInv, HeldWasThere, Held, Moves
  <2> QED
    BY <2>1, <2>2
<1>3. Separate'
  <2>1. ASSUME NEW s \in Rows, NEW t \in 1..MaxTokens, Owns(s, t)'
        PROVE  Owns(s, t) \/ (s = r /\ t = tokens + 1)
    <3>1. InRow(s, t)' => InRow(s, t)
      BY DEF InRow, Exists
    <3>2. ASSUME NEW g \in Handlers, Carries(g, s, t)'
          PROVE  Carries(g, s, t) \/ (s = r /\ t \in {tokens + 1, o})
      <4>1. CASE g = h
        BY <3>2, <4>1, CarryingHolds DEF Carries
      <4>2. CASE g # h
        BY <3>2, <4>2 DEF Carries, Moves
      <4> QED
        BY <4>1, <4>2
    <3>3. Owns(r, o)
      BY <1>0 DEF Owns
    <3>4. CASE InRow(s, t)'
      BY <3>1, <3>4 DEF Owns
    <3>5. CASE \E g \in Handlers : Carries(g, s, t)'
      <4>1. PICK g \in Handlers : Carries(g, s, t) \/ (s = r /\ t \in {tokens + 1, o})
        BY <3>2, <3>5
      <4> QED
        BY <3>3, <4>1 DEF Owns
    <3> QED
      BY <2>1, <3>4, <3>5 DEF Owns
  <2> QED
    BY <2>1, OneGained DEF TokenInv
<1>4. ASSUME NEW s \in Rows, NEW t \in live, s # r, Owns(s, t) PROVE t \in live'
  <2>1. t \in 1..MaxTokens
    <3>1. tokens \in 0..MaxTokens /\ MaxTokens \in Nat /\ live \subseteq 1..tokens
      BY BoundsAssumption DEF Typed, TypeOK
    <3> QED
      BY <3>1
  <2>2. Owns(r, o)
    BY <1>0 DEF Owns
  <2>3. t # o
    BY <1>0, <1>4, <2>1, <2>2 DEF TokenInv, Separate
  <2> QED
    BY <2>3
<1>5. ASSUME NEW g \in Handlers PROVE CarriedBy(g)'
  <2>1. CASE g = h
    BY <1>0, <2>1 DEF CarriedBy, HoldingOps
  <2>2. CASE g # h
    <3>1. req'[g] = req[g] /\ CarriedBy(g)
      BY <2>2 DEF Moves, TokenInv, Carried
    <3>2. ASSUME req[g].op \in {"store", "save"}, req[g].row \notin disturbed',
                 req[g].secrets.refresh # 0
          PROVE  req[g].secrets.refresh \in live'
      <4>1. req[g].row \in Rows /\ req[g].row \notin disturbed
        BY <1>0, <3>2, HolderShape DEF HoldingOps
      <4>2. req[g].row # r
        BY <2>2, <3>2, <4>1 DEF TokenInv, Alone, Held, HoldingOps
      <4>3. req[g].secrets.refresh \in live
        BY <3>1, <3>2, <4>1 DEF CarriedBy
      <4>4. Owns(req[g].row, req[g].secrets.refresh)
        BY <3>2 DEF Owns, Carries, CarryingOps
      <4> QED
        BY <1>4, <4>1, <4>2, <4>3, <4>4
    <3> QED
      BY <1>0, <3>1, <3>2 DEF CarriedBy, Exists
  <2> QED
    BY <2>1, <2>2
<1>6. RowIsLive'
  <2> SUFFICES ASSUME NEW s \in Rows, s \notin disturbed', Exists(s), row[s].secrets.refresh # 0,
                      \A g \in Handlers : ~(Held(g, s) /\ req[g].op = "save")'
               PROVE  row[s].secrets.refresh \in live'
    BY DEF RowIsLive, Exists
  <2>1. s # r
    BY DEF Held, HoldingOps
  <2>2. \A g \in Handlers : ~(Held(g, s) /\ req[g].op = "save")
    BY DEF Held, Moves
  <2>3. row[s].secrets.refresh \in live
    BY <1>0, <2>2 DEF TokenInv, RowIsLive
  <2>4. Owns(s, row[s].secrets.refresh)
    BY DEF Owns, InRow
  <2> QED
    BY <1>4, <2>1, <2>3, <2>4
<1> QED
  BY <1>2, <1>3, <1>5, <1>6 DEF TokenInv, Carried

LEMMA InitTokens == Init => TokenInv
<1> SUFFICES ASSUME Init PROVE TokenInv
  OBVIOUS
<1> DEFINE n == Len(InitialProviders)
<1>1. Typed
  BY InitTyped
<1>2. \A h \in Handlers : req[h].op = "idle"
  BY DEF Init, Idle
<1>3. Alone /\ Carried /\ HeldWasThere
  BY <1>2 DEF Alone, Carried, CarriedBy, HeldWasThere, Held, HoldingOps
<1>4. ASSUME NEW r \in Rows, Exists(r)
      PROVE  r \in 1..n /\ row[r].secrets.refresh = r
  <2>1. n \in Nat /\ r \in Nat \ {0}
    BY ProvidersAssumption, RowsAssumption
  <2>2. ~(r > n)
    BY <1>4 DEF Init, Exists
  <2> QED
    BY <2>1, <2>2 DEF Init
<1>5. Separate
  BY <1>2, <1>4, ProvidersAssumption DEF Separate, Owns, InRow, Carries, CarryingOps, Init
<1>6. RowIsLive
  BY <1>4 DEF RowIsLive, Init
<1> QED
  BY <1>3, <1>5, <1>6 DEF TokenInv

LEMMA NextTokens == Typed /\ Typed' /\ TokenInv /\ [Next]_vars => TokenInv'
<1> SUFFICES ASSUME Typed, Typed', TokenInv, Next \/ UNCHANGED vars PROVE TokenInv'
  OBVIOUS
<1>t. tokens \in Nat /\ req \in [Handlers -> Request]
  BY Unpacked
<1>q. ASSUME NEW h \in Handlers PROVE req[h] \in Request
  BY <1>t
<1>s. UNCHANGED <<row, req, tokens, live, disturbed>> => TokenInv'
  BY DEF TokenInv, Alone, Held, Separate, Owns, InRow, Carries, Exists, Carried, CarriedBy,
         HeldWasThere, RowIsLive
<1>g. ASSUME NEW h \in Handlers, NEW q, Goes(h, q) PROVE Moves(h) /\ req'[h] = q
  BY <1>t, <1>g DEF Goes, Moves
<1>i. ASSUME NEW h \in Handlers, Idles(h) PROVE Moves(h) /\ req'[h].op \notin HoldingOps
  BY <1>t, <1>i DEF Idles, Moves, Idle, HoldingOps
<1>b. ASSUME NEW h \in Handlers, Begin(h) PROVE req[h].op \notin HoldingOps
  BY <1>b DEF Begin, Idle, HoldingOps
<1>l. ASSUME NEW h \in Handlers, Moves(h), req'[h].op \notin HoldingOps, req[h].op # "save",
             disturbed \subseteq disturbed', UNCHANGED <<row, tokens, live>>
      PROVE  TokenInv'
  BY <1>l, <1>t, MoveOn
<1>1. ASSUME NEW h \in Handlers, NEW p \in Providers, StartConnect(h, p) PROVE TokenInv'
  <2>1. Moves(h) /\ req'[h].op = "connect" /\ req[h].op \notin HoldingOps
    BY <1>1, <1>b, <1>g DEF StartConnect
  <2> QED
    BY <1>1, <1>l, <2>1 DEF StartConnect, HoldingOps, database, outside, history
<1>2. ASSUME NEW h \in Handlers, InsertRow(h) PROVE TokenInv'
  <2>1. PICK r \in Rows, x \in Row :
          row[r] = Nil /\ row' = [row EXCEPT ![r] = x] /\ x.secrets.refresh = 0
    BY <1>2, InsertInserts
  <2>2. /\ Moves(h) /\ req[h].op \notin HoldingOps /\ req'[h].op \notin HoldingOps
        /\ UNCHANGED <<tokens, live, disturbed>>
    BY <1>2, <1>i DEF InsertRow, HoldingOps, outside, counters, history
  <2> QED
    BY <2>1, <2>2, Insert
<1>3. ASSUME NEW h \in Handlers, NEW r \in Rows, StartUpdate(h, r) PROVE TokenInv'
  <2>1. PICK c :
          Goes(h, [op |-> "patch", row |-> r, change |-> c, secrets |-> row[r].secrets])
    BY <1>3 DEF StartUpdate
  <2>2. /\ Moves(h) /\ req'[h].op = "patch" /\ req'[h].row = r
        /\ req'[h].secrets = row[r].secrets
    BY <1>g, <2>1
  <2>3. /\ Holds(h, r) /\ Exists(r) /\ req[h].op \notin HoldingOps
        /\ row' = row /\ tokens' = tokens /\ live' = live
    BY <1>3, <1>b DEF StartUpdate, database, outside
  <2> QED
    BY <2>2, <2>3, Take
<1>4. ASSUME NEW h \in Handlers, UpdateRow(h) PROVE TokenInv'
  <2>1. PICK r : r = req[h].row
    OBVIOUS
  <2>2. PICK x : Rewrites(r, x) /\ x.secrets \in {row[r].secrets, req[h].secrets}
    BY <1>4, <2>1, UpdateRewrites
  <2>3. /\ Moves(h) /\ Held(h, r) /\ req[h].op = "patch" /\ req'[h].op \notin HoldingOps
        /\ UNCHANGED <<tokens, live, disturbed>>
    BY <1>4, <1>i, <2>1 DEF UpdateRow, HoldingOps, Held, outside, counters
  <2> QED
    BY <2>2, <2>3, Write
<1>5. ASSUME NEW h \in Handlers, NEW r \in Rows, Remove(h, r) PROVE TokenInv'
  BY <1>5, RemoveKeeps DEF Remove, outside, history
<1>6. ASSUME NEW h \in Handlers, NEW r \in Rows, StartAuthorize(h, r) PROVE TokenInv'
  <2>1. /\ Moves(h) /\ req'[h].op = "authorize" /\ req'[h].row = r
    BY <1>6, <1>g DEF StartAuthorize
  <2>2. /\ Holds(h, r) /\ Exists(r) /\ req[h].op \notin HoldingOps
        /\ row' = row /\ tokens' = tokens /\ live' = live
    BY <1>6, <1>b DEF StartAuthorize, database, outside
  <2> QED
    BY <2>1, <2>2, Take
<1>7. ASSUME NEW h \in Handlers, SaveState(h) PROVE TokenInv'
  <2>1. PICK r : r = req[h].row
    OBVIOUS
  <2>2. PICK x : Rewrites(r, x) /\ x.secrets = row[r].secrets
    BY <1>7, <2>1, SaveStateRewrites
  <2>3. /\ Moves(h) /\ Held(h, r) /\ req[h].op # "save" /\ req'[h].op \notin HoldingOps
        /\ UNCHANGED <<tokens, live, disturbed>>
    BY <1>7, <1>i, <2>1 DEF SaveState, HoldingOps, Held, outside, history
  <2> QED
    BY <2>2, <2>3, Write
<1>8. ASSUME NEW h \in Handlers, NEW s \in 1..states, Callback(h, s) PROVE TokenInv'
  <2>1. PICK r \in Rows :
          /\ Exists(r) /\ Holds(h, r)
          /\ \E named \in SUBSET Extras :
               Goes(h, [op |-> "exchange", row |-> r, state |-> s, named |-> named,
                        secrets |-> row[r].secrets, config |-> row[r].config])
    BY <1>8 DEF Callback
  <2>2. /\ Moves(h) /\ req'[h].op = "exchange" /\ req'[h].row = r
        /\ req'[h].secrets = row[r].secrets
    <3>1. PICK named \in SUBSET Extras :
            Goes(h, [op |-> "exchange", row |-> r, state |-> s, named |-> named,
                     secrets |-> row[r].secrets, config |-> row[r].config])
      BY <2>1
    <3> QED
      BY <1>g, <3>1
  <2>3. /\ req[h].op \notin HoldingOps /\ row' = row /\ tokens' = tokens /\ live' = live
    BY <1>8, <1>b DEF Callback, database, outside
  <2> QED
    BY <2>1, <2>2, <2>3, Take
<1>9. ASSUME NEW h \in Handlers, CodeAccepted(h) PROVE TokenInv'
  <2>1. PICK r : r = req[h].row
    OBVIOUS
  <2>2. PICK k \in {0, tokens + 1} :
          /\ live' = live \cup ({k} \ {0})
          /\ \/ Goes(h, [op |-> "store", row |-> req[h].row, named |-> req[h].named,
                         config |-> req[h].config,
                         secrets |-> [access |-> tokens + 1, refresh |-> k]])
             \/ Idles(h)
    BY <1>9 DEF CodeAccepted
  <2>3. /\ req[h].op = "exchange" /\ r \in Rows /\ Held(h, r) /\ tokens' = tokens + 1
        /\ live \subseteq live' /\ UNCHANGED <<row, disturbed>>
    BY <1>9, <2>1, <2>2, HolderShape DEF CodeAccepted, Grant, Held, HoldingOps, database, history
  <2>4. CASE Goes(h, [op |-> "store", row |-> req[h].row, named |-> req[h].named,
                      config |-> req[h].config,
                      secrets |-> [access |-> tokens + 1, refresh |-> k]])
    <3>1. /\ Moves(h) /\ req'[h].op = "store" /\ req'[h].row = r
          /\ req'[h].secrets.refresh = k
      BY <1>g, <2>1, <2>4
    <3> QED
      BY <2>2, <2>3, <3>1, GrantKeeps
  <2>5. CASE Idles(h)
    BY <1>i, <1>t, <2>3, <2>5, MoveOn
  <2> QED
    BY <2>2, <2>4, <2>5
<1>10. ASSUME NEW h \in Handlers, CodeRefused(h) PROVE TokenInv'
  BY <1>10, RefusedKeeps
<1>11. ASSUME NEW h \in Handlers, StoreTokens(h) PROVE TokenInv'
  <2>1. PICK r : r = req[h].row
    OBVIOUS
  <2>2. PICK x : Rewrites(r, x) /\ x.secrets = req[h].secrets
    BY <1>11, <2>1, StoreRewrites
  <2>3. /\ Moves(h) /\ Held(h, r) /\ req[h].op = "store" /\ req'[h].op \notin HoldingOps
        /\ UNCHANGED <<tokens, live, disturbed>>
    BY <1>11, <1>i, <2>1 DEF StoreTokens, HoldingOps, Held, outside, counters, history
  <2> QED
    BY <2>2, <2>3, Write
<1>12. ASSUME NEW h \in Handlers, ClearState(h) PROVE TokenInv'
  <2>1. PICK r : r = req[h].row
    OBVIOUS
  <2>2. PICK x : Rewrites(r, x) /\ x.secrets = row[r].secrets
    BY <1>12, <2>1, ClearRewrites
  <2>3. /\ Moves(h) /\ Held(h, r) /\ req[h].op # "save" /\ req'[h].op \notin HoldingOps
        /\ UNCHANGED <<tokens, live, disturbed>>
    BY <1>12, <1>i, <2>1 DEF ClearState, HoldingOps, Held, outside, counters, history
  <2> QED
    BY <2>2, <2>3, Write
<1>13. ASSUME NEW h \in Handlers, AskFresh(h) PROVE TokenInv'
  <2>1. PICK q : Becomes(h, q) /\ q.op \in {"push", "ask", "idle"}
    BY <1>13, FreshBecomes
  <2>2. Moves(h) /\ req'[h].op \notin HoldingOps
    BY <1>g, <2>1 DEF Becomes, HoldingOps
  <2> QED
    BY <1>13, <1>l, <2>2 DEF AskFresh, database, outside, counters, history
<1>14. ASSUME NEW h \in Handlers, AskToRefresh(h) PROVE TokenInv'
  <2>1. PICK r \in RowsOf(req[h].ask.provider) :
          /\ Holds(h, r) /\ row[r].secrets.refresh # 0
          /\ Goes(h, [op |-> "refresh", ask |-> req[h].ask, row |-> r,
                      secrets |-> row[r].secrets, config |-> row[r].config])
    BY <1>14 DEF AskToRefresh
  <2>2. /\ Moves(h) /\ req'[h].op = "refresh" /\ req'[h].row = r
        /\ req'[h].secrets = row[r].secrets
    BY <1>g, <2>1
  <2>3. /\ r \in Rows /\ Exists(r) /\ req[h].op \notin HoldingOps
        /\ row' = row /\ tokens' = tokens /\ live' = live
    BY <1>14 DEF AskToRefresh, RowsOf, HoldingOps, database, outside, counters
  <2> QED
    BY <2>1, <2>2, <2>3, Take
<1>15. ASSUME NEW h \in Handlers, TokenRefreshed(h) PROVE TokenInv'
  <2>1. PICK r, o : r = req[h].row /\ o = req[h].secrets.refresh
    OBVIOUS
  <2>2. PICK k \in {tokens + 1, o} :
          /\ live' = (live \ {o}) \cup {k}
          /\ \/ /\ Goes(h, [op |-> "save", ask |-> req[h].ask, row |-> req[h].row,
                            config |-> req[h].config,
                            secrets |-> [access |-> tokens + 1, refresh |-> k]])
                /\ UNCHANGED history
             \/ /\ Idles(h) /\ disturbed' = disturbed \cup {r}
    BY <1>15, <2>1 DEF TokenRefreshed, Refreshed
  <2>3. /\ r \in Rows /\ Held(h, r) /\ req[h].op = "refresh" /\ o \in live
        /\ tokens' = tokens + 1 /\ row' = row
    BY <1>15, <2>1, HolderShape DEF TokenRefreshed, Grant, Held, HoldingOps, database
  <2>4. /\ Moves(h)
        /\ \/ /\ req'[h].op = "save" /\ req'[h].row = r /\ req'[h].secrets.refresh = k
              /\ disturbed' = disturbed
           \/ req'[h].op \notin HoldingOps /\ disturbed' = disturbed \cup {r}
    BY <1>g, <1>i, <2>1, <2>2 DEF history
  <2> QED
    BY <2>1, <2>2, <2>3, <2>4, RotateKeeps
<1>16. ASSUME NEW h \in Handlers, RefreshRefused(h) PROVE TokenInv'
  <2>1. Becomes(h, NoToken(req[h].ask)) /\ NoToken(req[h].ask).op \in {"ask", "idle"}
    BY <1>16, RefusedBecomes
  <2>2. Moves(h) /\ req'[h].op \notin HoldingOps
    BY <1>g, <2>1 DEF Becomes, HoldingOps
  <2> QED
    BY <1>16, <1>l, <2>2 DEF RefreshRefused, database, outside, counters, history
<1>17. ASSUME NEW h \in Handlers, SaveTokens(h) PROVE TokenInv'
  <2>1. PICK r : r = req[h].row
    OBVIOUS
  <2>2. PICK x : Rewrites(r, x) /\ x.secrets = req[h].secrets
    BY <1>17, <2>1, SaveTokensRewrites
  <2>3. PICK q : Becomes(h, q) /\ q.op \in {"push", "ask", "idle"}
    BY <1>17, SavedBecomes
  <2>4. /\ Moves(h) /\ Held(h, r) /\ req[h].op = "save" /\ req'[h].op \notin HoldingOps
        /\ UNCHANGED <<tokens, live, disturbed>>
    BY <1>17, <1>g, <2>1, <2>3
       DEF SaveTokens, Becomes, HoldingOps, Held, outside, counters, history
  <2> QED
    BY <2>2, <2>4, Write
<1>18. ASSUME NEW h \in Handlers, NEW i \in Invoices, StartSync(h, i) PROVE TokenInv'
  <2>1. Moves(h) /\ req'[h].op = "ask" /\ req[h].op \notin HoldingOps
    BY <1>18, <1>b, <1>g DEF StartSync
  <2> QED
    BY <1>18, <1>l, <2>1 DEF StartSync, HoldingOps, database, outside
<1>19. ASSUME NEW h \in Handlers, CreateCustomer(h) PROVE TokenInv'
  <2>1. PICK q : Becomes(h, q) /\ q.op \in {"bill", "record"}
    BY <1>19, CustomerBecomes
  <2>2. Moves(h) /\ req'[h].op \notin HoldingOps
    BY <1>g, <2>1 DEF Becomes, HoldingOps
  <2> QED
    BY <1>19, <1>l, <2>2 DEF CreateCustomer, database, outside, counters, history
<1>20. ASSUME NEW h \in Handlers, CreateDocument(h) PROVE TokenInv'
  <2>1. PICK s, y : Goes(h, Outcome(req[h].ask, s, y))
    BY <1>20 DEF CreateDocument
  <2>2. Moves(h) /\ req'[h].op \notin HoldingOps
    BY <1>g, <2>1 DEF Outcome, HoldingOps
  <2> QED
    BY <1>20, <1>l, <2>2 DEF CreateDocument, database, counters, history
<1>21. ASSUME NEW h \in Handlers, DocumentRefused(h) PROVE TokenInv'
  <2>1. Moves(h) /\ req'[h].op \notin HoldingOps
    BY <1>21, <1>g DEF DocumentRefused, Outcome, HoldingOps
  <2> QED
    BY <1>21, <1>l, <2>1 DEF DocumentRefused, database, outside, counters, history
<1>22. ASSUME NEW h \in Handlers, UpsertSync(h) PROVE TokenInv'
  <2>1. Moves(h) /\ req'[h].op \notin HoldingOps
    BY <1>22, <1>i DEF UpsertSync
  <2> QED
    BY <1>22, <1>l, <2>1 DEF UpsertSync, outside, counters, history
<1>23. ASSUME NEW h \in Handlers, UpsertFails(h) PROVE TokenInv'
  <2>1. Moves(h) /\ req'[h].op \notin HoldingOps
    BY <1>23, <1>g DEF UpsertFails, Outcome, HoldingOps
  <2> QED
    BY <1>23, <1>l, <2>1 DEF UpsertFails, database, outside, counters
<1>24. ASSUME NEW h \in Handlers, Fails(h) PROVE TokenInv'
  <2>1. Moves(h) /\ req'[h].op \notin HoldingOps
    BY <1>24, <1>i DEF Fails
  <2>2. /\ disturbed \subseteq disturbed' /\ (req[h].op = "save" => req[h].row \in disturbed')
        /\ UNCHANGED <<row, tokens, live>>
    BY <1>24 DEF Fails, database, outside, counters
  <2> QED
    BY <1>t, <2>1, <2>2, MoveOn
<1>25. ASSUME NEW n \in 1..MaxTokens, AccessExpires(n) PROVE TokenInv'
  BY <1>s, <1>25 DEF AccessExpires, database, counters, history
<1>26. ASSUME NEW i \in Invoices, InvoiceMoves(i) PROVE TokenInv'
  BY <1>s, <1>26 DEF InvoiceMoves, database, counters, history
<1>27. CASE UNCHANGED vars
  BY <1>s, <1>27 DEF vars, database, counters, outside, history
<1> QED
  BY <1>1, <1>2, <1>3, <1>4, <1>5, <1>6, <1>7, <1>8, <1>9, <1>10, <1>11, <1>12, <1>13, <1>14, <1>15,
     <1>16, <1>17, <1>18, <1>19, <1>20, <1>21, <1>22, <1>23, <1>24, <1>25, <1>26, <1>27
     DEF Next, StartOn, Step

LEMMA AlwaysTokens == Spec => [](Typed /\ TokenInv)
<1>1. Init => Typed /\ TokenInv
  BY InitTyped, InitTokens
<1>2. Typed /\ TokenInv /\ [Next]_vars => (Typed /\ TokenInv)'
  BY NextTyped, NextTokens
<1> QED
  BY <1>1, <1>2, PTL DEF Spec

(* Whatever requests, callbacks, refreshes and lost answers there are, the
   refresh token at rest in a row that no two requests held at once, and whose
   rotation no lost answer hid, is one the provider accepts. *)
THEOREM StoredTokenIsLive == Spec => []TokenIsLive
<1>1. Typed /\ TokenInv => TokenIsLive
  BY DEF TokenInv, RowIsLive, TokenIsLive, Held, Holders
<1> QED
  BY <1>1, AlwaysTokens, PTL

-----------------------------------------------------------------------------
(* What the provider gave is kept *)

Keeps ==
  \A r \in Rows \ (disturbed' \cup patched') :
    Exists(r) /\ Exists(r)' => KeepsGrant(row[r], row'[r])

LEMMA KeepsSame ==
  ASSUME NEW x \in Row
  PROVE  KeepsGrant(x, x)
<1>1. x.secrets.access \in Int
  BY BoundsAssumption DEF Row, Secrets
<1> QED
  BY <1>1 DEF KeepsGrant

(* The rows stay; what request h will write is what it found or what it was
   given just now. *)
LEMMA KeepsGrants ==
  ASSUME Typed, GrantInv, NEW h \in Handlers, Moves(h), row' = row,
         disturbed \subseteq disturbed', patched \subseteq patched',
         tokens' \in {tokens, tokens + 1},
         \/ req'[h].op \notin ConfigOps
         \/ req'[h].config = row[req'[h].row].config
         \/ /\ req[h].op \in ConfigOps
            /\ req'[h].row = req[h].row /\ req'[h].config = req[h].config,
         \/ req'[h].op \notin CarryingOps
         \/ /\ req'[h].op \in {"patch", "exchange", "refresh"}
            /\ req'[h].row \in Rows /\ Exists(req'[h].row)
            /\ req'[h].secrets = row[req'[h].row].secrets
         \/ /\ req'[h].op \in {"store", "save"} /\ req'[h].row \in Rows
            /\ tokens' = tokens + 1 /\ req'[h].secrets.access = tokens + 1
  PROVE  GrantInv' /\ Keeps
<1>1. Keeps
  BY RowThere, KeepsSame DEF Keeps
<1>2. ConfigKept'
  <2> SUFFICES ASSUME NEW g \in Handlers, req'[g].op \in ConfigOps,
                      req'[g].row \notin disturbed' \cup patched', row[req'[g].row] \notin {Nil, Gone}
               PROVE  req'[g].config.realm = row[req'[g].row].config.realm
    BY DEF ConfigKept, ConfigOps, Exists
  <2>1. CASE g # h
    BY <2>1 DEF Moves, GrantInv, ConfigKept, ConfigOps, Exists
  <2>2. CASE g = h
    BY <2>2 DEF GrantInv, ConfigKept, ConfigOps, Exists
  <2> QED
    BY <2>1, <2>2
<1>3. /\ tokens \in Nat /\ tokens' \in Nat /\ tokens <= tokens'
      /\ \A r \in Rows : Exists(r) =>
           row[r].secrets.access \in Nat /\ row[r].secrets.access <= tokens
      /\ \A g \in Handlers : req[g].op \in CarryingOps =>
           req[g].secrets.access \in Nat /\ req[g].secrets.access <= tokens
  <2>1. tokens \in Nat /\ tokens' \in Nat /\ tokens <= tokens'
    BY Unpacked
  <2>2. \A x \in Row : x.secrets.access \in Nat
    BY BoundsAssumption DEF Row, Secrets
  <2>3. \A x \in Secrets : x.access \in Nat
    BY BoundsAssumption DEF Secrets
  <2> QED
    BY <2>1, <2>2, <2>3, RowThere, HolderShape DEF GrantInv, NewerIsCarried
<1>4. NewerIsCarried'
  <2>1. \A r \in Rows : Exists(r)' => row'[r].secrets.access <= tokens'
    BY <1>3 DEF Exists
  <2>2. ASSUME NEW g \in Handlers
        PROVE  /\ req'[g].op \in CarryingOps => req'[g].secrets.access <= tokens'
               /\ req'[g].op \in {"store", "save"} /\ req'[g].row \notin disturbed' /\ Exists(req'[g].row)
                  => row[req'[g].row].secrets.access < req'[g].secrets.access
    <3>1. CASE g # h
      <4>1. req'[g] = req[g]
        BY <3>1 DEF Moves
      <4>2. req[g].op \in CarryingOps => req[g].secrets.access <= tokens'
        BY <1>3
      <4> QED
        BY <4>1, <4>2 DEF GrantInv, NewerIsCarried
    <3>2. CASE g = h /\ req'[h].op \notin CarryingOps
      BY <3>2 DEF CarryingOps
    <3>3. CASE g = h /\ req'[h].op \in {"patch", "exchange", "refresh"}
      BY <1>3, <3>3 DEF CarryingOps
    <3>4. CASE g = h /\ req'[h].op \in {"store", "save"}
      <4>1. req'[h].row \in Rows /\ tokens' = tokens + 1 /\ req'[h].secrets.access = tokens + 1
        BY <3>4 DEF CarryingOps
      <4> QED
        BY <1>3, <3>4, <4>1
    <3> QED
      BY <3>1, <3>2, <3>3, <3>4 DEF CarryingOps
  <2> QED
    BY <2>1, <2>2 DEF NewerIsCarried, Exists
<1> QED
  BY <1>1, <1>2, <1>4 DEF GrantInv

(* Request h, alone on row r, writes a row that keeps what the old one had. *)
LEMMA WritesGrants ==
  ASSUME Typed, TokenInv, GrantInv, NEW h \in Handlers, NEW r, NEW x,
         Moves(h), Held(h, r), Rewrites(r, x), req'[h].op \notin HoldingOps,
         disturbed' = disturbed, patched \subseteq patched', tokens' = tokens,
         \/ x.secrets = row[r].secrets
         \/ x.secrets = req[h].secrets /\ req[h].op \in CarryingOps,
         r \notin disturbed \cup patched' => KeepsGrant(row[r], x)
  PROVE  GrantInv' /\ Keeps
<1>0. /\ r \in Rows /\ row'[r] = x /\ x \in Row /\ Exists(r)
      /\ \A s \in Rows : s # r => row'[s] = row[s]
  BY Unpacked DEF Rewrites
<1>1. Keeps
  <2> SUFFICES ASSUME NEW s \in Rows, s \notin disturbed \cup patched', Exists(s)
               PROVE  KeepsGrant(row[s], row'[s])
    BY DEF Keeps
  <2>1. CASE s = r
    BY <1>0, <2>1
  <2>2. CASE s # r
    BY <1>0, <2>2, RowThere, KeepsSame
  <2> QED
    BY <2>1, <2>2
<1>2. ASSUME NEW g \in Handlers, req'[g].op \in HoldingOps
      PROVE  /\ g # h /\ req'[g] = req[g] /\ req[g].row \in Rows
             /\ req[g].row \notin disturbed => row'[req[g].row] = row[req[g].row]
  <2>1. g # h /\ req'[g] = req[g]
    BY <1>2 DEF Moves
  <2>2. req[g].row \in Rows /\ req[g].op \in HoldingOps
    BY <1>2, <2>1, HolderShape
  <2>3. req[g].row \notin disturbed => req[g].row # r
    BY <1>0, <2>1, <2>2 DEF TokenInv, Alone, Held
  <2> QED
    BY <1>0, <2>1, <2>2, <2>3
<1>3. ConfigKept'
  <2> SUFFICES ASSUME NEW g \in Handlers, req'[g].op \in ConfigOps,
                      req'[g].row \notin disturbed \cup patched', row'[req'[g].row] \notin {Nil, Gone}
               PROVE  req'[g].config.realm = row'[req'[g].row].config.realm
    BY DEF ConfigKept, ConfigOps, Exists
  <2>1. /\ req'[g] = req[g] /\ req[g].row \notin disturbed
        /\ row'[req[g].row] = row[req[g].row]
    BY <1>2 DEF ConfigOps, HoldingOps
  <2> QED
    BY <2>1 DEF GrantInv, ConfigKept, ConfigOps, Exists
<1>4. NewerIsCarried'
  <2>1. ASSUME NEW s \in Rows, Exists(s)' PROVE row'[s].secrets.access <= tokens
    <3>1. CASE s = r
      <4>1. row[r].secrets.access <= tokens
        BY <1>0 DEF GrantInv, NewerIsCarried
      <4>2. req[h].op \in CarryingOps => req[h].secrets.access <= tokens
        BY DEF GrantInv, NewerIsCarried
      <4> QED
        BY <1>0, <3>1, <4>1, <4>2
    <3>2. CASE s # r
      BY <1>0, <2>1, <3>2 DEF GrantInv, NewerIsCarried, Exists
    <3> QED
      BY <3>1, <3>2
  <2>2. ASSUME NEW g \in Handlers, req'[g].op \in CarryingOps
        PROVE  /\ req'[g].secrets.access <= tokens
               /\ req'[g].op \in {"store", "save"} /\ req'[g].row \notin disturbed /\ row'[req'[g].row] \notin {Nil, Gone}
                  => row'[req'[g].row].secrets.access < req'[g].secrets.access
    <3>1. req'[g] = req[g] /\ (req[g].row \notin disturbed => row'[req[g].row] = row[req[g].row])
      BY <1>2, <2>2, CarryingHolds
    <3> QED
      BY <2>2, <3>1 DEF GrantInv, NewerIsCarried, Exists
  <2> QED
    BY <2>1, <2>2 DEF NewerIsCarried, CarryingOps, Exists
<1> QED
  BY <1>1, <1>3, <1>4 DEF GrantInv

LEMMA InitGrants == Init => GrantInv
<1> SUFFICES ASSUME Init PROVE GrantInv
  OBVIOUS
<1> DEFINE n == Len(InitialProviders)
<1>1. \A h \in Handlers : req[h].op = "idle"
  BY DEF Init, Idle
<1>2. ConfigKept
  BY <1>1 DEF ConfigKept, ConfigOps
<1>3. ASSUME NEW r \in Rows, Exists(r) PROVE row[r].secrets.access <= tokens
  <2>1. n \in Nat /\ r \in Nat \ {0}
    BY ProvidersAssumption, RowsAssumption
  <2>2. ~(r > n) /\ tokens = n
    BY <1>3 DEF Init, Exists
  <2>3. row[r].secrets.access = r
    BY <2>2 DEF Init
  <2> QED
    BY <2>1, <2>2, <2>3
<1> QED
  BY <1>1, <1>2, <1>3 DEF GrantInv, NewerIsCarried, CarryingOps

LEMMA NextGrants == Typed /\ TokenInv /\ GrantInv /\ [Next]_vars => GrantInv' /\ Keeps
<1> SUFFICES ASSUME Typed, TokenInv, GrantInv, Next \/ UNCHANGED vars PROVE GrantInv' /\ Keeps
  OBVIOUS
<1>t. req \in [Handlers -> Request] /\ tokens \in Nat
  BY Unpacked
<1>s. UNCHANGED <<row, req, tokens, disturbed, patched>> => GrantInv' /\ Keeps
  BY RowThere, KeepsSame DEF GrantInv, ConfigKept, NewerIsCarried, Keeps, Exists
<1>g. ASSUME NEW h \in Handlers, NEW q, Goes(h, q) PROVE Moves(h) /\ req'[h] = q
  BY <1>t, <1>g DEF Goes, Moves
<1>i. ASSUME NEW h \in Handlers, Idles(h) PROVE Moves(h) /\ req'[h].op \notin HoldingOps
  BY <1>t, <1>i DEF Idles, Moves, Idle, HoldingOps
<1>h. ASSUME NEW h, NEW r, Holds(h, r) PROVE disturbed \subseteq disturbed'
  BY <1>h DEF Holds
<1>l. ASSUME NEW h \in Handlers, Moves(h), req'[h].op \notin HoldingOps, row' = row,
             disturbed \subseteq disturbed', patched \subseteq patched', tokens' \in {tokens, tokens + 1}
      PROVE  GrantInv' /\ Keeps
  <2>1. req'[h].op \notin ConfigOps /\ req'[h].op \notin CarryingOps
    BY <1>l DEF ConfigOps, CarryingOps, HoldingOps
  <2> QED
    BY <1>l, <2>1, KeepsGrants
<1>1. ASSUME NEW h \in Handlers, NEW p \in Providers, StartConnect(h, p) PROVE GrantInv' /\ Keeps
  <2>1. Moves(h) /\ req'[h].op = "connect"
    BY <1>1, <1>g DEF StartConnect
  <2> QED
    BY <1>1, <1>l, <2>1 DEF StartConnect, HoldingOps, database, history
<1>2. ASSUME NEW h \in Handlers, InsertRow(h) PROVE GrantInv' /\ Keeps
  <2>1. PICK r \in Rows, x \in Row :
          /\ row[r] = Nil /\ row' = [row EXCEPT ![r] = x]
          /\ x.secrets.access = 0
    BY <1>2, InsertInserts
  <2>2. /\ Moves(h) /\ req'[h].op \notin HoldingOps
        /\ UNCHANGED <<disturbed, patched, tokens>>
    BY <1>2, <1>i DEF InsertRow, history, counters
  <2>3. row'[r] = x /\ \A s \in Rows : s # r => row'[s] = row[s]
    BY <2>1, Unpacked
  <2>4. Keeps
    <3> SUFFICES ASSUME NEW s \in Rows, Exists(s) PROVE KeepsGrant(row[s], row'[s])
      BY DEF Keeps
    <3>1. s # r
      BY <2>1 DEF Exists
    <3> QED
      BY <2>3, <3>1, RowThere, KeepsSame
  <2>5. ASSUME NEW g \in Handlers, req'[g].op \in HoldingOps
        PROVE  req'[g] = req[g] /\ row'[req[g].row] = row[req[g].row]
    <3>1. req'[g] = req[g]
      BY <2>2, <2>5 DEF Moves
    <3>2. req[g].row \in Rows /\ row[req[g].row] # Nil
      BY <2>5, <3>1, HolderShape DEF TokenInv, HeldWasThere
    <3> QED
      BY <2>1, <2>3, <3>1, <3>2
  <2>6. ConfigKept'
    BY <2>2, <2>5 DEF GrantInv, ConfigKept, ConfigOps, HoldingOps, Exists
  <2>7. NewerIsCarried'
    <3>1. ASSUME NEW s \in Rows, Exists(s)' PROVE row'[s].secrets.access <= tokens
      BY <1>t, <2>1, <2>3, <3>1 DEF GrantInv, NewerIsCarried, Exists
    <3>2. ASSUME NEW g \in Handlers, req'[g].op \in CarryingOps
          PROVE  /\ req'[g].secrets.access <= tokens
                 /\ req'[g].op \in {"store", "save"} /\ req'[g].row \notin disturbed /\ row'[req'[g].row] \notin {Nil, Gone}
                    => row'[req'[g].row].secrets.access < req'[g].secrets.access
      BY <2>5, <3>2, CarryingHolds DEF GrantInv, NewerIsCarried, Exists
    <3> QED
      BY <2>2, <3>1, <3>2 DEF NewerIsCarried, CarryingOps, Exists
  <2> QED
    BY <2>4, <2>6, <2>7 DEF GrantInv
<1>3. ASSUME NEW h \in Handlers, NEW r \in Rows, StartUpdate(h, r) PROVE GrantInv' /\ Keeps
  <2>1. PICK c :
          Goes(h, [op |-> "patch", row |-> r, change |-> c, secrets |-> row[r].secrets])
    BY <1>3 DEF StartUpdate
  <2>2. /\ Moves(h) /\ req'[h].op = "patch" /\ req'[h].row = r /\ req'[h].op \notin ConfigOps
        /\ req'[h].secrets = row[r].secrets
    BY <1>g, <2>1 DEF ConfigOps
  <2>3. /\ row' = row /\ disturbed \subseteq disturbed' /\ patched \subseteq patched'
        /\ tokens' = tokens /\ Exists(r)
    BY <1>3, <1>h DEF StartUpdate, database
  <2> QED
    BY <2>2, <2>3, KeepsGrants
<1>4. ASSUME NEW h \in Handlers, UpdateRow(h) PROVE GrantInv' /\ Keeps
  <2>1. PICK r : r = req[h].row
    OBVIOUS
  <2>2. PICK x : /\ Rewrites(r, x)
                 /\ x.secrets \in {row[r].secrets, req[h].secrets}
                 /\ r \notin patched' => x.config = row[r].config /\ x.status = row[r].status
    BY <1>4, <2>1, UpdateRewrites
  <2>3. /\ Moves(h) /\ Held(h, r) /\ req[h].op = "patch" /\ req'[h].op \notin HoldingOps
        /\ disturbed' = disturbed /\ patched \subseteq patched' /\ tokens' = tokens
        /\ req[h].op \in CarryingOps
    BY <1>4, <1>i, <2>1 DEF UpdateRow, HoldingOps, CarryingOps, Held, counters
  <2>4. ASSUME r \notin disturbed \cup patched' PROVE KeepsGrant(row[r], x)
    <3>1. x.secrets = row[r].secrets /\ x.config = row[r].config
      BY <2>2, <2>3, <2>4 DEF TokenInv, Carried, CarriedBy, Held, Rewrites
    <3>2. KeepsGrant(row[r], row[r])
      BY <2>2, RowThere, KeepsSame DEF Rewrites
    <3> QED
      BY <3>1, <3>2 DEF KeepsGrant
  <2> QED
    BY <2>2, <2>3, <2>4, WritesGrants
<1>5. ASSUME NEW h \in Handlers, NEW r \in Rows, Remove(h, r) PROVE GrantInv' /\ Keeps
  <2>1. /\ \A s \in Rows : row'[s] \notin {Nil, Gone} => row'[s] = row[s]
        /\ UNCHANGED <<req, disturbed, patched, tokens>>
    BY <1>5, Unpacked DEF Remove, history
  <2>2. \A g \in Handlers : req[g].op \in HoldingOps => req[g].row \in Rows
    BY HolderShape
  <2>3. Keeps
    BY <2>1, RowThere, KeepsSame DEF Keeps, Exists
  <2>4. ConfigKept'
    BY <2>1, <2>2 DEF GrantInv, ConfigKept, ConfigOps, HoldingOps, Exists
  <2>5. NewerIsCarried'
    BY <2>1, <2>2 DEF GrantInv, NewerIsCarried, HoldingOps, Exists
  <2> QED
    BY <2>3, <2>4, <2>5 DEF GrantInv
<1>6. ASSUME NEW h \in Handlers, NEW r \in Rows, StartAuthorize(h, r) PROVE GrantInv' /\ Keeps
  <2>1. /\ Moves(h) /\ req'[h].config = row[r].config /\ req'[h].row = r
        /\ req'[h].op \notin CarryingOps
    BY <1>6, <1>g DEF StartAuthorize, CarryingOps
  <2>2. /\ row' = row /\ disturbed \subseteq disturbed' /\ patched \subseteq patched'
        /\ tokens' = tokens
    BY <1>6, <1>h DEF StartAuthorize, database
  <2> QED
    BY <2>1, <2>2, KeepsGrants
<1>7. ASSUME NEW h \in Handlers, SaveState(h) \/ ClearState(h) PROVE GrantInv' /\ Keeps
  <2>1. PICK r : r = req[h].row
    OBVIOUS
  <2>2. PICK x : /\ Rewrites(r, x)
                 /\ x.secrets = row[r].secrets /\ x.status = row[r].status
                 /\ x.config.realm = req[h].config.realm
    BY <1>7, <2>1, SaveStateRewrites, ClearRewrites
  <2>3. /\ Moves(h) /\ Held(h, r) /\ req[h].op \in ConfigOps /\ req'[h].op \notin HoldingOps
        /\ disturbed' = disturbed /\ patched' = patched /\ tokens' = tokens
    BY <1>7, <1>i, <2>1 DEF SaveState, ClearState, HoldingOps, ConfigOps, Held, history, counters
  <2>4. ASSUME r \notin disturbed \cup patched PROVE KeepsGrant(row[r], x)
    <3>1. req[h].config.realm = row[r].config.realm
      BY <2>1, <2>2, <2>3, <2>4 DEF GrantInv, ConfigKept, Rewrites
    <3>2. KeepsGrant(row[r], row[r])
      BY <2>2, RowThere, KeepsSame DEF Rewrites
    <3> QED
      BY <2>2, <3>1, <3>2 DEF KeepsGrant
  <2> QED
    BY <2>2, <2>3, <2>4, WritesGrants
<1>8. ASSUME NEW h \in Handlers, NEW s \in 1..states, Callback(h, s) PROVE GrantInv' /\ Keeps
  <2>1. PICK r \in Rows :
          /\ Exists(r) /\ Holds(h, r)
          /\ \E named \in SUBSET Extras :
               Goes(h, [op |-> "exchange", row |-> r, state |-> s, named |-> named,
                        secrets |-> row[r].secrets, config |-> row[r].config])
    BY <1>8 DEF Callback
  <2>2. PICK named \in SUBSET Extras :
          Goes(h, [op |-> "exchange", row |-> r, state |-> s, named |-> named,
                   secrets |-> row[r].secrets, config |-> row[r].config])
    BY <2>1
  <2>3. /\ Moves(h) /\ req'[h].op = "exchange" /\ req'[h].config = row[r].config
        /\ req'[h].row = r /\ req'[h].secrets = row[r].secrets
    BY <1>g, <2>2
  <2>4. /\ row' = row /\ disturbed \subseteq disturbed' /\ patched \subseteq patched'
        /\ tokens' = tokens
    BY <1>8, <1>h, <2>1 DEF Callback, database
  <2> QED
    BY <2>1, <2>3, <2>4, KeepsGrants
<1>9. ASSUME NEW h \in Handlers, CodeAccepted(h) PROVE GrantInv' /\ Keeps
  <2>1. PICK k :
          \/ Goes(h, [op |-> "store", row |-> req[h].row, named |-> req[h].named,
                      config |-> req[h].config,
                      secrets |-> [access |-> tokens + 1, refresh |-> k]])
          \/ Idles(h)
    BY <1>9 DEF CodeAccepted
  <2>2. /\ row' = row /\ disturbed' = disturbed /\ patched' = patched /\ tokens' = tokens + 1
        /\ req[h].op \in ConfigOps /\ req[h].row \in Rows
    BY <1>9, HolderShape DEF CodeAccepted, Grant, ConfigOps, HoldingOps, database, history
  <2>3. CASE Idles(h)
    BY <1>i, <1>l, <2>2, <2>3
  <2>4. CASE Goes(h, [op |-> "store", row |-> req[h].row, named |-> req[h].named,
                      config |-> req[h].config,
                      secrets |-> [access |-> tokens + 1, refresh |-> k]])
    <3>1. /\ Moves(h) /\ req'[h].op = "store" /\ req'[h].row = req[h].row
          /\ req'[h].config = req[h].config /\ req'[h].secrets.access = tokens + 1
      BY <1>g, <2>4
    <3> QED
      BY <2>2, <3>1, KeepsGrants
  <2> QED
    BY <2>1, <2>3, <2>4
<1>10. ASSUME NEW h \in Handlers, CodeRefused(h) PROVE GrantInv' /\ Keeps
  <2>1. /\ Moves(h) /\ req[h].op \in ConfigOps /\ req'[h].op \notin CarryingOps
        /\ req'[h].row = req[h].row /\ req'[h].config = req[h].config
    BY <1>10, <1>g DEF CodeRefused, ConfigOps, CarryingOps
  <2> QED
    BY <1>10, <2>1, KeepsGrants DEF CodeRefused, database, history, counters
<1>11. ASSUME NEW h \in Handlers, StoreTokens(h) PROVE GrantInv' /\ Keeps
  <2>1. PICK r : r = req[h].row
    OBVIOUS
  <2>2. PICK x : /\ Rewrites(r, x) /\ x.secrets = req[h].secrets
                 /\ req[h].config.realm => x.config.realm
    BY <1>11, <2>1, StoreRewrites
  <2>3. /\ Moves(h) /\ Held(h, r) /\ req[h].op = "store" /\ req'[h].op \notin HoldingOps
        /\ disturbed' = disturbed /\ patched' = patched /\ tokens' = tokens
        /\ req[h].op \in CarryingOps
    BY <1>11, <1>i, <2>1 DEF StoreTokens, HoldingOps, CarryingOps, Held, history, counters
  <2>4. ASSUME r \notin disturbed \cup patched PROVE KeepsGrant(row[r], x)
    <3>1. req[h].config.realm = row[r].config.realm
      BY <2>1, <2>2, <2>3, <2>4 DEF GrantInv, ConfigKept, ConfigOps, Rewrites
    <3>2. row[r].secrets.access < x.secrets.access
      BY <2>1, <2>2, <2>3, <2>4 DEF GrantInv, NewerIsCarried, Rewrites
    <3>3. row[r].secrets.access \in Int /\ x.secrets.access \in Int
      BY <2>2, RowThere, BoundsAssumption DEF Rewrites, Row, Secrets
    <3> QED
      BY <2>2, <3>1, <3>2, <3>3 DEF KeepsGrant
  <2> QED
    BY <2>2, <2>3, <2>4, WritesGrants
<1>12. ASSUME NEW h \in Handlers, SaveTokens(h) PROVE GrantInv' /\ Keeps
  <2>1. PICK r : r = req[h].row
    OBVIOUS
  <2>2. PICK x : /\ Rewrites(r, x) /\ x.secrets = req[h].secrets
                 /\ x.status = row[r].status /\ x.config = row[r].config
    BY <1>12, <2>1, SaveTokensRewrites
  <2>3. PICK q : Becomes(h, q) /\ q.op \in {"push", "ask", "idle"}
    BY <1>12, SavedBecomes
  <2>4. /\ Moves(h) /\ Held(h, r) /\ req[h].op = "save" /\ req'[h].op \notin HoldingOps
        /\ disturbed' = disturbed /\ patched' = patched /\ tokens' = tokens
        /\ req[h].op \in CarryingOps
    BY <1>12, <1>g, <2>1, <2>3
       DEF SaveTokens, Becomes, HoldingOps, CarryingOps, Held, history, counters
  <2>5. ASSUME r \notin disturbed \cup patched PROVE KeepsGrant(row[r], x)
    <3>1. row[r].secrets.access < x.secrets.access
      BY <2>1, <2>2, <2>4, <2>5 DEF GrantInv, NewerIsCarried, Rewrites
    <3>2. row[r].secrets.access \in Int /\ x.secrets.access \in Int
      BY <2>2, RowThere, BoundsAssumption DEF Rewrites, Row, Secrets
    <3> QED
      BY <2>2, <3>1, <3>2 DEF KeepsGrant
  <2> QED
    BY <2>2, <2>4, <2>5, WritesGrants
<1>13. ASSUME NEW h \in Handlers, AskFresh(h) PROVE GrantInv' /\ Keeps
  <2>1. PICK q : Becomes(h, q) /\ q.op \in {"push", "ask", "idle"}
    BY <1>13, FreshBecomes
  <2>2. Moves(h) /\ req'[h].op \notin HoldingOps
    BY <1>g, <2>1 DEF Becomes, HoldingOps
  <2> QED
    BY <1>13, <1>l, <2>2 DEF AskFresh, database, counters, history
<1>14. ASSUME NEW h \in Handlers, AskToRefresh(h) PROVE GrantInv' /\ Keeps
  <2>1. PICK r \in RowsOf(req[h].ask.provider) :
          /\ Holds(h, r)
          /\ Goes(h, [op |-> "refresh", ask |-> req[h].ask, row |-> r,
                      secrets |-> row[r].secrets, config |-> row[r].config])
    BY <1>14 DEF AskToRefresh
  <2>2. /\ Moves(h) /\ req'[h].op = "refresh" /\ req'[h].row = r
        /\ req'[h].secrets = row[r].secrets /\ req'[h].op \notin ConfigOps
    BY <1>g, <2>1 DEF ConfigOps
  <2>3. r \in Rows /\ Exists(r)
    BY <2>1 DEF RowsOf
  <2>4. /\ row' = row /\ disturbed \subseteq disturbed' /\ patched \subseteq patched'
        /\ tokens' = tokens
    BY <1>14, <1>h, <2>1 DEF AskToRefresh, database, counters
  <2> QED
    BY <2>2, <2>3, <2>4, KeepsGrants
<1>15. ASSUME NEW h \in Handlers, TokenRefreshed(h) PROVE GrantInv' /\ Keeps
  <2>1. \/ /\ \E k : Goes(h, [op |-> "save", ask |-> req[h].ask, row |-> req[h].row,
                              config |-> req[h].config,
                              secrets |-> [access |-> tokens + 1, refresh |-> k]])
           /\ UNCHANGED history
        \/ Idles(h) /\ disturbed' = disturbed \cup {req[h].row} /\ UNCHANGED <<patched, doubled>>
    BY <1>15 DEF TokenRefreshed, Refreshed
  <2>2. /\ disturbed \subseteq disturbed' /\ patched \subseteq patched' /\ row' = row
        /\ tokens' = tokens + 1 /\ req[h].row \in Rows
    BY <1>15, <2>1, HolderShape DEF TokenRefreshed, Grant, HoldingOps, history, database
  <2>3. CASE Idles(h)
    BY <1>i, <1>l, <2>2, <2>3
  <2>4. ASSUME NEW k, Goes(h, [op |-> "save", ask |-> req[h].ask, row |-> req[h].row,
                               config |-> req[h].config,
                               secrets |-> [access |-> tokens + 1, refresh |-> k]])
        PROVE  GrantInv' /\ Keeps
    <3>1. /\ Moves(h) /\ req'[h].op = "save" /\ req'[h].row = req[h].row
          /\ req'[h].secrets.access = tokens + 1 /\ req'[h].op \notin ConfigOps
      BY <1>g, <2>4 DEF ConfigOps
    <3> QED
      BY <2>2, <3>1, KeepsGrants
  <2> QED
    BY <2>1, <2>3, <2>4
<1>16. ASSUME NEW h \in Handlers, RefreshRefused(h) PROVE GrantInv' /\ Keeps
  <2>1. Becomes(h, NoToken(req[h].ask)) /\ NoToken(req[h].ask).op \in {"ask", "idle"}
    BY <1>16, RefusedBecomes
  <2>2. Moves(h) /\ req'[h].op \notin HoldingOps
    BY <1>g, <2>1 DEF Becomes, HoldingOps
  <2> QED
    BY <1>16, <1>l, <2>2 DEF RefreshRefused, database, counters, history
<1>17. ASSUME NEW h \in Handlers, NEW i \in Invoices, StartSync(h, i) PROVE GrantInv' /\ Keeps
  <2>1. Moves(h) /\ req'[h].op = "ask"
    BY <1>17, <1>g DEF StartSync
  <2> QED
    BY <1>17, <1>l, <2>1 DEF StartSync, HoldingOps, database
<1>18. ASSUME NEW h \in Handlers, CreateCustomer(h) PROVE GrantInv' /\ Keeps
  <2>1. PICK q : Becomes(h, q) /\ q.op \in {"bill", "record"}
    BY <1>18, CustomerBecomes
  <2>2. Moves(h) /\ req'[h].op \notin HoldingOps
    BY <1>g, <2>1 DEF Becomes, HoldingOps
  <2> QED
    BY <1>18, <1>l, <2>2 DEF CreateCustomer, database, counters, history
<1>19. ASSUME NEW h \in Handlers, CreateDocument(h) PROVE GrantInv' /\ Keeps
  <2>1. PICK s, y : Goes(h, Outcome(req[h].ask, s, y))
    BY <1>19 DEF CreateDocument
  <2>2. Moves(h) /\ req'[h].op \notin HoldingOps
    BY <1>g, <2>1 DEF Outcome, HoldingOps
  <2> QED
    BY <1>19, <1>l, <2>2 DEF CreateDocument, database, counters, history
<1>20. ASSUME NEW h \in Handlers, DocumentRefused(h) PROVE GrantInv' /\ Keeps
  <2>1. Moves(h) /\ req'[h].op \notin HoldingOps
    BY <1>20, <1>g DEF DocumentRefused, Outcome, HoldingOps
  <2> QED
    BY <1>20, <1>l, <2>1 DEF DocumentRefused, database, counters, history
<1>21. ASSUME NEW h \in Handlers, UpsertSync(h) PROVE GrantInv' /\ Keeps
  <2>1. Moves(h) /\ req'[h].op \notin HoldingOps
    BY <1>21, <1>i DEF UpsertSync
  <2> QED
    BY <1>21, <1>l, <2>1 DEF UpsertSync, counters, history
<1>22. ASSUME NEW h \in Handlers, UpsertFails(h) PROVE GrantInv' /\ Keeps
  <2>1. Moves(h) /\ req'[h].op \notin HoldingOps
    BY <1>22, <1>g DEF UpsertFails, Outcome, HoldingOps
  <2> QED
    BY <1>22, <1>l, <2>1 DEF UpsertFails, database, counters
<1>23. ASSUME NEW h \in Handlers, Fails(h) PROVE GrantInv' /\ Keeps
  <2>1. Moves(h) /\ req'[h].op \notin HoldingOps
    BY <1>23, <1>i DEF Fails
  <2> QED
    BY <1>23, <1>l, <2>1 DEF Fails, database, counters
<1>24. ASSUME NEW n \in 1..MaxTokens, AccessExpires(n) PROVE GrantInv' /\ Keeps
  BY <1>s, <1>24 DEF AccessExpires, database, counters, history
<1>25. ASSUME NEW i \in Invoices, InvoiceMoves(i) PROVE GrantInv' /\ Keeps
  BY <1>s, <1>25 DEF InvoiceMoves, database, counters, history
<1>26. CASE UNCHANGED vars
  BY <1>s, <1>26 DEF vars, database, counters, history
<1> QED
  BY <1>1, <1>2, <1>3, <1>4, <1>5, <1>6, <1>7, <1>8, <1>9, <1>10, <1>11, <1>12, <1>13, <1>14, <1>15,
     <1>16, <1>17, <1>18, <1>19, <1>20, <1>21, <1>22, <1>23, <1>24, <1>25, <1>26
     DEF Next, StartOn, Step

LEMMA AlwaysGrants == Spec => [](Typed /\ TokenInv /\ GrantInv)
<1>1. Init => Typed /\ TokenInv /\ GrantInv
  BY InitTyped, InitTokens, InitGrants
<1>2. Typed /\ TokenInv /\ GrantInv /\ [Next]_vars => (Typed /\ TokenInv /\ GrantInv)'
  BY NextTyped, NextTokens, NextGrants
<1> QED
  BY <1>1, <1>2, PTL DEF Spec

(* Whatever requests read the two documents of a row before they replace them,
   the company that a callback named stays, and tokens give way only to those
   of a later grant - unless two requests held the row at once, a rotation was
   lost or the row was set by hand. *)
THEOREM GrantsAreKept == Spec => GrantIsKept
<1>1. Typed /\ TokenInv /\ GrantInv /\ [Next]_vars => [Keeps]_vars
  BY NextGrants
<1>2. GrantIsKept <=> [][Keeps]_vars
  BY DEF GrantIsKept, Keeps
<1> QED
  BY <1>1, <1>2, AlwaysGrants, PTL DEF Spec

-----------------------------------------------------------------------------
(* The ledger *)

LEMMA ElementOfSeq ==
  ASSUME NEW S, NEW seq \in Seq(S), NEW n \in DOMAIN seq
  PROVE  seq[n] \in S
  OBVIOUS

(* Request h is about to record a success. *)
Succeeded(h) == req[h].op = "record" /\ req[h].status = "SYNCED"

LEMMA PushTyped ==
  ASSUME Typed
  PROVE  /\ sync \in [Invoices -> Sync \cup {Nil}] /\ req \in [Handlers -> Request]
         /\ status \in [Invoices -> {"DRAFT", "SENT", "CANCELLED"}]
         /\ ledger \in Seq([invoice : Invoices, provider : OAuthProviders])
         /\ Len(ledger) \in Nat /\ DOMAIN ledger = 1..Len(ledger)
         /\ \A h \in Handlers : req[h].op \in PushOps => req[h].ask.invoice \in Invoices
<1>1. \A h \in Handlers : req[h].op \in PushOps => req[h].ask.invoice \in Invoices
  BY AskIsAsking DEF Asking
<1> QED
  BY <1>1 DEF Typed, TypeOK

(* The push of request h goes on or ends; sync, ledger and statuses stay. *)
LEMMA PushGoesOn ==
  ASSUME Typed, PushInv, NEW h \in Handlers, Moves(h), UNCHANGED <<sync, status, ledger>>,
         doubled \subseteq doubled',
         Succeeded(h) => req[h].ask.invoice \in doubled',
         req'[h].op \in PushOps =>
           /\ req[h].op \in PushOps
           /\ req'[h].ask.invoice = req[h].ask.invoice /\ req'[h].ask.seen = req[h].ask.seen
           /\ req'[h].ask.again \/ req'[h].op \in {"push", "bill", "record"} =>
                req'[h].ask.seen # "DRAFT"
           /\ req'[h].op = "record" => req'[h].status # "SYNCED"
  PROVE  PushInv'
<1>1. NoDraft'
  <2> SUFFICES ASSUME NEW g \in Handlers, req'[g].op \in PushOps
               PROVE  /\ req'[g].ask.seen # "DRAFT" => status[req'[g].ask.invoice] # "DRAFT"
                      /\ req'[g].ask.again \/ req'[g].op \in {"push", "bill", "record"} =>
                           req'[g].ask.seen # "DRAFT"
    BY DEF NoDraft
  <2>1. CASE g = h
    BY <2>1 DEF PushInv, NoDraft
  <2>2. CASE g # h
    BY <2>2 DEF Moves, PushInv, NoDraft
  <2> QED
    BY <2>1, <2>2
<1>2. SuccessIsReal'
  BY DEF Moves, PushInv, SuccessIsReal, PushOps
<1>3. OnePush'
  <2> SUFFICES ASSUME NEW i \in Invoices, i \notin doubled'
               PROVE  /\ \A f, g \in Handlers : Pushes(f, i)' /\ Pushes(g, i)' => f = g
                      /\ Settled(i)' => \A g \in Handlers : ~Pushes(g, i)'
                      /\ \A x \in DOMAIN ledger : ledger[x].invoice = i =>
                           \/ Settled(i)' /\ sync[i].external = x
                           \/ \E g \in Handlers : Pushes(g, i)' /\ Recorded(g, x)'
    BY DEF OnePush
  <2>1. i \notin doubled /\ (Settled(i)' <=> Settled(i))
    BY DEF Settled
  <2>2. \A g \in Handlers : Pushes(g, i)' => Pushes(g, i)
    BY DEF Pushes, Moves
  <2>3. ASSUME NEW g \in Handlers, NEW x, Pushes(g, i), Recorded(g, x)
        PROVE  Pushes(g, i)' /\ Recorded(g, x)'
    <3>1. g # h
      BY <2>3 DEF Pushes, Recorded, Succeeded
    <3> QED
      BY <2>3, <3>1 DEF Moves, Pushes, Recorded
  <2> QED
    BY <2>1, <2>2, <2>3 DEF PushInv, OnePush
<1>4. LedgerIsRight'
  BY DEF PushInv, LedgerIsRight, Settled
<1> QED
  BY <1>1, <1>2, <1>3, <1>4 DEF PushInv

(* A request that is no push, before or after, is of no interest. *)
LEMMA NoPush ==
  ASSUME Typed, PushInv, NEW h \in Handlers, Moves(h), UNCHANGED <<sync, status, ledger, doubled>>,
         req[h].op \notin PushOps, req'[h].op \notin PushOps
  PROVE  PushInv'
  BY PushGoesOn DEF Succeeded, PushOps

(* The first look at an invoice, by the only push of it that is not counted as
   a second one. *)
LEMMA PushStarts ==
  ASSUME Typed, PushInv, NEW h \in Handlers, NEW i \in Invoices, StartSync(h, i)
  PROVE  PushInv'
<1>0. /\ Moves(h) /\ UNCHANGED <<sync, status, ledger>> /\ doubled \subseteq doubled'
      /\ req[h].op = "idle" /\ req'[h].op = "ask" /\ req'[h].ask.invoice = i
      /\ req'[h].ask.seen = status[i]
      /\ i \notin doubled' => Pushers(i) = {} /\ ~Settled(i)
  BY PushTyped DEF StartSync, Begin, Idle, Goes, Moves, Settled, database, outside
<1>a. ~req'[h].ask.again
  BY PushTyped DEF StartSync, Goes
<1>1. NoDraft'
  <2> SUFFICES ASSUME NEW g \in Handlers, req'[g].op \in PushOps
               PROVE  /\ req'[g].ask.seen # "DRAFT" => status[req'[g].ask.invoice] # "DRAFT"
                      /\ req'[g].ask.again \/ req'[g].op \in {"push", "bill", "record"} =>
                           req'[g].ask.seen # "DRAFT"
    BY <1>0 DEF NoDraft
  <2>1. CASE g = h
    BY <1>0, <1>a, <2>1
  <2>2. CASE g # h
    BY <1>0, <2>2 DEF Moves, PushInv, NoDraft
  <2> QED
    BY <2>1, <2>2
<1>2. SuccessIsReal'
  BY <1>0 DEF Moves, PushInv, SuccessIsReal
<1>3. OnePush'
  <2> SUFFICES ASSUME NEW j \in Invoices, j \notin doubled'
               PROVE  /\ \A f, g \in Handlers : Pushes(f, j)' /\ Pushes(g, j)' => f = g
                      /\ Settled(j)' => \A g \in Handlers : ~Pushes(g, j)'
                      /\ \A x \in DOMAIN ledger : ledger[x].invoice = j =>
                           \/ Settled(j)' /\ sync[j].external = x
                           \/ \E g \in Handlers : Pushes(g, j)' /\ Recorded(g, x)'
    BY <1>0 DEF OnePush
  <2>1. j \notin doubled /\ (Settled(j)' <=> Settled(j))
    BY <1>0 DEF Settled
  <2>2. \A g \in Handlers : Pushes(g, j)' => Pushes(g, j) \/ (g = h /\ j = i)
    BY <1>0 DEF Pushes, Moves
  <2>3. j = i => \A g \in Handlers : ~Pushes(g, j)
    BY <1>0 DEF Pushers, Pushes
  <2>4. j = i => ~Settled(j)
    BY <1>0
  <2>5. ASSUME NEW g \in Handlers, NEW x, Pushes(g, j), Recorded(g, x)
        PROVE  Pushes(g, j)' /\ Recorded(g, x)'
    <3>1. g # h
      BY <1>0, <2>5 DEF Pushes, PushOps
    <3> QED
      BY <1>0, <2>5, <3>1 DEF Moves, Pushes, Recorded
  <2> QED
    BY <1>0, <2>1, <2>2, <2>3, <2>4, <2>5 DEF PushInv, OnePush
<1>4. LedgerIsRight'
  BY <1>0 DEF PushInv, LedgerIsRight, Settled
<1> QED
  BY <1>1, <1>2, <1>3, <1>4 DEF PushInv

(* The document is created, and its id known or lost. *)
LEMMA DocumentCreated ==
  ASSUME Typed, PushInv, NEW h \in Handlers, CreateDocument(h)
  PROVE  PushInv'
<1> DEFINE x == Len(ledger) + 1
<1>p. PICK a : a = req[h].ask
  OBVIOUS
<1>d. PICK d : d = [invoice |-> a.invoice, provider |-> a.provider]
  OBVIOUS
<1>0. /\ req[h].op \in {"push", "bill"} /\ ledger' = Append(ledger, d)
      /\ UNCHANGED <<sync, status>> /\ doubled \subseteq doubled'
      /\ a.invoice \in Invoices /\ a \in Asking
  BY <1>p, <1>d, PushTyped, AskIsAsking DEF CreateDocument, database, history, PushOps
<1>l. /\ Len(ledger) \in Nat /\ DOMAIN ledger = 1..Len(ledger) /\ DOMAIN ledger' = 1..x
      /\ ledger'[x] = d /\ \A y \in DOMAIN ledger : y # x /\ ledger'[y] = ledger[y]
  <2>1. d \in [invoice : Invoices, provider : OAuthProviders]
    BY <1>0, <1>d DEF Asking
  <2> QED
    BY <1>0, <2>1, PushTyped
<1>r. /\ Moves(h) /\ req'[h].op = "record" /\ req'[h].ask = a
      /\ \/ req'[h].status = "SYNCED" /\ req'[h].external = x
         \/ req'[h].status = "FAILED" /\ a.invoice \in doubled'
  BY <1>0, <1>p, PushTyped DEF CreateDocument, Goes, Outcome, SuccessOf, Moves
<1> HIDE DEF x
<1>n. a.seen # "DRAFT" /\ status[a.invoice] # "DRAFT"
  BY <1>0, <1>p DEF PushInv, NoDraft, PushOps
<1>1. NoDraft'
  <2> SUFFICES ASSUME NEW g \in Handlers, req'[g].op \in PushOps
               PROVE  /\ req'[g].ask.seen # "DRAFT" => status[req'[g].ask.invoice] # "DRAFT"
                      /\ req'[g].ask.again \/ req'[g].op \in {"push", "bill", "record"} =>
                           req'[g].ask.seen # "DRAFT"
    BY <1>0 DEF NoDraft
  <2>1. CASE g = h
    BY <1>n, <1>r, <2>1
  <2>2. CASE g # h
    BY <1>r, <2>2 DEF Moves, PushInv, NoDraft
  <2> QED
    BY <2>1, <2>2
<1>2. SuccessIsReal'
  <2> SUFFICES ASSUME NEW g \in Handlers, req'[g].op = "record", req'[g].status = "SYNCED"
               PROVE  /\ req'[g].external \in DOMAIN ledger'
                      /\ ledger'[req'[g].external] =
                           [invoice |-> req'[g].ask.invoice, provider |-> req'[g].ask.provider]
    BY DEF SuccessIsReal
  <2>1. CASE g = h
    BY <1>d, <1>l, <1>r, <2>1 DEF x
  <2>2. CASE g # h
    <3>1. req'[g] = req[g]
      BY <1>r, <2>2 DEF Moves
    <3>2. /\ req[g].external \in DOMAIN ledger
          /\ ledger[req[g].external] =
               [invoice |-> req[g].ask.invoice, provider |-> req[g].ask.provider]
      BY <3>1 DEF PushInv, SuccessIsReal
    <3>3. DOMAIN ledger \subseteq DOMAIN ledger'
      BY <1>l DEF x
    <3> QED
      BY <1>l, <3>1, <3>2, <3>3
  <2> QED
    BY <2>1, <2>2
<1>3. OnePush'
  <2> SUFFICES ASSUME NEW i \in Invoices, i \notin doubled'
               PROVE  /\ \A f, g \in Handlers : Pushes(f, i)' /\ Pushes(g, i)' => f = g
                      /\ Settled(i)' => \A g \in Handlers : ~Pushes(g, i)'
                      /\ \A y \in DOMAIN ledger' : ledger'[y].invoice = i =>
                           \/ Settled(i)' /\ sync'[i].external = y
                           \/ \E g \in Handlers : Pushes(g, i)' /\ Recorded(g, y)'
    BY DEF OnePush
  <2>1. i \notin doubled /\ (Settled(i)' <=> Settled(i))
    BY <1>0 DEF Settled
  <2>2. \A g \in Handlers : Pushes(g, i)' <=> Pushes(g, i)
    BY <1>0, <1>p, <1>r DEF Pushes, Moves, PushOps
  <2>3. ASSUME NEW y \in DOMAIN ledger', ledger'[y].invoice = i
        PROVE  \/ Settled(i) /\ sync[i].external = y
               \/ \E g \in Handlers : Pushes(g, i)' /\ Recorded(g, y)'
    <3>1. CASE y = x
      <4>1. i = a.invoice
        BY <1>d, <1>l, <2>3, <3>1
      <4> QED
        BY <1>r, <3>1, <4>1 DEF Pushes, Recorded, PushOps
    <3>2. CASE y # x
      <4>1. y \in DOMAIN ledger /\ ledger[y].invoice = i
        BY <1>l, <2>3, <3>2 DEF x
      <4>2. CASE Settled(i) /\ sync[i].external = y
        BY <4>2
      <4>3. CASE \E g \in Handlers : Pushes(g, i) /\ Recorded(g, y)
        <5>1. PICK g \in Handlers : Pushes(g, i) /\ Recorded(g, y)
          BY <4>3
        <5>2. g # h
          BY <1>0, <5>1 DEF Recorded
        <5> QED
          BY <1>r, <5>1, <5>2 DEF Moves, Pushes, Recorded
      <4> QED
        BY <2>1, <4>1, <4>2, <4>3 DEF PushInv, OnePush
    <3> QED
      BY <3>1, <3>2
  <2> QED
    BY <1>0, <2>1, <2>2, <2>3 DEF PushInv, OnePush
<1>4. LedgerIsRight'
  <2>1. ASSUME NEW i \in Invoices, Settled(i)'
        PROVE  /\ sync'[i].external \in DOMAIN ledger'
               /\ ledger'[sync'[i].external] = [invoice |-> i, provider |-> sync'[i].provider]
    <3>1. /\ sync[i].external \in DOMAIN ledger
          /\ ledger[sync[i].external] = [invoice |-> i, provider |-> sync[i].provider]
      BY <1>0, <2>1 DEF Settled, PushInv, LedgerIsRight
    <3>2. DOMAIN ledger \subseteq DOMAIN ledger'
      BY <1>l DEF x
    <3> QED
      BY <1>0, <1>l, <3>1, <3>2
  <2>2. ASSUME NEW y \in DOMAIN ledger' PROVE status'[ledger'[y].invoice] # "DRAFT"
    <3>1. CASE y = x
      BY <1>0, <1>d, <1>l, <1>n, <3>1
    <3>2. CASE y # x
      <4>1. y \in DOMAIN ledger
        BY <1>l, <2>2, <3>2 DEF x
      <4> QED
        BY <1>0, <1>l, <4>1 DEF PushInv, LedgerIsRight
    <3> QED
      BY <3>1, <3>2
  <2> QED
    BY <2>1, <2>2 DEF LedgerIsRight
<1> QED
  BY <1>1, <1>2, <1>3, <1>4 DEF PushInv

(* The outcome is recorded. *)
LEMMA OutcomeRecorded ==
  ASSUME Typed, PushInv, NEW h \in Handlers, UpsertSync(h)
  PROVE  PushInv'
<1>p. PICK i : i = req[h].ask.invoice
  OBVIOUS
<1>z. PICK z \in Sync :
        /\ sync' = [sync EXCEPT ![i] = z]
        /\ z.status = req[h].status /\ z.provider = req[h].ask.provider
        /\ z.status = "SYNCED" => z.external = req[h].external
  BY <1>p, UpsertWrites
<1>0. /\ req[h].op = "record" /\ Pushes(h, i) /\ i \in Invoices
      /\ UNCHANGED <<status, ledger, doubled>>
      /\ Moves(h) /\ req'[h].op \notin PushOps
      /\ sync'[i] = z /\ \A j \in Invoices : j # i => sync'[j] = sync[j]
      /\ z # Nil
  BY <1>p, <1>z, PushTyped, NilAssumption
     DEF UpsertSync, Pushes, Idles, Idle, Moves, PushOps, outside, history
<1>1. NoDraft' /\ SuccessIsReal'
  BY <1>0 DEF Moves, PushInv, NoDraft, SuccessIsReal, PushOps
<1>2. LedgerIsRight'
  <2>1. ASSUME NEW j \in Invoices, Settled(j)'
        PROVE  /\ sync'[j].external \in DOMAIN ledger
               /\ ledger[sync'[j].external] = [invoice |-> j, provider |-> sync'[j].provider]
    <3>1. CASE j = i
      BY <1>0, <1>p, <1>z, <2>1, <3>1 DEF Settled, PushInv, SuccessIsReal
    <3>2. CASE j # i
      BY <1>0, <2>1, <3>2 DEF Settled, PushInv, LedgerIsRight
    <3> QED
      BY <3>1, <3>2
  <2> QED
    BY <1>0, <2>1 DEF PushInv, LedgerIsRight
<1>3. OnePush'
  <2> SUFFICES ASSUME NEW j \in Invoices, j \notin doubled
               PROVE  /\ \A f, g \in Handlers : Pushes(f, j)' /\ Pushes(g, j)' => f = g
                      /\ Settled(j)' => \A g \in Handlers : ~Pushes(g, j)'
                      /\ \A x \in DOMAIN ledger : ledger[x].invoice = j =>
                           \/ Settled(j)' /\ sync'[j].external = x
                           \/ \E g \in Handlers : Pushes(g, j)' /\ Recorded(g, x)'
    BY <1>0 DEF OnePush
  <2>1. \A g \in Handlers : Pushes(g, j)' => Pushes(g, j) /\ g # h
    BY <1>0 DEF Pushes, Moves
  <2>2. CASE j = i
    <3>1. \A g \in Handlers : Pushes(g, i) => g = h
      BY <1>0, <2>2 DEF PushInv, OnePush
    <3>2. ~Settled(i)
      BY <1>0, <2>2 DEF PushInv, OnePush
    <3>3. ASSUME NEW x \in DOMAIN ledger, ledger[x].invoice = i
          PROVE  Settled(i)' /\ sync'[i].external = x
      <4>1. Recorded(h, x)
        BY <2>2, <3>1, <3>2, <3>3 DEF PushInv, OnePush
      <4> QED
        BY <1>0, <1>z, <4>1 DEF Recorded, Settled
    <3> QED
      BY <2>1, <2>2, <3>1, <3>3
  <2>3. CASE j # i
    <3>1. \A g \in Handlers : Pushes(g, j) => g # h
      BY <1>0, <2>3 DEF Pushes
    <3>2. \A g \in Handlers, x \in DOMAIN ledger :
            Pushes(g, j) /\ Recorded(g, x) => Pushes(g, j)' /\ Recorded(g, x)'
      BY <1>0, <3>1 DEF Moves, Pushes, Recorded
    <3>3. sync'[j] = sync[j] /\ (Settled(j)' <=> Settled(j))
      BY <1>0, <2>3 DEF Settled
    <3> QED
      BY <2>1, <3>2, <3>3 DEF PushInv, OnePush
  <2> QED
    BY <2>2, <2>3
<1> QED
  BY <1>1, <1>2, <1>3 DEF PushInv

(* An invoice is issued or cancelled, and never a draft again. *)
LEMMA InvoiceMoved ==
  ASSUME Typed, PushInv, NEW i \in Invoices, InvoiceMoves(i)
  PROVE  PushInv'
<1>0. /\ UNCHANGED <<sync, req, ledger, doubled>>
      /\ \A j \in Invoices : status'[j] = "DRAFT" => status[j] = "DRAFT"
  BY PushTyped DEF InvoiceMoves, database, history
<1>1. NoDraft'
  BY <1>0, PushTyped DEF PushInv, NoDraft
<1>2. SuccessIsReal' /\ OnePush'
  BY <1>0 DEF PushInv, SuccessIsReal, OnePush, Pushes, Settled, Recorded
<1>3. LedgerIsRight'
  <2>1. ledger \in Seq([invoice : Invoices, provider : OAuthProviders])
    BY PushTyped
  <2>2. ASSUME NEW x \in DOMAIN ledger PROVE ledger[x].invoice \in Invoices
    <3>1. ledger[x] \in [invoice : Invoices, provider : OAuthProviders]
      BY <2>1, ElementOfSeq
    <3> QED
      BY <3>1
  <2> QED
    BY <1>0, <2>2 DEF PushInv, LedgerIsRight, Settled
<1> QED
  BY <1>1, <1>2, <1>3 DEF PushInv

(* With and without a token, a push keeps its invoice and what it saw. *)
LEMMA PushKept ==
  ASSUME NEW a \in Asking, NEW c
  PROVE  /\ LET q == WithToken(a, c) IN
              q.op \in PushOps => /\ q.op # "record" /\ q.ask.invoice = a.invoice
                                 /\ q.ask.seen = a.seen /\ (a.again \/ a.seen # "DRAFT")
         /\ LET q == NoToken(a) IN
              q.op \in PushOps => /\ q.op = "ask" /\ q.ask.invoice = a.invoice
                                 /\ q.ask.seen = a.seen /\ (q.ask.again => a.again)
  BY DEF Asking, WithToken, NoToken, Finalised, Idle, PushOps

LEMMA InitPush == Init => PushInv
  BY DEF Init, Idle, PushInv, NoDraft, SuccessIsReal, OnePush, LedgerIsRight, Pushes, PushOps, Settled

LEMMA NextPush == Typed /\ PushInv /\ [Next]_vars => PushInv'
<1> SUFFICES ASSUME Typed, PushInv, Next \/ UNCHANGED vars PROVE PushInv'
  OBVIOUS
<1>t. req \in [Handlers -> Request]
  BY Unpacked
<1>s. UNCHANGED <<req, sync, status, ledger, doubled>> => PushInv'
  BY DEF PushInv, NoDraft, SuccessIsReal, OnePush, LedgerIsRight, Pushes, Settled, Recorded
<1>g. ASSUME NEW h \in Handlers, NEW q, Goes(h, q) PROVE Moves(h) /\ req'[h] = q
  BY <1>t, <1>g DEF Goes, Moves
<1>i. ASSUME NEW h \in Handlers, Idles(h) PROVE Moves(h) /\ req'[h].op \notin PushOps
  BY <1>t, <1>i DEF Idles, Moves, Idle, PushOps
<1>b. ASSUME NEW h \in Handlers, Begin(h) PROVE req[h].op \notin PushOps
  BY <1>b DEF Begin, Idle, PushOps
<1>d. ASSUME NEW h \in Handlers, req[h].op \in PushOps
      PROVE  /\ req[h].ask \in Asking
             /\ req[h].ask.again => req[h].ask.seen # "DRAFT"
  BY <1>d, AskIsAsking DEF PushInv, NoDraft
(* The requests that are no push. *)
<1>1. ASSUME NEW h \in Handlers, NEW p \in Providers, StartConnect(h, p) PROVE PushInv'
  <2>1. Moves(h) /\ req'[h].op \notin PushOps
    BY <1>1, <1>g DEF StartConnect, PushOps
  <2> QED
    BY <1>1, <1>b, <2>1, NoPush DEF StartConnect, database, outside, history
<1>2. ASSUME NEW h \in Handlers, InsertRow(h) PROVE PushInv'
  BY <1>2, <1>i, NoPush DEF InsertRow, PushOps, outside, history
<1>3. ASSUME NEW h \in Handlers, NEW r \in Rows, StartUpdate(h, r) PROVE PushInv'
  <2>1. PICK c :
          Goes(h, [op |-> "patch", row |-> r, change |-> c, secrets |-> row[r].secrets])
    BY <1>3 DEF StartUpdate
  <2>2. Moves(h) /\ req'[h].op \notin PushOps
    BY <1>g, <2>1 DEF PushOps
  <2> QED
    BY <1>3, <1>b, <2>2, NoPush DEF StartUpdate, database, outside
<1>4. ASSUME NEW h \in Handlers, UpdateRow(h) PROVE PushInv'
  <2>1. UNCHANGED <<sync, status, ledger, doubled>> /\ req[h].op \notin PushOps /\ Idles(h)
    BY <1>4 DEF UpdateRow, PushOps, outside
  <2> QED
    BY <1>i, <2>1, NoPush
<1>5. ASSUME NEW h \in Handlers, NEW r \in Rows, Remove(h, r) PROVE PushInv'
  BY <1>5, <1>s DEF Remove, outside, history
<1>6. ASSUME NEW h \in Handlers, NEW r \in Rows, StartAuthorize(h, r) PROVE PushInv'
  <2>1. Moves(h) /\ req'[h].op \notin PushOps
    BY <1>6, <1>g DEF StartAuthorize, PushOps
  <2> QED
    BY <1>6, <1>b, <2>1, NoPush DEF StartAuthorize, database, outside
<1>7. ASSUME NEW h \in Handlers, SaveState(h) \/ StoreTokens(h) \/ ClearState(h) PROVE PushInv'
  <2>1. UNCHANGED <<sync, status, ledger, doubled>> /\ req[h].op \notin PushOps /\ Idles(h)
    BY <1>7 DEF SaveState, StoreTokens, ClearState, PushOps, outside, history
  <2> QED
    BY <1>i, <2>1, NoPush
<1>8. ASSUME NEW h \in Handlers, NEW s \in 1..states, Callback(h, s) PROVE PushInv'
  <2>1. PICK r \in Rows, named \in SUBSET Extras :
          Goes(h, [op |-> "exchange", row |-> r, state |-> s, named |-> named,
                   secrets |-> row[r].secrets, config |-> row[r].config])
    BY <1>8 DEF Callback
  <2>2. Moves(h) /\ req'[h].op \notin PushOps
    BY <1>g, <2>1 DEF PushOps
  <2> QED
    BY <1>8, <1>b, <2>2, NoPush DEF Callback, database, outside
<1>9. ASSUME NEW h \in Handlers, CodeAccepted(h) PROVE PushInv'
  <2>1. Moves(h) /\ req'[h].op \notin PushOps
    <3>1. ASSUME NEW k, Goes(h, [op |-> "store", row |-> req[h].row, named |-> req[h].named,
                                 config |-> req[h].config,
                                 secrets |-> [access |-> tokens + 1, refresh |-> k]])
          PROVE  Moves(h) /\ req'[h].op \notin PushOps
      BY <1>g, <3>1 DEF PushOps
    <3> QED
      BY <1>9, <1>i, <3>1 DEF CodeAccepted
  <2>2. req[h].op \notin PushOps /\ UNCHANGED <<sync, status, ledger, doubled>>
    BY <1>9 DEF CodeAccepted, PushOps, database, history
  <2> QED
    BY <2>1, <2>2, NoPush
<1>10. ASSUME NEW h \in Handlers, CodeRefused(h) PROVE PushInv'
  <2>1. Moves(h) /\ req'[h].op \notin PushOps
    BY <1>10, <1>g DEF CodeRefused, PushOps
  <2> QED
    BY <1>10, <2>1, NoPush DEF CodeRefused, PushOps, database, outside, history
(* The steps of a push. *)
<1>11. ASSUME NEW h \in Handlers, AskFresh(h) \/ RefreshRefused(h) \/ SaveTokens(h) PROVE PushInv'
  <2>1. /\ req[h].op \in PushOps /\ ~Succeeded(h)
        /\ UNCHANGED <<sync, status, ledger, doubled>>
    BY <1>11 DEF AskFresh, RefreshRefused, SaveTokens, PushOps, Succeeded, database, outside, history
  <2>2. \/ Goes(h, NoToken(req[h].ask))
        \/ \E c \in Config : Goes(h, WithToken(req[h].ask, c))
    <3>1. CASE AskFresh(h)
      <4>1. PICK q : /\ Becomes(h, q)
                     /\ q \in {NoToken(req[h].ask)} \cup {WithToken(req[h].ask, c) : c \in Config}
        BY <3>1, FreshBecomes
      <4> QED
        BY <4>1 DEF Becomes
    <3>2. CASE RefreshRefused(h)
      BY <3>2 DEF RefreshRefused
    <3>3. CASE SaveTokens(h)
      <4>1. PICK q : Becomes(h, q) /\ q \in {WithToken(req[h].ask, c) : c \in Config}
        BY <3>3, SavedBecomes
      <4> QED
        BY <4>1 DEF Becomes
    <3> QED
      BY <1>11, <3>1, <3>2, <3>3
  <2>3. CASE Goes(h, NoToken(req[h].ask))
    <3>1. PICK q : q = NoToken(req[h].ask)
      OBVIOUS
    <3>2. q.op \in PushOps =>
            /\ q.op = "ask" /\ q.ask.invoice = req[h].ask.invoice /\ q.ask.seen = req[h].ask.seen
            /\ q.ask.again => q.ask.seen # "DRAFT"
      BY <1>d, <2>1, <3>1, PushKept
    <3>3. Moves(h) /\ req'[h] = q
      BY <1>g, <2>3, <3>1
    <3> QED
      BY <2>1, <3>2, <3>3, PushGoesOn
  <2>4. ASSUME NEW c \in Config, Goes(h, WithToken(req[h].ask, c)) PROVE PushInv'
    <3>1. PICK q : q = WithToken(req[h].ask, c)
      OBVIOUS
    <3>2. q.op \in PushOps =>
            /\ q.op # "record" /\ q.ask.invoice = req[h].ask.invoice /\ q.ask.seen = req[h].ask.seen
            /\ q.ask.seen # "DRAFT"
      BY <1>d, <2>1, <3>1, PushKept
    <3>3. Moves(h) /\ req'[h] = q
      BY <1>g, <2>4, <3>1
    <3> QED
      BY <2>1, <3>2, <3>3, PushGoesOn
  <2> QED
    BY <2>2, <2>3, <2>4
<1>12. ASSUME NEW h \in Handlers, AskToRefresh(h) PROVE PushInv'
  <2>1. PICK r \in RowsOf(req[h].ask.provider) :
          Goes(h, [op |-> "refresh", ask |-> req[h].ask, row |-> r,
                   secrets |-> row[r].secrets, config |-> row[r].config])
    BY <1>12 DEF AskToRefresh
  <2>2. /\ req[h].op \in PushOps /\ ~Succeeded(h)
        /\ UNCHANGED <<sync, status, ledger, doubled>>
    BY <1>12 DEF AskToRefresh, PushOps, Succeeded, database, outside
  <2>3. Moves(h) /\ req'[h].op = "refresh" /\ req'[h].ask = req[h].ask
    BY <1>g, <2>1
  <2> QED
    BY <1>d, <2>2, <2>3, PushGoesOn
<1>13. ASSUME NEW h \in Handlers, TokenRefreshed(h) PROVE PushInv'
  <2>1. /\ req[h].op \in PushOps /\ ~Succeeded(h)
        /\ UNCHANGED <<sync, status, ledger, doubled>>
    BY <1>13 DEF TokenRefreshed, PushOps, Succeeded, database, history
  <2>2. ASSUME NEW k, Goes(h, [op |-> "save", ask |-> req[h].ask, row |-> req[h].row,
                               config |-> req[h].config,
                               secrets |-> [access |-> tokens + 1, refresh |-> k]])
        PROVE  PushInv'
    <3>1. Moves(h) /\ req'[h].op = "save" /\ req'[h].ask = req[h].ask
      BY <1>g, <2>2
    <3> QED
      BY <1>d, <2>1, <3>1, PushGoesOn
  <2>3. CASE Idles(h)
    BY <1>i, <2>1, <2>3, PushGoesOn
  <2> QED
    BY <1>13, <2>2, <2>3 DEF TokenRefreshed, Refreshed
<1>14. ASSUME NEW h \in Handlers, NEW i \in Invoices, StartSync(h, i) PROVE PushInv'
  BY <1>14, PushStarts
<1>15. ASSUME NEW h \in Handlers, CreateCustomer(h) PROVE PushInv'
  <2>1. PICK q : /\ Becomes(h, q) /\ q.op \in {"bill", "record"} /\ q.ask = req[h].ask
                 /\ q.op = "record" => q.status = "FAILED"
    BY <1>15, CustomerBecomes
  <2>2. Moves(h) /\ req'[h] = q
    BY <1>g, <2>1 DEF Becomes
  <2>3. /\ req[h].op = "push" /\ ~Succeeded(h)
        /\ UNCHANGED <<sync, status, ledger, doubled>>
    BY <1>15 DEF CreateCustomer, Succeeded, database, outside, history
  <2>4. req[h].ask.seen # "DRAFT"
    BY <2>3 DEF PushInv, NoDraft, PushOps
  <2> QED
    BY <2>1, <2>2, <2>3, <2>4, PushGoesOn DEF PushOps
<1>16. ASSUME NEW h \in Handlers, CreateDocument(h) PROVE PushInv'
  BY <1>16, DocumentCreated
<1>17. ASSUME NEW h \in Handlers, DocumentRefused(h) PROVE PushInv'
  <2>1. /\ Moves(h) /\ req'[h].op = "record" /\ req'[h].ask = req[h].ask /\ req'[h].status = "FAILED"
    BY <1>17, <1>g DEF DocumentRefused, Outcome
  <2>2. /\ req[h].op \in {"push", "bill"} /\ ~Succeeded(h)
        /\ UNCHANGED <<sync, status, ledger, doubled>>
    BY <1>17 DEF DocumentRefused, Succeeded, database, outside, history
  <2>3. req[h].ask.seen # "DRAFT"
    BY <2>2 DEF PushInv, NoDraft, PushOps
  <2> QED
    BY <2>1, <2>2, <2>3, PushGoesOn DEF PushOps
<1>18. ASSUME NEW h \in Handlers, UpsertSync(h) PROVE PushInv'
  BY <1>18, OutcomeRecorded
<1>19. ASSUME NEW h \in Handlers, UpsertFails(h) PROVE PushInv'
  <2>1. /\ Moves(h) /\ req'[h].op = "record" /\ req'[h].ask = req[h].ask /\ req'[h].status = "FAILED"
    BY <1>19, <1>g DEF UpsertFails, Outcome
  <2>2. /\ req[h].op = "record" /\ UNCHANGED <<sync, status, ledger>>
        /\ doubled' = doubled \cup {req[h].ask.invoice}
    BY <1>19 DEF UpsertFails, database, outside
  <2>3. req[h].ask.seen # "DRAFT"
    BY <2>2 DEF PushInv, NoDraft, PushOps
  <2> QED
    BY <2>1, <2>2, <2>3, PushGoesOn DEF PushOps
<1>20. ASSUME NEW h \in Handlers, Fails(h) PROVE PushInv'
  <2>1. UNCHANGED <<sync, status, ledger>> /\ doubled \subseteq doubled' /\ Idles(h)
    BY <1>20 DEF Fails, database, outside
  <2>2. Succeeded(h) => req[h].ask.invoice \in doubled'
    <3>1. Succeeded(h) => req[h].external \in DOMAIN ledger
      BY DEF Succeeded, PushInv, SuccessIsReal
    <3>2. 0 \notin DOMAIN ledger
      BY PushTyped
    <3>3. Succeeded(h) => req[h].external # 0
      BY <3>1, <3>2
    <3> QED
      BY <1>20, <3>3 DEF Fails, Succeeded
  <2> QED
    BY <1>i, <2>1, <2>2, PushGoesOn
<1>21. ASSUME NEW n \in 1..MaxTokens, AccessExpires(n) PROVE PushInv'
  BY <1>s, <1>21 DEF AccessExpires, database, history
<1>22. ASSUME NEW i \in Invoices, InvoiceMoves(i) PROVE PushInv'
  BY <1>22, InvoiceMoved
<1>23. CASE UNCHANGED vars
  BY <1>s, <1>23 DEF vars, database, outside, history
<1> QED
  BY <1>1, <1>2, <1>3, <1>4, <1>5, <1>6, <1>7, <1>8, <1>9, <1>10, <1>11, <1>12, <1>13, <1>14, <1>15,
     <1>16, <1>17, <1>18, <1>19, <1>20, <1>21, <1>22, <1>23
     DEF Next, StartOn, Step

LEMMA AlwaysPushed == Spec => [](Typed /\ PushInv)
<1>1. Init => Typed /\ PushInv
  BY InitTyped, InitPush
<1>2. Typed /\ PushInv /\ [Next]_vars => (Typed /\ PushInv)'
  BY NextTyped, NextPush
<1> QED
  BY <1>1, <1>2, PTL DEF Spec

(* What a row calls SYNCED is in that provider's ledger under its own id, no
   draft ever is, and an invoice is there once, unless an answer or its record
   was lost, two pushes overlapped, or one was run on an invoice that was
   SYNCED. *)
THEOREM BilledOutsideOnce == Spec => []OneDocument
<1>1. Typed /\ PushInv => OneDocument
  <2> SUFFICES ASSUME Typed, PushInv PROVE OneDocument
    OBVIOUS
  <2>1. ASSUME NEW i \in Invoices \ doubled PROVE Cardinality(Documents(i)) <= 1
    <3>1. ASSUME NEW x \in Documents(i), NEW y \in Documents(i) PROVE x = y
      <4>1. x \in DOMAIN ledger /\ ledger[x].invoice = i /\ y \in DOMAIN ledger /\ ledger[y].invoice = i
        BY <3>1 DEF Documents
      <4>2. CASE Settled(i)
        <5>1. \A h \in Handlers : ~Pushes(h, i)
          BY <2>1, <4>2 DEF PushInv, OnePush
        <5> QED
          BY <2>1, <4>1, <5>1 DEF PushInv, OnePush
      <4>3. CASE ~Settled(i)
        <5>1. PICK g \in Handlers : Pushes(g, i) /\ Recorded(g, x)
          BY <2>1, <4>1, <4>3 DEF PushInv, OnePush
        <5>2. PICK h \in Handlers : Pushes(h, i) /\ Recorded(h, y)
          BY <2>1, <4>1, <4>3 DEF PushInv, OnePush
        <5>3. g = h
          BY <2>1, <5>1, <5>2 DEF PushInv, OnePush
        <5> QED
          BY <5>1, <5>2, <5>3 DEF Recorded
      <4> QED
        BY <4>2, <4>3
    <3>2. CASE Documents(i) = {}
      <4>1. Cardinality(Documents(i)) = 0
        BY <3>2, FS_EmptySet, Zenon
      <4> QED
        BY <4>1
    <3>3. CASE Documents(i) # {}
      <4>1. PICK x : Documents(i) = {x}
        BY <3>1, <3>3
      <4>2. Cardinality(Documents(i)) = 1
        BY <4>1, FS_Singleton, Zenon
      <4> QED
        BY <4>2
    <3> QED
      BY <3>2, <3>3
  <2> QED
    BY <2>1 DEF PushInv, LedgerIsRight, OneDocument, Settled
<1> QED
  BY <1>1, AlwaysPushed, PTL

=============================================================================
