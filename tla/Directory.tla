----------------------------- MODULE Directory -----------------------------
(***************************************************************************)
(* Contacts and companies (modules/contacts, companies), their import and  *)
(* merge (modules/data), erasure (modules/gdpr), and the tenant that each  *)
(* query is confined to (prisma, common/tenant).                           *)
(*                                                                         *)
(* Deals point to contacts and companies by plain columns, without foreign *)
(* keys; contacts point to companies with one (ON DELETE SET NULL).  The   *)
(* code of contacts and of companies is the same twice over, so the rows   *)
(* of both are Records here, told apart by their kind.  What a row says is *)
(* abstracted to whom or what it describes: the email and phone of a       *)
(* contact, the name of a company.                                         *)
(***************************************************************************)
EXTENDS Integers, Sequences, FiniteSets

CONSTANTS
  Handlers,       \* requests in flight at the same time
  Contexts,       \* tenants of the requests; Nil: a user bound to none
  Records,        \* numbers standing for ids, taken in order
  Deals,          \* the same
  Subjects,       \* what a row can describe
  Nil, Gone,
  InitialRecords, \* rows that exist at first, in order
  InitialDeals,   \* deals of conversions that happened before, in order
  MaxRequests,    \* bound: requests after that
  MaxImport       \* bound: rows of an imported file

Kind == {"contact", "company"}
Record == [kind : Kind, tenant : Contexts, subject : Subjects \cup {Nil},
           company : Records \cup {Nil}]
Deal   == [tenant : Contexts, contact : Records \cup {Nil}, company : Records \cup {Nil}]

ASSUME IdsAssumption     == Records \subseteq Nat \ {0} /\ Deals \subseteq Nat
ASSUME NilAssumption     ==            \* a marker is no row and no id
  Nil # Gone /\ {Nil, Gone} \cap (Record \cup Deal) = {} /\ Nil \notin Nat
ASSUME InitialAssumption ==            \* what conversions leave is in one tenant
  /\ InitialRecords \in Seq(Record) /\ DOMAIN InitialRecords \subseteq Records
  /\ InitialDeals \in Seq(Deal) /\ DOMAIN InitialDeals \subseteq Deals
  /\ \A r \in DOMAIN InitialRecords :
       InitialRecords[r].company \in DOMAIN InitialRecords \cup {Nil}
  /\ \A d \in DOMAIN InitialDeals : \A k \in Kind :
       LET r == IF k = "contact" THEN InitialDeals[d].contact ELSE InitialDeals[d].company
       IN r # Nil => /\ r \in DOMAIN InitialRecords
                     /\ InitialRecords[r].kind = k /\ InitialRecords[r].tenant = InitialDeals[d].tenant
ASSUME BoundsAssumption  == MaxRequests \in Nat /\ MaxImport \in Nat /\ IsFiniteSet(Handlers)

VARIABLES
  rec,       \* Contact and Company rows (Nil: none yet, Gone: deleted)
  deal,      \* Deal rows, as far as they point to records (Nil: none yet)
  req,
  requests,
  origin,    \* history: what a deal pointed to when it was created
  heir,      \* history: where merges and erasures should have moved a
             \* reference to a record by now
  mixed,     \* history: records into which one of another tenant was merged,
             \* directly or through others
  seen,      \* history: rows that the last lookup of an import went over, as
             \* far as they describe whom they did then
  compared   \* history: the same, by the row that the import then created

dirVars == <<rec, deal, req, requests, origin, heir, mixed, seen, compared>>

Idle      == [op |-> "idle"]
Live(r)   == rec[r] \notin {Nil, Gone}
Linkable(r) == r # Nil => Live(r)
OfKind(k) == {r \in Records : Live(r) /\ rec[r].kind = k}
Fresh(r)  == rec[r] = Nil /\ \A q \in Records : q < r => rec[q] # Nil
FreshDeal(d) == deal[d] = Nil /\ \A e \in Deals : e < d => deal[e] # Nil

-----------------------------------------------------------------------------
(* Slips the properties below must catch; no action uses them. *)

NobodyThere(ctx, k, s) == FALSE                    \* duplicate check dropped
LinkKept(l, s, t)      == l                        \* deals not moved
UntaggedRow(k, ctx, s, c) ==                       \* tenant forgotten on create
  [kind |-> k, subject |-> s, company |-> c]

-----------------------------------------------------------------------------
(* The Prisma middleware: rows are created in the tenant of the request, and
   found, updated and deleted only there; without a tenant, everywhere. *)

Sees(ctx, row) == ctx = Nil \/ row.tenant = ctx
Found(ctx, r)  == Live(r) /\ Sees(ctx, rec[r])
NewRow(k, ctx, s, c) == [kind |-> k, tenant |-> ctx, subject |-> s, company |-> c]

Begin(h, r) ==
  /\ req[h] = Idle
  /\ requests < MaxRequests
  /\ requests' = requests + 1
  /\ req' = [req EXCEPT ![h] = r]

Done(h) == req' = [req EXCEPT ![h] = Idle] /\ UNCHANGED requests

(* A contact may be linked to a company that the request can see. *)
Companies(ctx) == {k \in OfKind("company") : Found(ctx, k)}
Links(k, ctx)  == IF k = "contact" THEN Companies(ctx) \cup {Nil} ELSE {Nil}

StartCreate(h, ctx, k) ==
  /\ \E s \in Subjects \cup {Nil}, c \in Links(k, ctx) :
       Begin(h, [op |-> "create", row |-> NewRow(k, ctx, s, c)])
  /\ UNCHANGED <<rec, deal, origin, heir, mixed, seen, compared>>

StartUpdate(h, ctx, r) ==
  /\ Found(ctx, r)
  /\ \E s \in Subjects \cup {Nil}, c \in Links(rec[r].kind, ctx) :
       Begin(h, [op |-> "update", id |-> r, tenant |-> ctx, subject |-> s, company |-> c])
  /\ UNCHANGED <<rec, deal, origin, heir, mixed, seen, compared>>

Create(h) ==
  LET row == req[h].row IN
  /\ req[h].op = "create" /\ Linkable(row.company)
  /\ \E r \in Records :
       /\ Fresh(r)
       /\ rec' = [rec EXCEPT ![r] = row]
  /\ Done(h)
  /\ UNCHANGED <<deal, origin, heir, mixed, seen, compared>>

(* What was compared with row r before it got another subject says nothing now. *)
Renamed(r) ==
  /\ seen' = [h \in Handlers |-> seen[h] \ {r}]
  /\ compared' = [q \in Records |-> IF q = r THEN {} ELSE compared[q] \ {r}]

Update(h) ==
  LET q == req[h] IN
  /\ q.op = "update" /\ Found(q.tenant, q.id) /\ Linkable(q.company)
  /\ rec' = [rec EXCEPT ![q.id].subject = q.subject, ![q.id].company = q.company]
  /\ IF rec[q.id].subject = q.subject THEN UNCHANGED <<seen, compared>> ELSE Renamed(q.id)
  /\ Done(h)
  /\ UNCHANGED <<deal, origin, heir, mixed>>

(* Row r is deleted; its contacts, if it is a company, go to t as far as they
   are moved, and the foreign key clears the others. *)
Deleted(r, t, moved) ==
  rec' = [q \in Records |->
    IF q = r THEN Gone ELSE IF ~Live(q) THEN rec[q]
    ELSE [rec[q] EXCEPT !.company = IF @ # r THEN @ ELSE IF q \in moved THEN t ELSE Nil]]

(* ContactsService.remove and CompaniesService.remove detach no deal. *)
Remove(h, ctx, r) ==
  /\ Found(ctx, r)
  /\ Begin(h, Idle)
  /\ Deleted(r, Nil, {})
  /\ UNCHANGED <<deal, origin, heir, mixed, seen, compared>>

(* LeadsRepository.convert: a contact, a deal, and a company if the lead
   names one, in one transaction *)
Convert(h, ctx) ==
  /\ Begin(h, Idle)
  /\ \E r \in {q \in Records : Fresh(q)}, d \in {e \in Deals : FreshDeal(e)} :
     \E s, n \in Subjects \cup {Nil} : \E c \in {IF n = Nil THEN r ELSE r + 1} \cap Records :
       /\ rec' = [q \in Records |->
            IF q = r THEN NewRow("contact", ctx, s, IF n = Nil THEN Nil ELSE c)
            ELSE IF q = c THEN NewRow("company", ctx, n, Nil) ELSE rec[q]]
       /\ deal' = [deal EXCEPT ![d] =
            [tenant |-> ctx, contact |-> r, company |-> IF n = Nil THEN Nil ELSE c]]
       /\ origin' = [origin EXCEPT ![d] = deal'[d]]
  /\ UNCHANGED <<heir, mixed, seen, compared>>

-----------------------------------------------------------------------------
(* DataService.importContacts and importCompanies: row after row is looked
   up, by email or by name, and created if there is none like it. *)

Exists(ctx, k, s) == \E r \in OfKind(k) : Found(ctx, r) /\ s # Nil /\ rec[r].subject = s

Importing(k, ctx, rest) ==
  IF rest = <<>> THEN Idle ELSE [op |-> "import", kind |-> k, tenant |-> ctx, rest |-> rest]

StartImport(h, ctx, k) ==
  /\ \E n \in 1..MaxImport : \E file \in [1..n -> Subjects \cup {Nil}] :
       /\ k = "company" => \A i \in 1..n : file[i] # Nil
       /\ Begin(h, Importing(k, ctx, file))
  /\ UNCHANGED <<rec, deal, origin, heir, mixed, seen, compared>>

ImportLooksUp(h) ==
  LET q == req[h]  s == Head(q.rest) IN
  /\ q.op = "import"
  /\ req' = [req EXCEPT ![h] =
       IF Exists(q.tenant, q.kind, s) THEN Importing(q.kind, q.tenant, Tail(q.rest))
       ELSE [op |-> "importRow", kind |-> q.kind, tenant |-> q.tenant, rest |-> q.rest]]
  /\ seen' = [seen EXCEPT ![h] =
       IF req'[h].op = "importRow" THEN {r \in OfKind(q.kind) : Found(q.tenant, r)} ELSE {}]
  /\ UNCHANGED <<rec, deal, requests, origin, heir, mixed, compared>>

ImportCreates(h) ==
  LET q == req[h]  s == Head(q.rest) IN
  /\ q.op = "importRow"
  /\ \E r \in Records :
       /\ Fresh(r)
       /\ rec' = [rec EXCEPT ![r] = NewRow(q.kind, q.tenant, s, Nil)]
       /\ compared' = [compared EXCEPT ![r] = seen[h]]
  /\ seen' = [seen EXCEPT ![h] = {}]
  /\ req' = [req EXCEPT ![h] = Importing(q.kind, q.tenant, Tail(q.rest))]
  /\ UNCHANGED <<deal, requests, origin, heir, mixed>>

-----------------------------------------------------------------------------
(* DataService.merge and GdprService.eraseContact: both rows, or the one, are
   looked up first; one transaction then moves or detaches the references
   that the tenant of the request sees and deletes the row. *)

StartMerge(h, ctx, s, t) ==
  /\ s # t /\ Found(ctx, s) /\ Found(ctx, t) /\ rec[s].kind = rec[t].kind
  /\ Begin(h, [op |-> "merge", tenant |-> ctx, kind |-> rec[s].kind, source |-> s, target |-> t])
  /\ UNCHANGED <<rec, deal, origin, heir, mixed, seen, compared>>

StartErase(h, ctx, r) ==
  /\ Found(ctx, r) /\ rec[r].kind = "contact"
  /\ Begin(h, [op |-> "erase", tenant |-> ctx, id |-> r])
  /\ UNCHANGED <<rec, deal, origin, heir, mixed, seen, compared>>

MovedTo(l, s, t) == IF l = s THEN t ELSE l         \* updateMany on one column

DealsMoved(ctx, k, s, t) ==
  [d \in Deals |->
    IF deal[d] = Nil \/ ~Sees(ctx, deal[d]) THEN deal[d]
    ELSE IF k = "contact" THEN [deal[d] EXCEPT !.contact = MovedTo(@, s, t)]
    ELSE [deal[d] EXCEPT !.company = MovedTo(@, s, t)]]

ContactsMoved(ctx, k, s) ==
  {r \in OfKind("contact") : k = "company" /\ Found(ctx, r) /\ rec[r].company = s}

Inherits(s, t) == heir' = [r \in Records |-> IF heir[r] = s THEN t ELSE heir[r]]

Merge(h) ==
  LET q == req[h]  s == q.source  t == q.target IN
  /\ q.op = "merge" /\ Found(q.tenant, s)
  /\ ContactsMoved(q.tenant, q.kind, s) # {} => Live(t)
  /\ deal' = DealsMoved(q.tenant, q.kind, s, t)
  /\ Deleted(s, t, ContactsMoved(q.tenant, q.kind, s))
  /\ Inherits(s, t)
  /\ mixed' = IF s \in mixed \/ (Live(t) /\ rec[t].tenant # rec[s].tenant)
              THEN mixed \cup {t} ELSE mixed
  /\ Done(h)
  /\ UNCHANGED <<origin, seen, compared>>

Erase(h) ==
  LET q == req[h] IN
  /\ q.op = "erase" /\ Found(q.tenant, q.id)
  /\ deal' = DealsMoved(q.tenant, "contact", q.id, Nil)
  /\ Deleted(q.id, Nil, {})
  /\ Inherits(q.id, Nil)
  /\ Done(h)
  /\ UNCHANGED <<origin, mixed, seen, compared>>

(* The request ends in an error; an import keeps the rows it has created. *)
Fails(h) ==
  /\ req[h] # Idle
  /\ Done(h)
  /\ seen' = [seen EXCEPT ![h] = {}]
  /\ UNCHANGED <<rec, deal, origin, heir, mixed, compared>>

-----------------------------------------------------------------------------
DInit ==
  /\ rec  = [r \in Records |-> IF r \in DOMAIN InitialRecords THEN InitialRecords[r] ELSE Nil]
  /\ deal = [d \in Deals |-> IF d \in DOMAIN InitialDeals THEN InitialDeals[d] ELSE Nil]
  /\ req  = [h \in Handlers |-> Idle]
  /\ requests = 0
  /\ origin  = deal
  /\ heir    = [r \in Records |-> r]
  /\ mixed   = {}
  /\ seen     = [h \in Handlers |-> {}]
  /\ compared = [r \in Records |-> {}]

StartOn(h, ctx) ==
  /\ req[h] = Idle /\ requests < MaxRequests
  /\ \/ \E k \in Kind : StartCreate(h, ctx, k) \/ StartImport(h, ctx, k)
     \/ \E r \in Records : StartUpdate(h, ctx, r) \/ Remove(h, ctx, r) \/ StartErase(h, ctx, r)
     \/ \E s, t \in Records : StartMerge(h, ctx, s, t)
     \/ Convert(h, ctx)

Step(h) ==
  \/ Create(h) \/ Update(h)
  \/ ImportLooksUp(h) \/ ImportCreates(h)
  \/ Merge(h) \/ Erase(h)
  \/ Fails(h)

DNext == \E h \in Handlers : (\E ctx \in Contexts : StartOn(h, ctx)) \/ Step(h)

-----------------------------------------------------------------------------
(* Every row has its type; a contact points to a company that exists. *)
DTypeOK ==
  /\ rec  \in [Records -> Record \cup {Nil, Gone}]
  /\ deal \in [Deals -> Deal \cup {Nil}] /\ origin \in [Deals -> Deal \cup {Nil}]
  /\ \A r \in Records : Live(r) /\ rec[r].company # Nil => Live(rec[r].company)
  /\ requests \in 0..MaxRequests
  /\ heir \in [Records -> Records \cup {Nil}]
  /\ mixed \subseteq Records
  /\ seen \in [Handlers -> SUBSET Records] /\ compared \in [Records -> SUBSET Records]

(* "the source record's deals are moved to the target", "deal links are
   detached": after any chain of merges and erasures a deal points to where
   its contact and its company went, however the requests overlapped, unless
   it points to a record into which another tenant's was merged. *)
Follows(now, first) == first = Nil \/ now \in mixed \/ now = heir[first]

DealsFollow ==
  \A d \in Deals : deal[d] # Nil =>
    /\ Follows(deal[d].contact, origin[d].contact)
    /\ Follows(deal[d].company, origin[d].company)

(* "dedup": a row that an import created does not have the email or name of
   any row of its tenant that was there when the import looked, whoever wrote
   that row, whatever was imported, written and deleted beside it, as long as
   neither of the two is given another one by hand. *)
ImportAddsNoDuplicate ==
  \A q \in Records : \A r \in compared[q] :
    /\ Live(r) /\ Live(q)
    /\ rec[r].kind = rec[q].kind /\ rec[r].tenant = rec[q].tenant
    => rec[r].subject = Nil \/ rec[r].subject # rec[q].subject
=============================================================================
