------------------------------- MODULE Client -------------------------------
(***************************************************************************)
(* One browser tab that is signed in, against the API: what its user sees, *)
(* is offered and gets, while the token expires, requests get lost, others *)
(* write the same rows and an administrator edits the user's role.         *)
(*                                                                         *)
(* The tab keeps the permissions it loaded (auth.tsx), a cache of the page *)
(* it is on (react-query, as src/lib/providers.tsx configures it: no retry,*)
(* asked again at every visit) and the saves it waits for.  The page has   *)
(* one row, of which the tab knows what the last answer said.              *)
(*                                                                         *)
(* What other components have too has a name of its own here (TabInit,     *)
(* tabVars, Nothing), so that a module can extend Client and them.         *)
(***************************************************************************)
EXTENDS Screens, Sequences, Naturals

CONSTANTS Roles,      \* the roles that sign in
          MaxSaves,   \* saves in flight at a time, and one less after an edit
          MaxEdits,   \* edits of the role in one session
          Nothing     \* no user, no list, no request, no save

ASSUME ClientAssumption ==
  /\ Roles \subseteq DOMAIN RolePermissions
  /\ MaxSaves \in Nat \ {0} /\ MaxEdits \in Nat

(* A save in flight: a button, its calls so far, the answer to the last *)
Save == [button : UNION {Pages[p].buttons : p \in DOMAIN Pages}, call : Nat,
         fair : BOOLEAN, phase : {"sent", "ok", "no"}]

ASSUME NothingAssumption ==
  /\ Nothing \notin Save
  /\ Nothing \notin {"asked", "refused"} \cup UNION {StatusesOf[name] : name \in DOMAIN Controllers}

VARIABLES
  role, granted, edits,  \* in the database: the user's role, its permissions, their edits
  token,                 \* in localStorage: "none" or "kept"
  user,                  \* AuthProvider: the permissions as loaded
  page,                  \* the page the tab is on
  row,                   \* in the database: the status of the page's row
  list,                  \* the status that the page shows
  fetch,                 \* the request for the list, or its answer on the way
  saves,                 \* the saves in flight
  behind,                \* history: nothing tells the tab that the list is old
  surprise               \* history: a refusal that the tab could have foreseen

session == <<role, granted, edits, token, user>>
tabVars == <<session, page, row, list, fetch, saves, behind, surprise>>

Slots  == 1..MaxSaves
NoSave == [i \in Slots |-> Nothing]
Service == Pages[page].service

Settled == fetch = Nothing /\ saves = NoSave

(* A save is fair while the tab is right about everything: it has the
   permissions of the database, they lead to the page, the row is as shown,
   no other save is on the way. *)
Unfair(S) == [i \in Slots |-> IF S[i] = Nothing THEN Nothing ELSE [S[i] EXCEPT !.fair = FALSE]]

-----------------------------------------------------------------------------
(* Slips the properties below must catch; no action uses them. *)

FetchKept ==                                       \* no cancelRefetch
  fetch' = IF fetch = Nothing THEN "asked" ELSE fetch
TokenDropped == token' = "none" /\ user' = user    \* no setUser(null)

-----------------------------------------------------------------------------
(* DashboardTemplate: without a user there is only the login page, and what
   the tab had is gone. *)
Blank(p, s) ==
  /\ page' = p /\ row' = s
  /\ list' = Nothing /\ fetch' = Nothing /\ saves' = NoSave /\ behind' = FALSE /\ surprise' = Nothing

Forget == Blank("login", "none")

(* staleTime: the branding, which every page shows, is not asked for again
   within a minute. *)
YoungEnough(p) == IF p = "branding" THEN {Nothing} ELSE {}

(* The page is rendered: the list from the cache if there is one, and a
   request for it.  A save left behind on the page before is not followed. *)
Open(p, perms) ==
  /\ page' = p
  /\ row' \in StatusesOf[Pages[p].service]
  /\ list' \in StatusesOf[Pages[p].service] \cup {Nothing}
  /\ fetch' \in IF Pages[p].main.shown \subseteq perms THEN {"asked"} \cup YoungEnough(p) ELSE {Nothing}
  /\ behind' = (fetch' = Nothing)
  /\ saves' = NoSave /\ surprise' = Nothing

(* LoginForm: the token, then the user, then the home page *)
SignIn(r) ==
  /\ page = "login"
  /\ role' = r /\ granted' = RolePermissions[r] /\ edits' = 0
  /\ token' = "kept" /\ user' = granted'
  /\ Open("home", user')

(* Open forgets the page before, so nothing is lost when the tab only leaves
   a page that is settled; an edit of the role matters on the pages that look
   at the permission. *)
Edited == (granted \cup RolePermissions[role]) \ (granted \cap RolePermissions[role])

Visit(p) ==
  /\ page # "login" /\ user # Nothing
  /\ Settled /\ ~behind /\ list = row
  /\ p # page /\ Reachable(p, user)
  /\ Edited \subseteq Relevant[p]
  /\ UNCHANGED session
  /\ Open(p, user)

Reload ==
  /\ page # "login" /\ user # Nothing
  /\ user' = Nothing /\ UNCHANGED <<role, granted, edits, token>>
  /\ Blank(page, row)

(* loadMe: who asks is told the permissions of the database. *)
LoadMe ==
  /\ page # "login" /\ user = Nothing /\ token = "kept"
  /\ user' = granted /\ UNCHANGED <<role, granted, edits, token>>
  /\ Open(page, user')

(* Any failure leaves no user; only the answer 401, to a token that has
   expired, takes the token. *)
LoadMeFails ==
  /\ page # "login" /\ user = Nothing
  /\ token' \in {"none", token}
  /\ UNCHANGED <<role, granted, edits, user>>
  /\ Forget

SessionDropped == token' = "none" /\ user' = Nothing

SignOut ==
  /\ page # "login" /\ user # Nothing
  /\ SessionDropped /\ UNCHANGED <<role, granted, edits>>
  /\ Forget

(* The interceptor.  The tab does not know when its token expires: the first
   request after that is answered 401, which sends it to the login page. *)
Rejected ==
  /\ page # "login" /\ user # Nothing
  /\ fetch = "asked" \/ \E i \in Slots : saves[i] # Nothing /\ saves[i].phase = "sent"
  /\ SessionDropped /\ UNCHANGED <<role, granted, edits>>
  /\ Forget

-----------------------------------------------------------------------------
(* The list *)

ReadServed ==
  /\ fetch = "asked"
  /\ IF CanActivate(Needs(Pages[page].main.call), granted)
     THEN fetch' = row /\ behind' = FALSE
     ELSE fetch' = "refused" /\ behind' = TRUE
  /\ surprise' = Nothing
  /\ UNCHANGED <<session, page, row, list, saves>>

ReadAnswered ==
  /\ fetch \notin {Nothing, "asked"}
  /\ list' = IF fetch = "refused" THEN list ELSE fetch
  /\ fetch' = Nothing /\ surprise' = Nothing
  /\ UNCHANGED <<session, page, row, saves, behind>>

(* retry: false *)
ReadLost ==
  /\ fetch # Nothing
  /\ fetch' = Nothing /\ behind' = TRUE /\ surprise' = Nothing
  /\ UNCHANGED <<session, page, row, list, saves>>

(* invalidateQueries: what is in flight is dropped and asked anew, unless it
   is the first request for the list: then it has to do. *)
FetchAnew == fetch' = IF fetch # Nothing /\ list = Nothing THEN fetch ELSE "asked"

Reask ==
  /\ FetchAnew
  /\ behind' = (behind \/ (fetch # Nothing /\ fetch # "asked" /\ list = Nothing))

(* refetchInterval of the inbox *)
Poll ==
  /\ page = "whatsapp" /\ user # Nothing /\ fetch = Nothing
  /\ fetch' = "asked" /\ surprise' = Nothing
  /\ UNCHANGED <<session, page, row, list, saves, behind>>

-----------------------------------------------------------------------------
(* Saves: the calls of a button, one after the other *)

Press(i, b) ==
  /\ i + edits <= MaxSaves
  /\ saves[i] = Nothing /\ \A j \in 1..(i - 1) : saves[j] # Nothing
  /\ b.waits => \A j \in Slots : saves[j] # Nothing => saves[j].button # b
  /\ LET fair == user = granted /\ Reachable(page, user) /\ (b.on = {} \/ list = row) /\ saves = NoSave
     IN saves' = [Unfair(saves) EXCEPT ![i] =
                    [button |-> b, call |-> 1, fair |-> fair, phase |-> "sent"]]
  /\ surprise' = Nothing
  /\ UNCHANGED <<session, page, row, list, fetch, behind>>

(* The guard, then the service.  A refusal is the answer of a save that was
   fair: the guard's (the permissions that lack) or the service's (the
   status). *)
SaveServed(i) ==
  /\ saves[i] # Nothing /\ saves[i].phase = "sent"
  /\ LET b     == saves[i].button
         c     == b.calls[saves[i].call]
         lacks == Needs(c) \ granted
         after == IF CanActivate(Needs(c), granted) THEN After(role, Service, c, row) ELSE {}
     IN IF after = {}
        THEN /\ saves' = [saves EXCEPT ![i].phase = "no"]
             /\ surprise' = IF ~saves[i].fair THEN Nothing
                            ELSE [page |-> page, button |-> b.name, lacks |-> lacks, at |-> row]
             /\ UNCHANGED row
        ELSE /\ row' \in after
             /\ saves' = [Unfair(saves) EXCEPT ![i] = [saves[i] EXCEPT !.phase = "ok"]]
             /\ surprise' = Nothing
  /\ UNCHANGED <<session, page, list, fetch, behind>>

(* The next call; after the last, the list again *)
SaveAnswered(i) ==
  /\ saves[i] # Nothing /\ saves[i].phase = "ok"
  /\ LET b == saves[i].button IN
     IF saves[i].call < Len(b.calls)
     THEN /\ saves' = [saves EXCEPT ![i].call = @ + 1, ![i].phase = "sent"]
          /\ UNCHANGED <<fetch, behind>>
     ELSE /\ saves' = [saves EXCEPT ![i] = Nothing]
          /\ IF b.refreshes THEN Reask ELSE UNCHANGED <<fetch, behind>>
  /\ surprise' = Nothing
  /\ UNCHANGED <<session, page, row, list>>

(* Refused, or lost on the way there or back: the tab shows an error and
   leaves the list alone, also when some of the calls were served. *)
SaveFails(i) ==
  /\ saves[i] # Nothing
  /\ saves' = [saves EXCEPT ![i] = Nothing]
  /\ behind' = (behind \/ saves[i].phase = "ok" \/ saves[i].call > 1)
  /\ surprise' = Nothing
  /\ UNCHANGED <<session, page, row, list, fetch>>

-----------------------------------------------------------------------------
(* The others: an administrator at the same row, and at the user's role *)

OthersWrite(h) ==
  /\ user # Nothing /\ ~behind
  /\ row' \in After("ADMIN", Service, <<Service, h>>, row) \ {row}
  /\ behind' = TRUE /\ saves' = Unfair(saves) /\ surprise' = Nothing
  /\ UNCHANGED <<session, page, list, fetch>>

(* RoleModal: a tick set or taken away.  The tab is not told. *)
EditRole(p) ==
  /\ user # Nothing /\ edits < MaxEdits /\ role # "ADMIN"
  /\ saves[MaxSaves] = Nothing
  /\ granted' = IF p \in granted THEN granted \ {p} ELSE granted \cup {p}
  /\ edits' = edits + 1
  /\ saves' = Unfair(saves) /\ surprise' = Nothing
  /\ UNCHANGED <<role, token, user, page, row, list, fetch, behind>>

-----------------------------------------------------------------------------
TabInit ==
  /\ role \in Roles /\ granted = RolePermissions[role] /\ edits = 0
  /\ token = "none" /\ user = Nothing
  /\ page = "login" /\ row = "none" /\ list = Nothing /\ fetch = Nothing /\ saves = NoSave
  /\ behind = FALSE /\ surprise = Nothing

TabNext ==
  \/ \E r \in Roles : SignIn(r)
  \/ \E p \in DOMAIN Pages : Visit(p)
  \/ Reload \/ LoadMe \/ LoadMeFails \/ SignOut \/ Rejected
  \/ ReadServed \/ ReadAnswered \/ ReadLost \/ Poll
  \/ page # "login" /\ user # Nothing /\ \E b \in Offered(page, user, list) : \E i \in Slots : Press(i, b)
  \/ \E i \in Slots : SaveServed(i) \/ SaveAnswered(i) \/ SaveFails(i)
  \/ page # "login" /\ \E h \in DOMAIN ServiceOf("ADMIN", Service) : OthersWrite(h)
  \/ page # "login" /\ \E p \in FormPermissions \cap Relevant[page] : EditRole(p)

TabSpec == TabInit /\ [][TabNext]_tabVars

-----------------------------------------------------------------------------
(* Types.  In particular a tab without a token has no user, and one on the
   login page neither shows nor waits for anything. *)
TabTypeOK ==
  /\ role \in Roles /\ granted \subseteq AllPermissions /\ edits \in 0..MaxEdits
  /\ token \in {"none", "kept"} /\ behind \in BOOLEAN
  /\ user # Nothing => user \subseteq AllPermissions /\ token # "none"
  /\ IF page = "login" THEN row = "none" /\ list = Nothing /\ Settled
     ELSE LET S == StatusesOf[Service] IN
          /\ page \in DOMAIN Pages /\ row \in S
          /\ list \in S \cup {Nothing} /\ fetch \in S \cup {Nothing, "asked", "refused"}
          /\ \A i \in Slots : saves[i] # Nothing =>
               /\ saves[i].button \in Pages[page].buttons
               /\ saves[i].call \in 1..Len(saves[i].button.calls)

(* Where the pages are known to offer what the API refuses.  The guard: the
   card of a deal opens for everyone with its save button (the deals page
   asks for no permission there); a payment takes invoice.read_financial as
   well (the invoices page asks for invoice.update).  The services: the board
   shows the deals of others to a salesman; a converted lead opens to be
   edited; the last administrator can be deleted, made passive and denied his
   role, and the role ADMIN edited and deleted; the only stage, and one with
   deals, has a remove button; the inbox sends without a connection. *)
GuardGaps == {
  <<"deals", "save", "deal.update">>, <<"deals", "saveMoved", "deal.update">>,
  <<"deals", "saveMoved", "deal.move">>, <<"invoices", "payment", "invoice.read_financial">>}
ServiceGaps == {
  <<"deals", "save", "foreign">>, <<"deals", "saveMoved", "foreign">>,
  <<"deals", "move", "foreign">>, <<"deals", "delete", "foreign">>,
  <<"leads", "edit", "CONVERTED">>,
  <<"users", "delete", "last">>, <<"users", "saveStatus", "last">>, <<"users", "saveAll", "last">>,
  <<"users", "saveDemoted", "last">>, <<"users", "saveAllDemoted", "last">>,
  <<"roles", "save", "ADMIN">>, <<"roles", "delete", "ADMIN">>,
  <<"pipeline", "remove", "used">>, <<"pipeline", "remove", "only">>,
  <<"whatsapp", "send", "unconnected">>}

(* Outside these gaps the API refuses nothing that the page offers, for as
   long as the page is right about the row and about the permissions. *)
NoSurprise ==
  surprise # Nothing =>
    IF surprise.lacks = {}
    THEN <<surprise.page, surprise.button, surprise.at>> \in ServiceGaps
    ELSE \A p \in surprise.lacks : <<surprise.page, surprise.button, p>> \in GuardGaps

(* Queries that a page makes though the role may lack the permission: the
   products to choose from, for whoever may write a quote, the roles to
   choose from, for whoever may assign but not read them, and the stages, for
   whoever may convert a lead but not read the pipelines (no role as it is
   installed, but any that was made with the role form, which cannot grant
   that) *)
QueryGaps == {<<"quotes", "products">>, <<"users", "roles">>, <<"leads", "pipelines">>}

(* The inbox links to the connections, also for those whom the sidebar does
   not lead there. *)
LinkGap(p, perms) == Leads(InboxLinks, p, perms) /\ ~Leads(Sidebar, p, perms)

(* Whoever can get to a page, by the sidebar, the search box, the shortcuts or
   the link of the inbox, is allowed everything that the page asks for,
   outside these gaps. *)
MenuLeadsToAnswers ==
  user # Nothing /\ page # "login" /\ user = granted /\ Reachable(page, user) =>
    \A q \in Asked(page, user) :
      \/ CanActivate(Needs(q.call), granted)
      \/ <<page, q.call[1]>> \in QueryGaps \/ LinkGap(page, user)

(* When the tab waits for nothing, it shows the row as it is: no answer that
   was overtaken by the tab's own saves is left on the page.  What others did
   and what got lost it cannot know. *)
ShownIsCurrent ==
  user # Nothing /\ page # "login" /\ Settled /\ ~behind /\ list # Nothing => list = row
=============================================================================
