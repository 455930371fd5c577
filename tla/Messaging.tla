----------------------------- MODULE Messaging -----------------------------
(***************************************************************************)
(* WhatsApp messages in both directions (modules/whatsapp), and the rules  *)
(* that answer an event with notes, mails and messages                     *)
(* (modules/automation, integrations/mail), composed with the Directory:   *)
(* a message is linked to the contact with its phone number, whom requests *)
(* create, merge and delete at the same time.                              *)
(*                                                                         *)
(* The subject of a contact stands for its phone number, which is taken to *)
(* be long enough to be looked up.  Leads are looked up in the same way as *)
(* contacts; of them only this is here, that a caller who names one gets   *)
(* no lookup.  Refusals that write nothing (no connection, bad signature,  *)
(* unreadable body) are left out of the requests and appear as failed      *)
(* actions of rules.                                                       *)
(***************************************************************************)
EXTENDS Directory
Seqs == INSTANCE SequencesExt

CONSTANTS
  Rules,          \* ids of rules
  InitialRules,   \* rules that exist at first
  Triggers,       \* names of events
  ActionLists,    \* what rules can be asked to do: sequences of actions
  Payloads        \* what Meta posts: sequences of messages, [id, phone];
                  \* phone is Nil where the sender is missing

Action == {"create_activity", "send_email", "send_whatsapp", "log"}
Rule   == [tenant : Contexts, trigger : Triggers, active : BOOLEAN,
           equals : Subjects \cup {Nil},      \* Nil: no condition
           actions : Seq(Action)]
Incoming == [id : Nat, phone : Subjects \cup {Nil}]
Message  == [direction : {"IN", "OUT"}, phone : Subjects, tenant : Contexts \cup {Nil},
             of : Nat \cup {Nil}, contact : Records \cup {Nil},
             found : BOOLEAN]  \* history: the service looked the contact up

ASSUME RulesAssumption    == InitialRules \in [Rules -> Rule \cup {Nil}] /\ IsFiniteSet(Rules)
ASSUME ListsAssumption    == ActionLists \subseteq Seq(Action)
ASSUME PayloadsAssumption ==           \* an id is that of one message
  /\ Payloads \subseteq Seq(Incoming)
  /\ \A p, o \in Payloads : \A i \in DOMAIN p, j \in DOMAIN o :
       p[i].id = o[j].id => p = o /\ i = j

VARIABLES
  rule,        \* AutomationRule rows (Nil: none yet, Gone: deleted)
  message,     \* WhatsAppMessage rows, in the order of creation
  activity,    \* notes that rules left, by deal
  mail,        \* EmailLog rows: how many of each status
  delivered,   \* history: deliveries of each payload
  acked,       \* history: payloads that were answered with 200
  finished     \* history: runs of rules that came to their end

msgVars == <<rule, message, activity, mail, delivered, acked, finished>>
vars == <<dirVars, msgVars>>

Held1(h, op) == req[h] # Idle /\ req[h].op = op
Goes(h, r)   == req' = [req EXCEPT ![h] = r] /\ UNCHANGED requests
directoryOnly == <<rec, deal, origin, heir, mixed, seen, compared>>

-----------------------------------------------------------------------------
(* Slips the properties below must catch; no action uses them. *)

AnyNewest(ctx, phone) ==                           \* lookup not confined
  LET found == {r \in OfKind("contact") : rec[r].subject = phone}
  IN IF found = {} THEN Nil ELSE CHOOSE r \in found : \A q \in found : q <= r
StopsAtFailure(todo, ok) == IF ok THEN Tail(todo) ELSE <<>>  \* rejection not caught
StopsAtStatus(rest) == <<>>                        \* break for continue

-----------------------------------------------------------------------------
(* WhatsAppService.resolveLink: what the caller gives, a contact, a lead or
   both, as it is; else the newest contact with that number that the request
   can see. *)

Newest(ctx, phone) ==
  LET found == {r \in OfKind("contact") : Found(ctx, r) /\ rec[r].subject = phone}
  IN IF found = {} THEN Nil ELSE CHOOSE r \in found : \A q \in found : q <= r

Link(ctx, phone, given, named) == IF given THEN named ELSE Newest(ctx, phone)

Out(ctx, phone, given, named) ==
  [direction |-> "OUT", phone |-> phone, tenant |-> ctx,
   contact |-> Link(ctx, phone, given, named), found |-> ~given, of |-> Nil]

(* The id of a contact is taken unread: of any contact, or of none that is left.
   Given and Nil: only a lead is named. *)
StartSend(h, ctx) ==
  /\ \E phone \in Subjects, named \in {r \in Records : rec[r] = Gone} \cup OfKind("contact") \cup {Nil} :
     \E given \in {named # Nil, TRUE} :
       Begin(h, [op |-> "send", tenant |-> ctx, phone |-> phone, given |-> given, named |-> named])
  /\ UNCHANGED <<directoryOnly, msgVars>>

(* The text is posted.  Whatever comes of it, a 2xx, another answer or none
   in 10 s, the link is looked up and a row written; that its status says what
   came of it is left out. *)
Post(h) ==
  LET q == req[h] IN
  /\ Held1(h, "send")
  /\ Goes(h, [op |-> "sent", row |-> Out(q.tenant, q.phone, q.given, q.named)])
  /\ UNCHANGED <<directoryOnly, msgVars>>

Store(h) ==
  /\ Held1(h, "sent")
  /\ message' = Append(message, req[h].row)
  /\ Done(h)
  /\ UNCHANGED <<directoryOnly, rule, activity, mail, delivered, acked, finished>>

-----------------------------------------------------------------------------
(* WhatsAppService.handleInbound: message after message is linked, without a
   tenant, and stored; the answer comes after the last one.  A payload that
   was not answered, or whose answer was late, is delivered again. *)

Deliver(h, p) ==
  /\ Begin(h, [op |-> "inbound", payload |-> p, rest |-> p])
  /\ delivered' = [delivered EXCEPT ![p] = @ + 1]
  /\ UNCHANGED <<directoryOnly, rule, message, activity, mail, acked, finished>>

SkipSenderless(rest) == Tail(rest)

InboundLinks(h) ==
  LET q == req[h]  m == Head(q.rest) IN
  /\ Held1(h, "inbound") /\ q.rest # <<>>
  /\ Goes(h, IF m.phone = Nil THEN [q EXCEPT !.rest = SkipSenderless(@)]
             ELSE [op |-> "inboundRow", payload |-> q.payload, rest |-> Tail(q.rest),
                   row |-> [direction |-> "IN", phone |-> m.phone, tenant |-> Nil,
                            contact |-> Newest(Nil, m.phone), found |-> TRUE,
                            of |-> m.id]])
  /\ UNCHANGED <<directoryOnly, msgVars>>

InboundStores(h) ==
  LET q == req[h] IN
  /\ Held1(h, "inboundRow")
  /\ message' = Append(message, q.row)
  /\ Goes(h, [op |-> "inbound", payload |-> q.payload, rest |-> q.rest])
  /\ UNCHANGED <<directoryOnly, rule, activity, mail, delivered, acked, finished>>

Acknowledge(h) ==
  /\ Held1(h, "inbound") /\ req[h].rest = <<>>
  /\ acked' = acked \cup {req[h].payload}
  /\ Done(h)
  /\ UNCHANGED <<directoryOnly, rule, message, activity, mail, delivered, finished>>

-----------------------------------------------------------------------------
(* AutomationService: rules are created, changed and removed. *)

CreateRule(h, ctx, r) ==
  /\ rule[r] = Nil
  /\ \E t \in Triggers, c \in Subjects \cup {Nil}, a \in ActionLists :
       rule' = [rule EXCEPT ![r] = [tenant |-> ctx, trigger |-> t, active |-> TRUE,
                                    equals |-> c, actions |-> a]]
  /\ Begin(h, Idle)
  /\ UNCHANGED <<directoryOnly, message, activity, mail, delivered, acked, finished>>

RuleSeen(ctx, r) == rule[r] \notin {Nil, Gone} /\ Sees(ctx, rule[r])

UpdateRule(h, ctx, r) ==
  /\ RuleSeen(ctx, r)
  /\ \E on \in BOOLEAN, c \in {rule[r].equals} \cup Subjects, a \in ActionLists :
       rule' = [rule EXCEPT ![r].active = on, ![r].equals = c, ![r].actions = a]
  /\ Begin(h, Idle)
  /\ UNCHANGED <<directoryOnly, message, activity, mail, delivered, acked, finished>>

RemoveRule(h, ctx, r) ==
  /\ RuleSeen(ctx, r)
  /\ rule' = [rule EXCEPT ![r] = Gone]
  /\ Begin(h, Idle)
  /\ UNCHANGED <<directoryOnly, message, activity, mail, delivered, acked, finished>>

-----------------------------------------------------------------------------
(* AutomationEngine: a service has emitted an event, of a lead, which may
   have a phone number, of a deal or of neither; the rules that are active
   when the engine asks are run, in no particular order. *)

Event(h, ctx) ==
  /\ \E t \in Triggers, s \in Subjects \cup {Nil}, d \in {e \in Deals : deal[e] # Nil} \cup {Nil} :
     \E lead \in IF s # Nil THEN {TRUE} ELSE BOOLEAN :
       /\ lead => d = Nil
       /\ Begin(h, [op |-> "event", tenant |-> ctx, trigger |-> t, lead |-> lead,
                    subject |-> s, deal |-> d])
  /\ UNCHANGED <<directoryOnly, msgVars>>

EvaluateConditions(equals, subject) == equals = Nil \/ equals = subject

Matching(q) ==
  {r \in Rules : /\ RuleSeen(q.tenant, r) /\ rule[r].active /\ rule[r].trigger = q.trigger
                 /\ EvaluateConditions(rule[r].equals, q.subject)}

RunReads(h) ==
  LET q == req[h] IN
  /\ Held1(h, "event")
  /\ \E order \in Seqs!SetToSeqs(Matching(q)) :
       Goes(h, [op |-> "run", event |-> q, done |-> <<>>,
                asked |-> [r \in {x \in Rules : RuleSeen(q.tenant, x)} |-> rule[r]],
                todo |-> Seqs!FlattenSeq([i \in DOMAIN order |-> rule[order[i]].actions])])
  /\ UNCHANGED <<directoryOnly, msgVars>>

Remaining(todo, ok) == Tail(todo)                  \* failures are caught

Performed(q, ok) ==
  [q EXCEPT !.todo = Remaining(@, ok), !.done = Append(@, Head(q.todo))]

Now(h, a) == Held1(h, "run") /\ req[h].todo # <<>> /\ Head(req[h].todo) = a

CreateActivity(h) ==
  LET q == req[h] IN
  /\ Now(h, "create_activity")
  /\ \E ok \in BOOLEAN :
       /\ ok \/ q.event.deal # Nil
       /\ activity' = [d \in Deals |-> activity[d] + (IF ok /\ d = q.event.deal THEN 1 ELSE 0)]
       /\ Goes(h, Performed(q, ok))
  /\ UNCHANGED <<directoryOnly, rule, message, mail, delivered, acked, finished>>

(* MailService.send: a refused mail is logged as FAILED and thrown; so is one
   that was sent and whose log row could not be written.  Without an address
   or a template nothing happens; an address of two lines fails at once. *)
SendEmail(h) ==
  /\ Now(h, "send_email")
  /\ \/ \E status \in {"SENT", "FAILED"} :
          /\ mail' = [mail EXCEPT ![status] = @ + 1]
          /\ Goes(h, Performed(req[h], status = "SENT"))
     \/ \E ok \in BOOLEAN : Goes(h, Performed(req[h], ok)) /\ UNCHANGED mail
  /\ UNCHANGED <<directoryOnly, rule, message, activity, delivered, acked, finished>>

(* The text goes to the number that the action names, else to that of the
   lead, which the event gives as the link; with neither, or without a text,
   nothing is sent, and without a connection the action fails. *)
RunPosts(h) ==
  LET q == req[h] IN
  /\ Now(h, "send_whatsapp")
  /\ \/ \E ok \in BOOLEAN : Goes(h, Performed(q, ok))
     \/ \E to \in Subjects :
          Goes(h, [op |-> "runRow", run |-> q,
                   row |-> Out(q.event.tenant, to, q.event.lead, Nil)])
  /\ UNCHANGED <<directoryOnly, msgVars>>

RunStores(h) ==
  /\ Held1(h, "runRow")
  /\ \E ok \in BOOLEAN :
       /\ message' = IF ok THEN Append(message, req[h].row) ELSE message
       /\ Goes(h, Performed(req[h].run, ok))
  /\ UNCHANGED <<directoryOnly, rule, activity, mail, delivered, acked, finished>>

LogOnly(h) ==
  /\ Now(h, "log")
  /\ Goes(h, Performed(req[h], TRUE))
  /\ UNCHANGED <<directoryOnly, msgVars>>

RunEnds(h) ==
  LET q == req[h] IN
  /\ Held1(h, "run") /\ q.todo = <<>>
  /\ finished' = finished \cup {[event |-> q.event, asked |-> q.asked, done |-> q.done]}
  /\ Done(h)
  /\ UNCHANGED <<directoryOnly, rule, message, activity, mail, delivered, acked>>

-----------------------------------------------------------------------------
Init ==
  /\ DInit
  /\ rule = InitialRules
  /\ message = <<>>
  /\ activity = [d \in Deals |-> 0]
  /\ mail = [s \in {"SENT", "FAILED"} |-> 0]
  /\ delivered = [p \in Payloads |-> 0]
  /\ acked = {}
  /\ finished = {}

Messages(h, ctx) ==
  /\ req[h] = Idle /\ requests < MaxRequests
  /\ \/ StartSend(h, ctx)
     \/ Event(h, ctx)
     \/ \E r \in Rules : CreateRule(h, ctx, r) \/ UpdateRule(h, ctx, r) \/ RemoveRule(h, ctx, r)

Works(h) ==
  \/ Post(h) \/ Store(h)
  \/ InboundLinks(h) \/ InboundStores(h) \/ Acknowledge(h)
  \/ RunReads(h) \/ CreateActivity(h) \/ SendEmail(h)
  \/ RunPosts(h) \/ RunStores(h) \/ LogOnly(h) \/ RunEnds(h)

Next ==
  \/ DNext /\ UNCHANGED msgVars
  \/ \E h \in Handlers :
       \/ \E ctx \in Contexts : Messages(h, ctx)
       \/ \E p \in Payloads : Deliver(h, p)
       \/ Works(h)

Spec == Init /\ [][Next]_vars

-----------------------------------------------------------------------------
(* Every row has its type, and its tenant is one of them or none. *)
TypeOK ==
  /\ DTypeOK
  /\ rule \in [Rules -> Rule \cup {Nil, Gone}]
  /\ message \in Seq(Message)
  /\ activity \in [Deals -> Nat] /\ mail \in [{"SENT", "FAILED"} -> Nat]
  /\ delivered \in [Payloads -> 0..MaxRequests] /\ acked \subseteq Payloads

(* resolveLink looks up within the tenant of the sender: the contact that it
   found for a message is never one of another tenant, although contacts are
   written, merged and erased between the lookup and the write and after it.
   A contact that the caller gave is not looked at. *)
LinksStayInTenant ==
  \A i \in DOMAIN message :
    LET m == message[i] IN
    m.found /\ m.tenant # Nil /\ m.contact # Nil /\ Live(m.contact)
      => rec[m.contact].tenant = m.tenant

(* Meta repeats what is not answered with 200: every message of a payload that
   was answered is stored, and never more often than it was delivered, also
   if a delivery failed halfway or two deliveries overlapped. *)
RowsOf(id) == {i \in DOMAIN message : message[i].of = id}

AckedIsStored ==
  \A p \in Payloads : \A i \in DOMAIN p :
    p[i].phone # Nil =>
      /\ p \in acked => RowsOf(p[i].id) # {}
      /\ Cardinality(RowsOf(p[i].id)) <= delivered[p]

(* "executes the matching rules": a run that ends has performed every action
   of every rule that was active and matched when it began, in the order of
   the rule, and nothing else, whatever failed and whoever changed the rules
   meanwhile. *)
Wanted(f) ==
  {r \in DOMAIN f.asked : /\ f.asked[r].active /\ f.asked[r].trigger = f.event.trigger
                          /\ f.asked[r].equals \in {Nil, f.event.subject}}

NoActionSkipped ==
  \A f \in finished :
    \E order \in Seqs!SetToSeqs(Wanted(f)) :
      f.done = Seqs!FlattenSeq([i \in DOMAIN order |-> f.asked[order[i]].actions])
=============================================================================
