------------------------------- MODULE Leads --------------------------------
(***************************************************************************)
(* Leads and their intake (modules/leads, modules/lead-forms): leads typed *)
(* in by a user or sent through a form, their status, and the conversion   *)
(* of a lead into a contact, a company and a deal.                         *)
(*                                                                         *)
(* convert runs in one transaction, but at READ COMMITTED and without a    *)
(* lock: what its first query read may be out of date when it writes.  An  *)
(* intake is not one transaction: the lead is inserted, and then the       *)
(* counter of its form is incremented.                                     *)
(***************************************************************************)
EXTENDS Integers, FiniteSets

CONSTANTS
  Handlers,        \* requests in flight at the same time
  LeadIds,         \* numbers standing for the uuids of leads
  DealIds,         \* the same for the deals that conversions create
  Forms,           \* uuids of intake forms
  Nil,             \* null, and a row not created yet
  Gone,            \* a row that was deleted
  MaxContended     \* bound: leads on which a conversion overlaps

ASSUME IdsAssumption   == LeadIds \subseteq Nat /\ DealIds \subseteq Nat
ASSUME NilAssumption   == Nil # Gone /\ {Nil, Gone} \cap (LeadIds \cup DealIds \cup Forms) = {}
ASSUME BoundAssumption == MaxContended \in Nat

VARIABLES
  lead,            \* Lead rows by id
  form,            \* LeadForm rows by id
  deal,            \* the lead each deal came from; its contact and company
                   \* are inserted with it
  req,             \* what each handler holds across its awaits
  contended        \* history: leads with a conversion beside another write

rows == <<lead, form, deal>>
vars == <<rows, req, contended>>

(* WORKING stands for QUALIFIED and UNQUALIFIED too: no code tells them apart. *)
LeadStatus  == {"NEW", "WORKING", "CONVERTED"}
LeadChannel == {"MANUAL", "FORM", "WEBHOOK"}

Lead == [status : LeadStatus, channel : LeadChannel, form : Forms \cup {Nil},
         deal : DealIds \cup {Nil}]
Form == [active : BOOLEAN, submits : Nat]

ASSUME RowAssumption == {Nil, Gone} \cap (Lead \cup Form) = {}   \* a marker is no row

Idle    == [op |-> "idle"]
Request == {Idle}
  \cup [op : {"intake"}, channel : {"FORM", "WEBHOOK"}, form : Forms]
  \cup [op : {"count"}, form : Forms]
  \cup [op : {"update"}, lead : LeadIds, status : LeadStatus \cup {Nil}]
  \cup [op : {"convert"}, lead : LeadIds]

IsRow(r) == r \notin {Nil, Gone}

-----------------------------------------------------------------------------
(* Slips the properties below must catch; no action uses them. *)

LinkOnly(d, row)  == [row EXCEPT !.deal = d]            \* status not written
KeepFormId(f)     == lead                               \* no foreign key

-----------------------------------------------------------------------------
Free(h)   == req[h] = Idle
Become(h, r) == req' = [req EXCEPT ![h] = r]

Writers(l) == {h \in Handlers : req[h].op \in {"update", "convert"} /\ req[h].lead = l}

(* A conversion has begun while another write to the lead is on its way, or
   the other way round. *)
Contend(l, op) ==
  contended' = IF \E h \in Writers(l) : "convert" \in {op, req[h].op}
               THEN contended \cup {l} ELSE contended

FreshLead(l) == lead[l] = Nil /\ \A k \in LeadIds : k < l => lead[k] # Nil
FreshDeal(d) == deal[d] = Nil /\ \A e \in DealIds : e < d => deal[e] # Nil

(* LeadsService.create *)
Create ==
  /\ \E l \in LeadIds :
       /\ FreshLead(l)
       /\ lead' = [lead EXCEPT ![l] =
                     [status |-> "NEW", channel |-> "MANUAL", form |-> Nil, deal |-> Nil]]
  /\ UNCHANGED <<form, deal, req, contended>>

(* remove: what findOne sees does not matter, a lead that is gone is not
   deleted again. *)
Remove(l) ==
  /\ IsRow(lead[l])
  /\ lead' = [lead EXCEPT ![l] = Gone]
  /\ UNCHANGED <<form, deal, req, contended>>

Unconverted(l) == IsRow(lead[l]) /\ lead[l].status # "CONVERTED"

(* update; the dto may leave the status out *)
DecideUpdate(h, l) ==
  /\ Free(h) /\ Unconverted(l)
  /\ \E s \in (LeadStatus \ {"CONVERTED"}) \cup {Nil} :
       Become(h, [op |-> "update", lead |-> l, status |-> s])
  /\ Contend(l, "update")
  /\ UNCHANGED rows

UpdateLead(h) ==
  LET l == req[h].lead IN
  /\ req[h].op = "update" /\ IsRow(lead[l])
  /\ lead' = IF req[h].status = Nil THEN lead
             ELSE [lead EXCEPT ![l].status = req[h].status]
  /\ Become(h, Idle)
  /\ UNCHANGED <<form, deal, contended>>

(* convert, up to its first query *)
DecideConvert(h, l) ==
  /\ Free(h) /\ Unconverted(l)
  /\ Become(h, [op |-> "convert", lead |-> l])
  /\ Contend(l, "convert")
  /\ UNCHANGED rows

Convert(d, row) == [row EXCEPT !.status = "CONVERTED", !.deal = d]

(* its writes, that take effect together; a lead deleted meanwhile is an
   error that rolls all of them back *)
ConvertLead(h) ==
  LET l == req[h].lead IN
  /\ req[h].op = "convert" /\ IsRow(lead[l])
  /\ \E d \in DealIds :
       /\ FreshDeal(d)
       /\ deal' = [deal EXCEPT ![d] = l]
       /\ lead' = [lead EXCEPT ![l] = Convert(d, @)]
  /\ Become(h, Idle)
  /\ UNCHANGED <<form, contended>>

-----------------------------------------------------------------------------
(* LeadFormsService *)

CreateForm(f) ==
  /\ form[f] = Nil
  /\ form' = [form EXCEPT ![f] = [active |-> TRUE, submits |-> 0]]
  /\ UNCHANGED <<lead, deal, req, contended>>

UpdateForm(f) ==                      \* isActive, the only field read below
  /\ IsRow(form[f])
  /\ form' = [form EXCEPT ![f].active = ~@]
  /\ UNCHANGED <<lead, deal, req, contended>>

Unlink(f) == [l \in LeadIds |-> IF IsRow(lead[l]) /\ lead[l].form = f
                                THEN [lead[l] EXCEPT !.form = Nil] ELSE lead[l]]

RemoveForm(f) ==                      \* onDelete: SetNull
  /\ IsRow(form[f])
  /\ form' = [form EXCEPT ![f] = Gone]
  /\ lead' = Unlink(f)
  /\ UNCHANGED <<deal, req, contended>>

Receive(h, f, channel) ==
  /\ Free(h) /\ IsRow(form[f])
  /\ Become(h, [op |-> "intake", channel |-> channel, form |-> f])
  /\ UNCHANGED <<rows, contended>>

Submit(h, f) == IsRow(form[f]) /\ form[f].active /\ Receive(h, f, "FORM")

(* The signature is verified; whether the form is active is not. *)
IngestWebhook(h, f) == Receive(h, f, "WEBHOOK")

CreateFromIntake(h) ==                \* connects the form, if it is there
  LET f == req[h].form IN
  /\ req[h].op = "intake" /\ IsRow(form[f])
  /\ \E l \in LeadIds :
       /\ FreshLead(l)
       /\ lead' = [lead EXCEPT ![l] = [status |-> "NEW", channel |-> req[h].channel,
                                       form |-> f, deal |-> Nil]]
  /\ Become(h, [op |-> "count", form |-> f])
  /\ UNCHANGED <<form, deal, contended>>

Increment(h) == form[req[h].form].submits + 1

IncrementSubmit(h) ==
  LET f == req[h].form IN
  /\ req[h].op = "count" /\ IsRow(form[f])
  /\ form' = [form EXCEPT ![f].submits = Increment(h)]
  /\ Become(h, Idle)
  /\ UNCHANGED <<lead, deal, contended>>

(* The next statement of the handler fails, for any reason, or the process
   ends; what was committed before stays. *)
Fails(h) ==
  /\ ~Free(h)
  /\ Become(h, Idle)
  /\ UNCHANGED <<rows, contended>>

-----------------------------------------------------------------------------
Init ==
  /\ lead      = [l \in LeadIds |-> Nil]
  /\ form      = [f \in Forms |-> Nil]
  /\ deal      = [d \in DealIds |-> Nil]
  /\ req       = [h \in Handlers |-> Idle]
  /\ contended = {}

Next ==
  \/ Create
  \/ \E f \in Forms : CreateForm(f) \/ UpdateForm(f) \/ RemoveForm(f)
  \/ \E l \in LeadIds : Remove(l)
  \/ \E h \in Handlers :
       \/ \E l \in LeadIds : DecideUpdate(h, l) \/ DecideConvert(h, l)
       \/ \E f \in Forms : Submit(h, f) \/ IngestWebhook(h, f)
       \/ UpdateLead(h) \/ ConvertLead(h)
       \/ CreateFromIntake(h) \/ IncrementSubmit(h)
       \/ Fails(h)

Bounded == Cardinality(contended') <= MaxContended

Spec == Init /\ [][Next /\ Bounded]_vars

-----------------------------------------------------------------------------
(* Every row has its type, and a lead that names a form names one that is
   there, however forms are removed under running submissions. *)
TypeOK ==
  /\ lead \in [LeadIds -> Lead \cup {Nil, Gone}]
  /\ form \in [Forms -> Form \cup {Nil, Gone}]
  /\ deal \in [DealIds -> LeadIds \cup {Nil}]
  /\ req  \in [Handlers -> Request]
  /\ contended \subseteq LeadIds
  /\ \A l \in LeadIds : IsRow(lead[l]) /\ lead[l].form # Nil => IsRow(form[lead[l].form])

DealsOf(l) == {d \in DealIds : deal[d] = l}

(* "CONVERTED is set only by the convert flow", and a converted lead is not
   converted again (409): a lead has the deal it names; where no conversion
   overlaps another write, it is CONVERTED exactly when it has a deal, and
   has no second one, even after the lead is deleted. *)
ConvertedOnce ==
  \A l \in LeadIds :
    /\ IsRow(lead[l]) =>
         /\ lead[l].deal = Nil <=> DealsOf(l) = {}
         /\ lead[l].deal # Nil => deal[lead[l].deal] = l
         /\ lead[l].status = "CONVERTED" => lead[l].deal # Nil
    /\ l \notin contended =>
         /\ Cardinality(DealsOf(l)) <= 1
         /\ IsRow(lead[l]) /\ lead[l].deal # Nil => lead[l].status = "CONVERTED"

=============================================================================
