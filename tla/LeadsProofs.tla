---------------------------- MODULE LeadsProofs -----------------------------
(***************************************************************************)
(* What holds of Leads for every number of requests, leads, deals, forms,  *)
(* and of the board, where a conversion puts its deal.                     *)
(***************************************************************************)
EXTENDS Leads, Kanban, FiniteSetTheorems, TLAPS

(* No update is about to write CONVERTED. *)
OnlyConvertConverts ==
  \A h \in Handlers : req[h].op = "update" =>
    req[h].status \in (LeadStatus \ {"CONVERTED"}) \cup {Nil}

Typed == TypeOK /\ OnlyConvertConverts

(* The operation of a request fixes which fields it has. *)
LEMMA RequestShape ==
  ASSUME NEW r \in Request
  PROVE  /\ r.op \in {"intake", "count"} => r.form \in Forms
         /\ r.op = "intake" => r.channel \in {"FORM", "WEBHOOK"}
         /\ r.op \in {"update", "convert"} => r.lead \in LeadIds
         /\ r.op = "update" => r.status \in LeadStatus \cup {Nil}
  BY DEF Request, Idle

LEMMA IdleIsRequest == Idle \in Request /\ Idle.op = "idle"
  BY DEF Request, Idle

LEMMA LeadShape ==
  ASSUME NEW r \in Lead
  PROVE  /\ r.status \in LeadStatus /\ r.form \in Forms \cup {Nil} /\ r.deal \in DealIds \cup {Nil}
         /\ IsRow(r)
         /\ \A s \in LeadStatus :
              /\ [r EXCEPT !.status = s] \in Lead
              /\ [r EXCEPT !.status = s].form = r.form
              /\ [r EXCEPT !.status = s].deal = r.deal
              /\ [r EXCEPT !.status = s].status = s
         /\ /\ [r EXCEPT !.form = Nil] \in Lead
            /\ [r EXCEPT !.form = Nil].form = Nil
            /\ [r EXCEPT !.form = Nil].deal = r.deal
            /\ [r EXCEPT !.form = Nil].status = r.status
         /\ \A d \in DealIds :
              /\ Convert(d, r) \in Lead /\ Convert(d, r).form = r.form
              /\ Convert(d, r).deal = d /\ Convert(d, r).status = "CONVERTED"
  BY RowAssumption DEF Lead, IsRow, Convert, LeadStatus

LEMMA InitTyped == Init => Typed
  BY IdleIsRequest DEF Init, Typed, TypeOK, OnlyConvertConverts, IsRow

(* A lead is inserted, for a form that is there if for any. *)
NewLead(l, row) ==
  /\ l \in LeadIds /\ lead[l] = Nil /\ lead' = [lead EXCEPT ![l] = row]
  /\ row \in Lead /\ row.status = "NEW" /\ row.deal = Nil
  /\ row.form # Nil => IsRow(form[row.form])
  /\ UNCHANGED <<form, deal, contended>>

LEMMA CreateInserts ==
  ASSUME Create
  PROVE  req' = req /\ \E l, row : NewLead(l, row)
<1>1. PICK l \in LeadIds :
        /\ FreshLead(l)
        /\ lead' = [lead EXCEPT ![l] =
                      [status |-> "NEW", channel |-> "MANUAL", form |-> Nil, deal |-> Nil]]
  BY DEF Create
<1>2. NewLead(l, [status |-> "NEW", channel |-> "MANUAL", form |-> Nil, deal |-> Nil])
  BY <1>1 DEF Create, FreshLead, NewLead, Lead, LeadStatus, LeadChannel
<1> QED
  BY <1>2 DEF Create

LEMMA IntakeInserts ==
  ASSUME Typed, NEW h \in Handlers, CreateFromIntake(h)
  PROVE  /\ \E l, row : NewLead(l, row)
         /\ \E f \in Forms : req' = [req EXCEPT ![h] = [op |-> "count", form |-> f]]
<1>1. PICK f \in Forms, c \in {"FORM", "WEBHOOK"} : req[h].form = f /\ req[h].channel = c
  BY RequestShape DEF CreateFromIntake, Typed, TypeOK
<1>2. PICK l \in LeadIds :
        /\ FreshLead(l)
        /\ lead' = [lead EXCEPT ![l] = [status |-> "NEW", channel |-> c, form |-> f, deal |-> Nil]]
        /\ IsRow(form[f])
  BY <1>1 DEF CreateFromIntake
<1>3. NewLead(l, [status |-> "NEW", channel |-> c, form |-> f, deal |-> Nil])
  BY <1>2 DEF CreateFromIntake, FreshLead, NewLead, Lead, LeadStatus, LeadChannel
<1> QED
  BY <1>1, <1>3 DEF CreateFromIntake, Become

(* A row is replaced by one with the same form. *)
LEMMA SetRow ==
  ASSUME Typed, NEW l \in LeadIds, lead[l] \in Lead, NEW r \in Lead, r.form = lead[l].form,
         lead' = [lead EXCEPT ![l] = r]
  PROVE  /\ lead' \in [LeadIds -> Lead \cup {Nil, Gone}]
         /\ \A k \in LeadIds : IsRow(lead'[k]) /\ lead'[k].form # Nil =>
              IsRow(lead[k]) /\ lead'[k].form = lead[k].form
<1>1. lead \in [LeadIds -> Lead \cup {Nil, Gone}] /\ IsRow(lead[l])
  BY LeadShape DEF Typed, TypeOK
<1>2. \A k \in LeadIds : lead'[k] = IF k = l THEN r ELSE lead[k]
  BY <1>1
<1> QED
  BY <1>1, <1>2

LEMMA NextTyped == Typed /\ [Next /\ Bounded]_vars => Typed'
<1> SUFFICES ASSUME Typed, Next \/ UNCHANGED vars PROVE Typed'
  OBVIOUS
<1>0. /\ lead \in [LeadIds -> Lead \cup {Nil, Gone}] /\ form \in [Forms -> Form \cup {Nil, Gone}]
      /\ deal \in [DealIds -> LeadIds \cup {Nil}] /\ req \in [Handlers -> Request]
      /\ contended \subseteq LeadIds
      /\ \A l \in LeadIds : IsRow(lead[l]) /\ lead[l].form # Nil => IsRow(form[lead[l].form])
  BY DEF Typed, TypeOK
<1>1. ASSUME NEW l, NEW row, NewLead(l, row), req' \in [Handlers -> Request], OnlyConvertConverts'
      PROVE  Typed'
  BY <1>0, <1>1 DEF NewLead, Typed, TypeOK
<1>2. CASE Create
  BY <1>0, <1>1, <1>2, CreateInserts DEF Typed, OnlyConvertConverts
<1>3. ASSUME NEW h \in Handlers, CreateFromIntake(h) PROVE Typed'
  <2>1. PICK f \in Forms : req' = [req EXCEPT ![h] = [op |-> "count", form |-> f]]
    BY <1>3, IntakeInserts
  <2>2. req' \in [Handlers -> Request] /\ OnlyConvertConverts'
    BY <1>0, <2>1 DEF Request, Typed, OnlyConvertConverts
  <2> QED
    BY <1>1, <1>3, <2>2, IntakeInserts
<1>4. ASSUME NEW h \in Handlers, NEW r \in Request, Become(h, r),
             r.op = "update" => r.status \in (LeadStatus \ {"CONVERTED"}) \cup {Nil}
      PROVE  req' \in [Handlers -> Request] /\ OnlyConvertConverts'
  BY <1>0, <1>4 DEF Become, Typed, OnlyConvertConverts
<1>5. ASSUME NEW f \in Forms, CreateForm(f) \/ UpdateForm(f) PROVE Typed'
  <2>1. PICK x \in Form : form' = [form EXCEPT ![f] = x]
    <3>1. CASE CreateForm(f)
      BY <3>1 DEF CreateForm, Form
    <3>2. CASE UpdateForm(f)
      <4>1. form[f] \in Form
        BY <1>0, <3>2 DEF UpdateForm, IsRow
      <4>2. [form[f] EXCEPT !.active = ~@] \in Form
        BY <4>1 DEF Form
      <4> QED
        BY <3>2, <4>2 DEF UpdateForm
    <3> QED
      BY <1>5, <3>1, <3>2
  <2>2. IsRow(x)
    BY RowAssumption DEF IsRow
  <2>3. UNCHANGED <<lead, deal, req, contended>>
    BY <1>5 DEF CreateForm, UpdateForm
  <2>4. \A l \in LeadIds : IsRow(lead[l]) /\ lead[l].form # Nil => IsRow(form'[lead[l].form])
    BY <1>0, <2>1, <2>2, LeadShape DEF IsRow
  <2> QED
    BY <1>0, <2>1, <2>3, <2>4 DEF Typed, TypeOK, OnlyConvertConverts
<1>6. ASSUME NEW f \in Forms, RemoveForm(f) PROVE Typed'
  <2>1. /\ form' = [form EXCEPT ![f] = Gone] /\ UNCHANGED <<deal, req, contended>>
        /\ lead' = [l \in LeadIds |-> IF IsRow(lead[l]) /\ lead[l].form = f
                                      THEN [lead[l] EXCEPT !.form = Nil] ELSE lead[l]]
    BY <1>6 DEF RemoveForm, Unlink
  <2>2. \A l \in LeadIds : IsRow(lead[l]) => lead[l] \in Lead
    BY <1>0 DEF IsRow
  <2>3. \A l \in LeadIds :
          /\ lead'[l] \in Lead \cup {Nil, Gone}
          /\ IsRow(lead'[l]) /\ lead'[l].form # Nil =>
               lead'[l].form # f /\ lead'[l] = lead[l] /\ IsRow(lead[l]) /\ lead[l].form \in Forms
    BY <1>0, <2>1, <2>2, LeadShape
  <2>4. \A l \in LeadIds : IsRow(lead'[l]) /\ lead'[l].form # Nil => IsRow(form'[lead'[l].form])
    BY <1>0, <2>1, <2>3
  <2> QED
    BY <1>0, <2>1, <2>3, <2>4 DEF Typed, TypeOK, OnlyConvertConverts
<1>7. ASSUME NEW l \in LeadIds, Remove(l) PROVE Typed'
  BY <1>0, <1>7 DEF Remove, Typed, TypeOK, OnlyConvertConverts, IsRow
<1>8. ASSUME NEW h \in Handlers, NEW l \in LeadIds, DecideUpdate(h, l) \/ DecideConvert(h, l)
      PROVE  Typed'
  <2>1. PICK r \in Request :
          /\ r.op = "update" => r.status \in (LeadStatus \ {"CONVERTED"}) \cup {Nil}
          /\ Become(h, r)
    <3>1. CASE DecideUpdate(h, l)
      <4>1. PICK s \in (LeadStatus \ {"CONVERTED"}) \cup {Nil} :
              Become(h, [op |-> "update", lead |-> l, status |-> s])
        BY <3>1 DEF DecideUpdate
      <4>2. [op |-> "update", lead |-> l, status |-> s] \in Request
        BY DEF Request
      <4> QED
        BY <4>1, <4>2
    <3>2. CASE DecideConvert(h, l)
      BY <3>2 DEF DecideConvert, Request
    <3> QED
      BY <1>8, <3>1, <3>2
  <2>2. req' \in [Handlers -> Request] /\ OnlyConvertConverts'
    BY <1>4, <2>1
  <2>3. UNCHANGED rows /\ contended' \subseteq LeadIds
    BY <1>0, <1>8 DEF DecideUpdate, DecideConvert, Contend
  <2> QED
    BY <1>0, <2>2, <2>3 DEF Typed, TypeOK, rows
<1>9. ASSUME NEW h \in Handlers, NEW f \in Forms, Submit(h, f) \/ IngestWebhook(h, f)
      PROVE  Typed'
  <2>1. PICK c \in {"FORM", "WEBHOOK"} : Receive(h, f, c)
    BY <1>9 DEF Submit, IngestWebhook
  <2>2. [op |-> "intake", channel |-> c, form |-> f] \in Request
    BY DEF Request
  <2>3. req' \in [Handlers -> Request] /\ OnlyConvertConverts'
    BY <1>4, <2>1, <2>2 DEF Receive
  <2> QED
    BY <1>0, <2>1, <2>3 DEF Receive, Typed, TypeOK, rows
<1>10. ASSUME NEW h \in Handlers, Become(h, Idle)
       PROVE  req' \in [Handlers -> Request] /\ OnlyConvertConverts'
  BY <1>4, <1>10, IdleIsRequest
<1>11. ASSUME NEW h \in Handlers, UpdateLead(h) PROVE Typed'
  <2>1. PICK l \in LeadIds, s \in LeadStatus \cup {Nil} :
          req[h].lead = l /\ req[h].status = s
    BY <1>0, <1>11, RequestShape DEF UpdateLead
  <2>2. lead[l] \in Lead
    BY <1>0, <1>11, <2>1 DEF UpdateLead, IsRow
  <2>3. lead' = lead \/ (s \in LeadStatus /\ lead' = [lead EXCEPT ![l] = [lead[l] EXCEPT !.status = s]])
    BY <1>11, <2>1 DEF UpdateLead
  <2>4. /\ lead' \in [LeadIds -> Lead \cup {Nil, Gone}]
        /\ \A k \in LeadIds : IsRow(lead'[k]) /\ lead'[k].form # Nil =>
             IsRow(lead[k]) /\ lead'[k].form = lead[k].form
    <3>1. ASSUME s \in LeadStatus
          PROVE  /\ [lead[l] EXCEPT !.status = s] \in Lead
                 /\ [lead[l] EXCEPT !.status = s].form = lead[l].form
      BY <2>2, <3>1, LeadShape
    <3>2. CASE s \in LeadStatus /\ lead' = [lead EXCEPT ![l] = [lead[l] EXCEPT !.status = s]]
      BY <2>2, <3>1, <3>2, SetRow
    <3> QED
      BY <1>0, <2>3, <3>2
  <2>5. UNCHANGED <<form, deal, contended>> /\ Become(h, Idle)
    BY <1>11 DEF UpdateLead
  <2> QED
    BY <1>0, <1>10, <2>4, <2>5 DEF Typed, TypeOK
<1>12. ASSUME NEW h \in Handlers, ConvertLead(h) PROVE Typed'
  <2>1. PICK l \in LeadIds : req[h].lead = l
    BY <1>0, <1>12, RequestShape DEF ConvertLead
  <2>2. lead[l] \in Lead
    BY <1>0, <1>12, <2>1 DEF ConvertLead, IsRow
  <2>3. PICK d \in DealIds :
          deal' = [deal EXCEPT ![d] = l] /\ lead' = [lead EXCEPT ![l] = Convert(d, lead[l])]
    BY <1>12, <2>1 DEF ConvertLead
  <2>4. /\ lead' \in [LeadIds -> Lead \cup {Nil, Gone}]
        /\ \A k \in LeadIds : IsRow(lead'[k]) /\ lead'[k].form # Nil =>
             IsRow(lead[k]) /\ lead'[k].form = lead[k].form
    <3>1. Convert(d, lead[l]) \in Lead /\ Convert(d, lead[l]).form = lead[l].form
      BY <2>2, LeadShape
    <3> QED
      BY <2>2, <2>3, <3>1, SetRow
  <2>5. UNCHANGED <<form, contended>> /\ Become(h, Idle)
    BY <1>12 DEF ConvertLead
  <2>6. deal' \in [DealIds -> LeadIds \cup {Nil}]
    BY <1>0, <2>3
  <2> QED
    BY <1>0, <1>10, <2>4, <2>5, <2>6 DEF Typed, TypeOK
<1>13. ASSUME NEW h \in Handlers, IncrementSubmit(h) PROVE Typed'
  <2>1. PICK f \in Forms : req[h].form = f
    BY <1>0, <1>13, RequestShape DEF IncrementSubmit
  <2>2. form[f] \in Form
    BY <1>0, <1>13, <2>1 DEF IncrementSubmit, IsRow
  <2>3. PICK x \in Form : form' = [form EXCEPT ![f] = x]
    <3>1. [form[f] EXCEPT !.submits = form[f].submits + 1] \in Form
      BY <2>2 DEF Form
    <3> QED
      BY <1>13, <2>1, <3>1 DEF IncrementSubmit, Increment
  <2>4. IsRow(x)
    BY RowAssumption DEF IsRow
  <2>5. \A l \in LeadIds : IsRow(lead[l]) /\ lead[l].form # Nil => IsRow(form'[lead[l].form])
    BY <1>0, <2>3, <2>4, LeadShape DEF IsRow
  <2>6. UNCHANGED <<lead, deal, contended>> /\ Become(h, Idle)
    BY <1>13 DEF IncrementSubmit
  <2> QED
    BY <1>0, <1>10, <2>3, <2>5, <2>6 DEF Typed, TypeOK
<1>14. ASSUME NEW h \in Handlers, Fails(h) PROVE Typed'
  BY <1>0, <1>10, <1>14 DEF Fails, rows, Typed, TypeOK
<1>15. CASE UNCHANGED vars
  BY <1>15 DEF vars, rows, Typed, TypeOK, OnlyConvertConverts
<1> QED
  BY <1>2, <1>3, <1>5, <1>6, <1>7, <1>8, <1>9, <1>11, <1>12, <1>13, <1>14, <1>15 DEF Next

(* Type correctness.  Its last conjunct is the foreign key of Lead.formId: a
   form removed under running submissions leaves no lead that names it. *)
THEOREM TypeCorrect == Spec => []TypeOK
<1>1. Typed => TypeOK
  BY DEF Typed
<1> QED
  BY <1>1, InitTyped, NextTyped, PTL DEF Spec

-----------------------------------------------------------------------------
NoDeal(l) == \A d \in DealIds : deal[d] # l

(* A lead and the deals that came from it agree, whatever overlaps. *)
LinkSound(l) ==
  /\ lead[l] = Nil => NoDeal(l)
  /\ IsRow(lead[l]) =>
       /\ lead[l].deal = Nil <=> NoDeal(l)
       /\ lead[l].deal # Nil => deal[lead[l].deal] = l
       /\ lead[l].status = "CONVERTED" => lead[l].deal # Nil

(* While no conversion of it overlaps another write, a conversion is the
   lead's only writer; what a writer was told of the lead, that it has no
   deal, is still true; and a lead that has a deal says so. *)
Serial(l) ==
  /\ \A g, h \in Writers(l) : req[g].op = "convert" => g = h
  /\ IsRow(lead[l]) /\ lead[l].deal # Nil => Writers(l) = {} /\ lead[l].status = "CONVERTED"
  /\ \A d, e \in DealIds : deal[d] = l /\ deal[e] = l => d = e

LeadInv == \A l \in LeadIds : LinkSound(l) /\ (l \notin contended => Serial(l))

(* A step that is not about the lead: at most it deletes it, or takes its
   form from it, and no request becomes a writer of it. *)
LEMMA Frame ==
  ASSUME NEW l \in LeadIds, LinkSound(l), l \notin contended => Serial(l),
         \/ lead'[l] = lead[l]
         \/ lead'[l] = Gone
         \/ /\ IsRow(lead[l]) /\ IsRow(lead'[l])
            /\ lead'[l].deal = lead[l].deal /\ lead'[l].status = lead[l].status,
         \A d \in DealIds : deal'[d] = deal[d] \/ (deal'[d] # l /\ deal[d] = Nil),
         \A h \in Handlers : req'[h] = req[h] \/ h \notin Writers(l)',
         contended \subseteq contended',
         lead[l] \in Lead \cup {Nil, Gone}
  PROVE  LinkSound(l)' /\ (l \notin contended' => Serial(l)')
<1>1. l # Nil /\ l # Gone /\ ~ IsRow(Gone) /\ Nil # Gone
  BY NilAssumption DEF IsRow
<1>2. NoDeal(l)' <=> NoDeal(l)
  BY <1>1 DEF NoDeal
<1>3. ASSUME IsRow(lead[l]), lead[l].deal # Nil
      PROVE  lead[l].deal \in DealIds /\ (deal[lead[l].deal] = l => deal'[lead[l].deal] = l)
  BY <1>1, <1>3, LeadShape DEF IsRow
<1>4. LinkSound(l)'
  BY <1>1, <1>2, <1>3 DEF LinkSound, IsRow
<1>5. \A h \in Writers(l)' : h \in Writers(l) /\ req'[h] = req[h]
  BY DEF Writers
<1>6. ASSUME l \notin contended' PROVE Serial(l)'
  <2>1. Serial(l)
    BY <1>6
  <2>2. \A g, h \in Writers(l)' : req'[g].op = "convert" => g = h
    BY <2>1, <1>5 DEF Serial
  <2>3. \A d, e \in DealIds : deal'[d] = l /\ deal'[e] = l => d = e
    BY <2>1, <1>1 DEF Serial
  <2>4. IsRow(lead'[l]) /\ lead'[l].deal # Nil =>
          Writers(l)' = {} /\ lead'[l].status = "CONVERTED"
    BY <2>1, <1>1, <1>5 DEF Serial
  <2> QED
    BY <2>2, <2>3, <2>4 DEF Serial
<1> QED
  BY <1>4, <1>6

LEMMA InitLinks == Init => LeadInv
<1> SUFFICES ASSUME Init, NEW l \in LeadIds PROVE LinkSound(l) /\ Serial(l)
  BY DEF LeadInv
<1>1. NoDeal(l) /\ lead[l] = Nil
  BY NilAssumption DEF Init, NoDeal
<1>2. Writers(l) = {}
  BY IdleIsRequest DEF Init, Writers
<1> QED
  BY <1>1, <1>2 DEF LinkSound, Serial, NoDeal, IsRow

LEMMA NextLinks == Typed /\ LeadInv /\ [Next /\ Bounded]_vars => LeadInv'
<1> SUFFICES ASSUME Typed, LeadInv, Next \/ UNCHANGED vars, NEW l \in LeadIds
             PROVE  LinkSound(l)' /\ (l \notin contended' => Serial(l)')
  BY DEF LeadInv
<1> DEFINE Others == \A h \in Handlers : req'[h] = req[h] \/ h \notin Writers(l)'
           Done   == LinkSound(l)' /\ (l \notin contended' => Serial(l)')
<1>0. /\ lead \in [LeadIds -> Lead \cup {Nil, Gone}] /\ form \in [Forms -> Form \cup {Nil, Gone}]
      /\ deal \in [DealIds -> LeadIds \cup {Nil}] /\ req \in [Handlers -> Request]
      /\ lead[l] \in Lead \cup {Nil, Gone}
      /\ LinkSound(l) /\ (l \notin contended => Serial(l))
      /\ l # Nil /\ l # Gone /\ Nil # Gone
  BY NilAssumption DEF Typed, TypeOK, LeadInv
<1>1. ASSUME lead'[l] = lead[l] \/ lead'[l] = Gone, deal' = deal, contended' = contended, Others
      PROVE  Done
  BY <1>0, <1>1, Frame
<1>2. ASSUME NEW h \in Handlers, Become(h, Idle) PROVE Others
  BY <1>0, <1>2, IdleIsRequest DEF Become, Writers
<1>3. ASSUME NEW k, NEW row, NewLead(k, row), Others PROVE Done
  <2>1. CASE k # l
    BY <1>0, <1>1, <1>3, <2>1 DEF NewLead
  <2>2. CASE k = l
    <3>1. /\ lead[l] = Nil /\ lead'[l] = row /\ row.status = "NEW" /\ row.deal = Nil
          /\ deal' = deal /\ contended' = contended
      BY <1>0, <1>3, <2>2 DEF NewLead
    <3>2. NoDeal(l) /\ NoDeal(l)'
      BY <1>0, <3>1 DEF LinkSound, NoDeal
    <3>3. LinkSound(l)'
      BY <1>0, <3>1, <3>2, RowAssumption DEF LinkSound, IsRow
    <3>4. ASSUME l \notin contended' PROVE Serial(l)'
      <4>1. \A h \in Writers(l)' : h \in Writers(l) /\ req'[h] = req[h]
        BY <1>3 DEF Writers
      <4> QED
        BY <1>0, <3>1, <3>2, <3>4, <4>1 DEF Serial, NoDeal
    <3> QED
      BY <3>3, <3>4
  <2> QED
    BY <2>1, <2>2
<1>4. CASE Create
  BY <1>3, <1>4, CreateInserts
<1>5. ASSUME NEW h \in Handlers, CreateFromIntake(h) PROVE Done
  <2>1. Others
    <3>1. PICK f \in Forms : req' = [req EXCEPT ![h] = [op |-> "count", form |-> f]]
      BY <1>5, IntakeInserts
    <3> QED
      BY <1>0, <3>1 DEF Writers
  <2> QED
    BY <1>3, <1>5, <2>1, IntakeInserts
<1>6. ASSUME NEW f \in Forms, CreateForm(f) \/ UpdateForm(f) PROVE Done
  BY <1>1, <1>6 DEF CreateForm, UpdateForm
<1>7. ASSUME NEW f \in Forms, RemoveForm(f) PROVE Done
  <2>1. lead'[l] = IF IsRow(lead[l]) /\ lead[l].form = f THEN [lead[l] EXCEPT !.form = Nil] ELSE lead[l]
    BY <1>7 DEF RemoveForm, Unlink
  <2>2. IsRow(lead[l]) => lead[l] \in Lead
    BY <1>0 DEF IsRow
  <2>3. \/ lead'[l] = lead[l]
        \/ /\ IsRow(lead[l]) /\ IsRow(lead'[l])
           /\ lead'[l].deal = lead[l].deal /\ lead'[l].status = lead[l].status
    BY <2>1, <2>2, LeadShape
  <2>4. UNCHANGED <<deal, req, contended>>
    BY <1>7 DEF RemoveForm
  <2> QED
    BY <1>0, <2>3, <2>4, Frame
<1>8. ASSUME NEW k \in LeadIds, Remove(k) PROVE Done
  BY <1>0, <1>1, <1>8 DEF Remove
<1>9. ASSUME NEW h \in Handlers, NEW k \in LeadIds, DecideUpdate(h, k) \/ DecideConvert(h, k)
      PROVE  Done
  <2>1. PICK op, r :
          op \in {"update", "convert"} /\ Become(h, r) /\ r.op = op /\ r.lead = k /\ Contend(k, op)
    BY <1>9 DEF DecideUpdate, DecideConvert
  <2>2. UNCHANGED rows /\ Free(h) /\ Unconverted(k) /\ contended \subseteq contended'
    BY <1>9 DEF DecideUpdate, DecideConvert, Contend
  <2>3. CASE k # l
    <3>1. Others
      BY <1>0, <2>1, <2>3 DEF Become, Writers
    <3> QED
      BY <1>0, <2>2, <3>1, Frame DEF rows
  <2>4. CASE k = l
    <3>1. LinkSound(l)'
      BY <1>0, <2>2 DEF LinkSound, NoDeal, rows
    <3>2. ASSUME l \notin contended' PROVE Serial(l)'
      <4>1. l \notin contended /\ \A g \in Writers(l) : op # "convert" /\ req[g].op # "convert"
        BY <2>1, <2>4, <3>2 DEF Contend
      <4>2. req'[h] = r /\ \A g \in Writers(l)' : g # h => g \in Writers(l) /\ req'[g] = req[g]
        BY <1>0, <2>1 DEF Become, Writers
      <4>3. \A g1, g2 \in Writers(l)' : req'[g1].op = "convert" => g1 = g2
        BY <2>1, <4>1, <4>2
      <4>4. IsRow(lead[l]) /\ lead[l].deal = Nil
        BY <1>0, <2>2, <2>4, <4>1 DEF Unconverted, Serial
      <4> QED
        BY <1>0, <2>2, <4>1, <4>3, <4>4 DEF Serial, rows
    <3> QED
      BY <3>1, <3>2
  <2> QED
    BY <2>3, <2>4
<1>10. ASSUME NEW h \in Handlers, NEW f \in Forms, Submit(h, f) \/ IngestWebhook(h, f) PROVE Done
  <2>1. PICK c : Receive(h, f, c)
    BY <1>10 DEF Submit, IngestWebhook
  <2>2. Others
    BY <1>0, <2>1 DEF Receive, Become, Writers
  <2> QED
    BY <1>1, <2>1, <2>2 DEF Receive, rows
<1>11. ASSUME NEW h \in Handlers, UpdateLead(h) PROVE Done
  <2>1. PICK k \in LeadIds, s \in (LeadStatus \ {"CONVERTED"}) \cup {Nil} :
          req[h].lead = k /\ req[h].status = s
    BY <1>0, <1>11, RequestShape DEF UpdateLead, Typed, OnlyConvertConverts
  <2>2. Others /\ UNCHANGED <<deal, contended>>
    BY <1>2, <1>11 DEF UpdateLead
  <2>3. lead' = IF s = Nil THEN lead ELSE [lead EXCEPT ![k] = [lead[k] EXCEPT !.status = s]]
    BY <1>11, <2>1 DEF UpdateLead
  <2>4. CASE k # l \/ s = Nil
    BY <1>0, <1>1, <2>2, <2>3, <2>4
  <2>5. CASE k = l /\ s # Nil
    <3>1. lead[l] \in Lead /\ IsRow(lead[l])
      BY <1>0, <1>11, <2>1, <2>5 DEF UpdateLead, IsRow
    <3>2. /\ lead'[l] = [lead[l] EXCEPT !.status = s]
          /\ IsRow(lead'[l]) /\ lead'[l].deal = lead[l].deal /\ lead'[l].status # "CONVERTED"
      <4>1. lead'[l] = [lead[l] EXCEPT !.status = s] /\ s \in LeadStatus /\ s # "CONVERTED"
        BY <1>0, <2>1, <2>3, <2>5
      <4> QED
        <5>1. PICK r \in Lead : r = lead[l]
          BY <3>1
        <5>2. /\ [r EXCEPT !.status = s] \in Lead /\ [r EXCEPT !.status = s].deal = r.deal
              /\ [r EXCEPT !.status = s].status = s
          BY <4>1, LeadShape
        <5>3. lead'[l] \in Lead /\ lead'[l].deal = r.deal /\ lead'[l].status = s
          BY <4>1, <5>1, <5>2
        <5> QED
          BY <4>1, <5>1, <5>3, LeadShape
    <3>3. LinkSound(l)'
      <4>1. NoDeal(l)' <=> NoDeal(l)
        BY <2>2 DEF NoDeal
      <4> QED
        BY <1>0, <2>2, <3>1, <3>2, <4>1 DEF LinkSound, IsRow
    <3>4. ASSUME l \notin contended' PROVE Serial(l)'
      <4>1. Serial(l) /\ h \in Writers(l)
        BY <1>0, <1>11, <2>1, <2>2, <2>5, <3>4 DEF UpdateLead, Writers
      <4>2. lead[l].deal = Nil
        BY <3>1, <4>1 DEF Serial
      <4>3. \A g \in Writers(l)' : g \in Writers(l) /\ req'[g] = req[g]
        BY <2>2 DEF Writers
      <4> QED
        BY <2>2, <3>2, <4>1, <4>2, <4>3 DEF Serial
    <3> QED
      BY <3>3, <3>4
  <2> QED
    BY <2>4, <2>5
<1>12. ASSUME NEW h \in Handlers, ConvertLead(h) PROVE Done
  <2>1. PICK k \in LeadIds : req[h].lead = k
    BY <1>0, <1>12, RequestShape DEF ConvertLead
  <2>2. PICK d \in DealIds :
          /\ deal[d] = Nil /\ deal' = [deal EXCEPT ![d] = k]
          /\ lead' = [lead EXCEPT ![k] = Convert(d, lead[k])]
    BY <1>12, <2>1 DEF ConvertLead, FreshDeal
  <2>3. Others /\ contended' = contended
    BY <1>2, <1>12 DEF ConvertLead
  <2>4. CASE k # l
    BY <1>0, <2>2, <2>3, <2>4, Frame
  <2>5. CASE k = l
    <3>1. lead[l] \in Lead /\ IsRow(lead[l])
      BY <1>0, <1>12, <2>1, <2>5 DEF ConvertLead, IsRow
    <3>2. /\ IsRow(lead'[l]) /\ lead'[l].deal = d /\ lead'[l].status = "CONVERTED"
          /\ deal'[d] = l /\ d \in DealIds /\ d # Nil
      <4>1. lead'[l] = Convert(d, lead[l])
        BY <1>0, <2>2, <2>5
      <4>2. deal'[d] = l /\ d # Nil
        BY <1>0, <2>2, <2>5, NilAssumption
      <4> QED
        <5>1. PICK r \in Lead : r = lead[l]
          BY <3>1
        <5>2. /\ Convert(d, r) \in Lead
              /\ Convert(d, r).deal = d /\ Convert(d, r).status = "CONVERTED"
          BY LeadShape
        <5>3. lead'[l] \in Lead /\ lead'[l].deal = d /\ lead'[l].status = "CONVERTED"
          BY <4>1, <5>1, <5>2
        <5> QED
          BY <4>2, <5>3, LeadShape
    <3>3. LinkSound(l)'
      BY <3>2 DEF LinkSound, NoDeal, IsRow
    <3>4. ASSUME l \notin contended' PROVE Serial(l)'
      <4>1. Serial(l) /\ h \in Writers(l) /\ req[h].op = "convert"
        BY <1>0, <1>12, <2>1, <2>3, <2>5, <3>4 DEF ConvertLead, Writers
      <4>2. Writers(l)' = {}
        <5>1. \A g \in Writers(l)' : g \in Writers(l) /\ g # h
          BY <1>0, <1>12, <2>3, IdleIsRequest DEF ConvertLead, Become, Writers
        <5> QED
          BY <4>1, <5>1 DEF Serial
      <4>3. NoDeal(l)
        BY <1>0, <3>1, <4>1 DEF LinkSound, Serial
      <4>4. \A e \in DealIds : deal'[e] = l => e = d
        BY <1>0, <2>2, <4>3 DEF NoDeal
      <4> QED
        BY <3>2, <4>2, <4>4 DEF Serial
    <3> QED
      BY <3>3, <3>4
  <2> QED
    BY <2>4, <2>5
<1>13. ASSUME NEW h \in Handlers, IncrementSubmit(h) PROVE Done
  BY <1>1, <1>2, <1>13 DEF IncrementSubmit
<1>14. ASSUME NEW h \in Handlers, Fails(h) PROVE Done
  BY <1>1, <1>2, <1>14 DEF Fails, rows
<1>15. CASE UNCHANGED vars
  BY <1>1, <1>15 DEF vars, rows
<1> QED
  BY <1>4, <1>5, <1>6, <1>7, <1>8, <1>9, <1>10, <1>11, <1>12, <1>13, <1>14, <1>15 DEF Next

(* A lead is converted once: it has the deal it names, CONVERTED is written
   by convert alone, and where no conversion overlaps another write the lead
   is CONVERTED exactly when it has a deal, and never has a second one. *)
THEOREM ConvertsOnce == Spec => []ConvertedOnce
<1>1. Typed /\ LeadInv => ConvertedOnce
  <2> SUFFICES ASSUME Typed, LeadInv, NEW l \in LeadIds
               PROVE  /\ IsRow(lead[l]) =>
                           /\ lead[l].deal = Nil <=> DealsOf(l) = {}
                           /\ lead[l].deal # Nil => deal[lead[l].deal] = l
                           /\ lead[l].status = "CONVERTED" => lead[l].deal # Nil
                      /\ l \notin contended =>
                           /\ Cardinality(DealsOf(l)) <= 1
                           /\ IsRow(lead[l]) /\ lead[l].deal # Nil => lead[l].status = "CONVERTED"
    BY DEF ConvertedOnce
  <2>1. LinkSound(l) /\ (l \notin contended => Serial(l))
    BY DEF LeadInv
  <2>2. NoDeal(l) <=> DealsOf(l) = {}
    BY DEF NoDeal, DealsOf
  <2>3. ASSUME l \notin contended PROVE Cardinality(DealsOf(l)) <= 1
    <3>1. CASE DealsOf(l) = {}
      BY <3>1, FS_EmptySet
    <3>2. CASE DealsOf(l) # {}
      <4>1. PICK d \in DealIds : deal[d] = l
        BY <3>2 DEF DealsOf
      <4>2. DealsOf(l) = {d}
        BY <2>1, <2>3, <4>1 DEF DealsOf, Serial
      <4>3. Cardinality({d}) = 1
        BY FS_Singleton, Zenon
      <4> QED
        BY <4>2, <4>3
    <3> QED
      BY <3>1, <3>2
  <2> QED
    BY <2>1, <2>2, <2>3 DEF LinkSound, Serial
<1>2. Init => Typed /\ LeadInv
  BY InitTyped, InitLinks
<1>3. Typed /\ LeadInv /\ [Next /\ Bounded]_vars => (Typed /\ LeadInv)'
  BY NextTyped, NextLinks
<1> QED
  BY <1>1, <1>2, <1>3, PTL DEF Spec

-----------------------------------------------------------------------------
(***************************************************************************)
(* The board that the deals of converted leads join: what holds of Kanban  *)
(* for every number of requests, users, deals, stages and pipelines.       *)
(***************************************************************************)
(* There are finitely many deals, and finitely many stages in a pipeline. *)
FiniteRows ==
  /\ IsFiniteSet({d \in Deals : card[d] # None})
  /\ \A p \in Pipelines : IsFiniteSet(StagesIn(p))

(* A stage row has a kind, and a deal that was never inserted has no log. *)
KnownKinds == \A s \in Stages : Exists(s) => kind[s] # "none"
EmptyLogs  == \A d \in Deals : card[d] = None => log[d] = <<>>

PlaceOps  == {"place", "write"}
Creates(h) == job[h].op \in PlaceOps /\ job[h].from = None
Moves(h)   == job[h].op \in PlaceOps /\ job[h].from # None

(* A deal that is being created has no row yet and one request only. *)
NewDealAlone ==
  \A h \in Slots : Creates(h) =>
    /\ card[job[h].deal] = None
    /\ job[h].status = "OPEN"
    /\ \A g \in Holders(job[h].deal) : g = h

(* Any other request on a deal has a row to write to. *)
OldDealThere ==
  \A h \in Slots : job[h].op \in DealOps /\ ~Creates(h) => card[job[h].deal] # None

(* A move stays in the pipeline, and carries the status of its target. *)
MoveIsValid ==
  \A h \in Slots : Moves(h) =>
    /\ PipelineOf[job[h].to] = card[job[h].deal].pipeline
    /\ kind[job[h].to] # "none"
    /\ job[h].to \notin reflagged => job[h].status = StatusIn(job[h].to)

(* A stage that is being added has no row yet and one request only. *)
NewStageAlone ==
  \A h \in Slots : job[h].op = "addStage" =>
    /\ kind[job[h].stage] = "none"
    /\ \A g \in Slots : job[g].op = "addStage" /\ job[g].stage = job[h].stage => g = h

(* Outside crowded a column waits for one card at most, whose rank no other
   card of the column has. *)
OneWriter ==
  \A s \in Stages \ crowded : \A g, h \in PlacingIn(s) : g = h
FreshRank ==
  \A s \in Stages \ crowded : \A h \in PlacingIn(s) :
    \A e \in LiveIn(s) \ {job[h].deal} : card[e].rank # job[h].rank

(* Outside overlapped a deal has one request at most, and a move knows the
   stage that the deal is in. *)
OneHolder ==
  \A d \in Deals \ overlapped : \A g, h \in Holders(d) : g = h
MoveKnowsStage ==
  \A h \in Slots : Moves(h) /\ job[h].deal \notin overlapped =>
    job[h].from = card[job[h].deal].stage

BoardInv ==
  /\ BoardTypeOK /\ FiniteRows /\ KnownKinds /\ EmptyLogs
  /\ NewDealAlone /\ OldDealThere /\ MoveIsValid /\ NewStageAlone
OrderInv == OneWriter /\ FreshRank /\ OrderIsTotal
LogInv   == OneHolder /\ MoveKnowsStage /\ LogTellsTheStory

(* The operation of a request fixes which fields it has. *)
LEMMA BoardRequestShape ==
  ASSUME NEW r \in Job
  PROVE  /\ r.op \in DealOps => r.deal \in Deals
         /\ r.op \in PlaceOps =>
              r.from \in Stages \cup {None} /\ r.to \in Stages /\ r.status \in DealStatus
              /\ r.by \in Users
         /\ r.op = "write" => r.rank \in Int
         /\ r.op = "assign" => r.owner \in Users \cup {None}
         /\ r.op = "addStage" => r.stage \in Stages /\ r.position \in Nat
         /\ r.op = "flag" => r.stage \in Stages /\ r.kind \in Kind
         /\ r.op = "reorder" => r.list \in Seq(Stages)
         /\ r.op = "removeStage" => r.stage \in Stages
  BY DEF Job, NoJob, DealOps, PlaceOps

LEMMA BoardIdle == NoJob \in Job /\ NoJob.op = "idle"
  BY DEF Job, NoJob

LEMMA BoardRowShape ==
  ASSUME NEW r \in Row
  PROVE  /\ r # None
         /\ r.stage \in Stages /\ r.pipeline \in Pipelines /\ r.rank \in Int
         /\ r.status \in DealStatus /\ r.owner \in Users \cup {None} /\ r.live \in BOOLEAN
  BY CardAssumption DEF Row

LEMMA BoardRequestAt ==
  ASSUME BoardTypeOK, NEW h \in Slots
  PROVE  job[h] \in Job
  BY DEF BoardTypeOK

LEMMA BoardRowAt ==
  ASSUME BoardTypeOK, NEW d \in Deals, card[d] # None
  PROVE  card[d] \in Row
  BY DEF BoardTypeOK

(* What a holder of a deal is. *)
LEMMA BoardHolder ==
  ASSUME NEW d, NEW h
  PROVE  h \in Holders(d) <=> h \in Slots /\ job[h].op \in DealOps /\ job[h].deal = d
  BY DEF Holders

LEMMA BoardPlacing ==
  ASSUME NEW s, NEW h
  PROVE  h \in PlacingIn(s) <=> h \in Slots /\ job[h].op = "write" /\ job[h].to = s
  BY DEF PlacingIn

LEMMA BoardInColumn ==
  ASSUME NEW s, NEW d
  PROVE  d \in LiveIn(s) <=> d \in Deals /\ card[d] # None /\ card[d].live /\ card[d].stage = s
  BY DEF LiveIn, Live

-----------------------------------------------------------------------------
(* Induction is by the least number for which something fails. *)
LEMMA LeastExists ==
  ASSUME NEW S, S \subseteq Nat, S # {}
  PROVE  \E m \in S : \A x \in S : m <= x
  <1>1. PICK m \in S : \A x \in S : ~ (<<x, m>> \in OpToRel(<, Nat))
    BY NatLessThanWellFounded, WFMin, Zenon
  <1>2. \A x \in S : ~ (x < m)
    BY <1>1 DEF OpToRel
  <1>3. QED
    BY <1>2

(* A finite set of integers that is not empty has a greatest element. *)
LEMMA GreatestExists ==
  ASSUME NEW S, IsFiniteSet(S), S # {}, S \subseteq Int
  PROVE  \E m \in S : \A x \in S : x <= m
  <1>1. PICK list \in Seq(S) : \A x \in S : \E n \in 1..Len(list) : list[n] = x
    BY DEF IsFiniteSet
  <1> DEFINE Covered(k) == \E m \in S : \A i \in 1..k : list[i] <= m
             Fail       == {k \in 0..Len(list) : ~Covered(k)}
  <1>2. Len(list) \in Nat /\ \A i \in 1..Len(list) : list[i] \in S
    OBVIOUS
  <1>3. Covered(0)
    <2>1. PICK m \in S : TRUE
      OBVIOUS
    <2>2. 1..0 = {}
      OBVIOUS
    <2>3. QED
      BY <2>1, <2>2
  <1>4. ASSUME Fail # {} PROVE FALSE
    <2>1. PICK k \in Fail : \A x \in Fail : k <= x
      <3>1. Fail \subseteq Nat
        BY <1>2
      <3>2. QED
        BY <1>4, <3>1, LeastExists
    <2>2. k \in 1..Len(list) /\ k - 1 \in 0..Len(list)
      BY <1>2, <1>3
    <2>3. Covered(k - 1)
      BY <2>1, <2>2
    <2>4. PICK m \in S : \A i \in 1..(k - 1) : list[i] <= m
      BY <2>3
    <2>5. list[k] \in S /\ list[k] \in Int /\ m \in Int
      BY <1>2, <2>2
    <2>6. CASE list[k] <= m
      <3>1. \A i \in 1..k : list[i] <= m
        BY <2>2, <2>4, <2>6
      <3>2. QED
        BY <2>1, <3>1
    <2>7. CASE ~(list[k] <= m)
      <3>1. \A i \in 1..k : list[i] <= list[k]
        <4>1. TAKE i \in 1..k
        <4>2. i \in 1..Len(list) /\ list[i] \in Int
          <5>1. i \in 1..Len(list)
            BY <1>2, <2>2
          <5>2. QED
            BY <5>1, <1>2
        <4>3. QED
          BY <2>2, <2>4, <2>5, <2>7, <4>2
      <3>2. QED
        BY <2>1, <2>5, <3>1
    <2>8. QED
      BY <2>6, <2>7
  <1>5. Covered(Len(list))
    BY <1>2, <1>4
  <1>6. QED
    BY <1>1, <1>5

(* What stands for a number is near it: the error a double makes. *)
LEMMA NumberIsNear ==
  ASSUME NEW n \in Int
  PROVE  \A r \in Number(n) : r \in Int /\ n - Precision <= r /\ r <= n + Precision
  BY RankAssumption DEF Number

(* Half of a number, rounded, is half of it within one. *)
LEMMA HalfIsNear ==
  ASSUME NEW n \in Int
  PROVE  HalfOf(n) \in Int /\ n - 1 <= 2 * HalfOf(n) /\ 2 * HalfOf(n) <= n + 1
  <1>1. CASE n > 0
    <2>1. HalfOf(n) = (n + 1) \div 2
      BY <1>1 DEF HalfOf
    <2>2. QED
      BY <2>1, <1>1
  <1>2. CASE ~(n > 0)
    <2>1. HalfOf(n) = n \div 2
      BY <1>2 DEF HalfOf
    <2>2. QED
      BY <2>1, <1>2
  <1>3. QED
    BY <1>1, <1>2

(* A rank computed from two that leave room is strictly between them, although
   the two were read inexactly and the result is inexact too. *)
LEMMA RoomBetween ==
  ASSUME NEW b \in Int, NEW a \in Int, a - b >= MinGap,
         NEW x \in Number(b), NEW y \in Number(a), NEW r \in Number(HalfOf(x + y))
  PROVE  b < r /\ r < a
  <1>1. Precision \in Int /\ MinGap \in Int /\ 4 * Precision + 1 < MinGap
    BY RankAssumption
  <1>2. x \in Int /\ b - Precision <= x /\ x <= b + Precision
    BY NumberIsNear
  <1>3. y \in Int /\ a - Precision <= y /\ y <= a + Precision
    BY NumberIsNear
  <1> DEFINE n == x + y
             m == HalfOf(n)
  <1>4. n \in Int /\ a + b - 2 * Precision <= n /\ n <= a + b + 2 * Precision
    BY <1>1, <1>2, <1>3
  <1>5. m \in Int /\ n - 1 <= 2 * m /\ 2 * m <= n + 1
    BY <1>4, HalfIsNear
  <1>6. r \in Int /\ m - Precision <= r /\ r <= m + Precision
    BY <1>5, NumberIsNear
  <1> HIDE DEF n, m
  <1>7. QED
    BY <1>1, <1>4, <1>5, <1>6

(* One beyond either end is beyond it. *)
LEMMA RoomBeyond ==
  ASSUME NEW n \in Int, NEW x \in Number(n)
  PROVE  /\ \A r \in Number(x + RankGap) : n < r
         /\ \A r \in Number(x - RankGap) : r < n
  <1>1. Precision \in Int /\ RankGap \in Int /\ 2 * Precision < RankGap
    BY RankAssumption
  <1>2. x \in Int /\ n - Precision <= x /\ x <= n + Precision
    BY NumberIsNear
  <1>3. x + RankGap \in Int /\ x - RankGap \in Int
    BY <1>1, <1>2
  <1>4. QED
    BY <1>1, <1>2, <1>3, NumberIsNear

LEMMA RankIsInt ==
  ASSUME NEW b \in Int \cup {None}, NEW a \in Int \cup {None}, b # None \/ a # None
  PROVE  ComputeRank(b, a) \subseteq Int
  <1>1. RankGap \in Int /\ None \notin Int
    BY RankAssumption, NoneAssumption
  <1>2. CASE b = None
    <2>1. a \in Int /\ a - RankGap \in Int
      BY <1>1, <1>2
    <2>2. QED
      BY <1>2, <2>1, NumberIsNear DEF ComputeRank
  <1>3. CASE b # None /\ a = None
    <2>1. b \in Int /\ b + RankGap \in Int
      BY <1>1, <1>3
    <2>2. QED
      BY <1>3, <2>1, NumberIsNear DEF ComputeRank
  <1>4. CASE b # None /\ a # None
    <2>1. b + a \in Int
      BY <1>4
    <2>2. HalfOf(b + a) \in Int
      BY <2>1, HalfIsNear
    <2>3. QED
      BY <1>4, <2>2, NumberIsNear DEF ComputeRank
  <1>5. QED
    BY <1>2, <1>3, <1>4

-----------------------------------------------------------------------------
(* What every start has in common: the request fits the rows it was built on. *)
FitsDeal(r) ==
  \/ /\ r.op = "place" /\ r.from = None /\ r.status = "OPEN"
     /\ card[r.deal] = None /\ Holders(r.deal) = {}
  \/ /\ r.op = "place" /\ r.from # None /\ r.status = StatusIn(r.to)
     /\ card[r.deal] # None /\ r.from = card[r.deal].stage
     /\ PipelineOf[r.to] = card[r.deal].pipeline /\ kind[r.to] # "none"
  \/ r.op \in {"assign", "delete"} /\ card[r.deal] # None
FitsStages(r) ==
  /\ r.op \in {"addStage", "flag", "reorder", "removeStage"}
  /\ r.op = "addStage" =>
       /\ kind[r.stage] = "none"
       /\ \A g \in Slots : job[g].op = "addStage" => job[g].stage # r.stage
Started(h, r) ==
  /\ r \in Job /\ Start(h, r) /\ UNCHANGED <<crowded, reflagged>>
  /\ \/ FitsDeal(r) /\ overlapped' = IF Holders(r.deal) = {} THEN overlapped
                                    ELSE overlapped \cup {r.deal}
     \/ FitsStages(r) /\ overlapped' = overlapped

LEMMA StartOnDealFits ==
  ASSUME NEW h, NEW r \in Job, r.deal \in Deals, StartOnDeal(h, r.deal, r), FitsDeal(r)
  PROVE  Started(h, r)
  BY DEF StartOnDeal, Started

LEMMA StartOnStagesFits ==
  ASSUME NEW h, NEW r \in Job, StartOnStages(h, r), FitsStages(r)
  PROVE  Started(h, r)
  BY DEF StartOnStages, Started

LEMMA StatusInTyped ==
  ASSUME NEW s
  PROVE  StatusIn(s) \in DealStatus
  BY DEF StatusIn, DealStatus

LEMMA CreateStarts ==
  ASSUME BoardInv, NEW h \in Slots, NEW u \in Users, NEW s \in Stages,
         StartCreate(h, u, s)
  PROVE  \E r \in Job : Started(h, r)
  <1>1. PICK d \in Deals :
          /\ card[d] = None /\ Holders(d) = {}
          /\ StartOnDeal(h, d, [op |-> "place", by |-> u, deal |-> d, from |-> None, to |-> s,
                                status |-> "OPEN"])
    BY DEF StartCreate
  <1> DEFINE r == [op |-> "place", by |-> u, deal |-> d, from |-> None, to |-> s,
                   status |-> "OPEN"]
  <1>2. r \in Job /\ r.deal = d
    BY DEF Job, DealStatus
  <1>3. FitsDeal(r)
    BY <1>1 DEF FitsDeal
  <1>4. StartOnDeal(h, r.deal, r)
    BY <1>1, <1>2
  <1>5. QED
    BY <1>2, <1>3, <1>4, StartOnDealFits

LEMMA MoveStarts ==
  ASSUME BoardInv, NEW h \in Slots, NEW u \in Users, NEW d \in Deals,
         NEW s \in Stages, StartMove(h, u, d, s)
  PROVE  \E r \in Job : Started(h, r)
  <1> DEFINE r == [op |-> "place", by |-> u, deal |-> d, from |-> card[d].stage, to |-> s,
                   status |-> StatusIn(s)]
  <1>1. /\ card[d] # None /\ Exists(s) /\ PipelineOf[s] = card[d].pipeline
        /\ StartOnDeal(h, d, r)
    BY DEF StartMove, CanWrite, MayStandIn, Live
  <1>2. card[d] \in Row /\ card[d].stage \in Stages /\ card[d].stage # None
    <2>1. card[d] \in Row
      BY <1>1, BoardRowAt DEF BoardInv
    <2>2. QED
      BY <2>1, BoardRowShape, NoneAssumption
  <1>3. r \in Job /\ r.deal = d
    BY <1>2, StatusInTyped DEF Job
  <1>4. kind[s] # "none"
    BY <1>1 DEF BoardInv, KnownKinds
  <1>5. FitsDeal(r)
    BY <1>1, <1>2, <1>4 DEF FitsDeal
  <1>6. StartOnDeal(h, r.deal, r)
    BY <1>1, <1>3
  <1>7. QED
    BY <1>3, <1>5, <1>6, StartOnDealFits

LEMMA AssignStarts ==
  ASSUME NEW h \in Slots, NEW u \in Users, NEW d \in Deals, StartAssign(h, u, d)
  PROVE  \E r \in Job : Started(h, r)
  <1>1. PICK o \in Users \cup {None} :
          StartOnDeal(h, d, [op |-> "assign", by |-> u, deal |-> d, owner |-> o])
    BY DEF StartAssign
  <1> DEFINE r == [op |-> "assign", by |-> u, deal |-> d, owner |-> o]
  <1>2. r \in Job /\ r.deal = d
    BY DEF Job
  <1>3. FitsDeal(r)
    BY DEF FitsDeal, StartAssign, CanWrite, Live
  <1>4. StartOnDeal(h, r.deal, r)
    BY <1>1, <1>2
  <1>5. QED
    BY <1>2, <1>3, <1>4, StartOnDealFits

LEMMA RemoveStarts ==
  ASSUME NEW h \in Slots, NEW u \in Users, NEW d \in Deals, StartRemove(h, u, d)
  PROVE  \E r \in Job : Started(h, r)
  <1> DEFINE r == [op |-> "delete", by |-> u, deal |-> d]
  <1>1. r \in Job /\ r.deal = d
    BY DEF Job
  <1>2. FitsDeal(r)
    BY DEF FitsDeal, StartRemove, CanWrite, Live
  <1>3. StartOnDeal(h, r.deal, r)
    BY <1>1 DEF StartRemove
  <1>4. QED
    BY <1>1, <1>2, <1>3, StartOnDealFits

(* The last position of a pipeline is a number, as its stages are finitely many. *)
LEMMA LastPositionTyped ==
  ASSUME BoardInv, NEW p \in Pipelines
  PROVE  LastPosition(p) + 1 \in Nat
  <1> DEFINE S == {position[s] : s \in StagesIn(p)}
  <1>1. CASE StagesIn(p) = {}
    BY <1>1 DEF LastPosition
  <1>2. CASE StagesIn(p) # {}
    <2>1. S \subseteq Nat /\ S # {}
      BY <1>2 DEF BoardInv, BoardTypeOK, StagesIn, Exists
    <2>2. IsFiniteSet(S)
      <3>1. IsFiniteSet(StagesIn(p))
        BY DEF BoardInv, FiniteRows
      <3> DEFINE f == [s \in StagesIn(p) |-> position[s]]
      <3>2. f \in Surjection(StagesIn(p), S)
        BY DEF Surjection
      <3>3. QED
        BY <3>1, <3>2, FS_Surjection
    <2>3. PICK m \in S : \A x \in S : x <= m
      BY <2>1, <2>2, GreatestExists
    <2>4. LastPosition(p) \in S
      BY <1>2, <2>3 DEF LastPosition
    <2>5. QED
      BY <2>1, <2>4
  <1>3. QED
    BY <1>1, <1>2

LEMMA AddStageStarts ==
  ASSUME BoardInv, NEW h \in Slots, NEW s \in Stages, StartAddStage(h, s)
  PROVE  \E r \in Job : Started(h, r)
  <1> DEFINE r == [op |-> "addStage", stage |-> s, position |-> LastPosition(PipelineOf[s]) + 1]
  <1>1. LastPosition(PipelineOf[s]) + 1 \in Nat
    <2>1. PipelineOf[s] \in Pipelines
      BY StagesAssumption
    <2>2. QED
      BY <2>1, LastPositionTyped
  <1>2. r \in Job
    BY <1>1 DEF Job
  <1>3. FitsStages(r)
    BY DEF FitsStages, StartAddStage
  <1>4. QED
    BY <1>2, <1>3, StartOnStagesFits DEF StartAddStage

LEMMA UpdateStageStarts ==
  ASSUME NEW h \in Slots, NEW s \in Stages, StartUpdateStage(h, s)
  PROVE  \E r \in Job : Started(h, r)
  <1>1. PICK k \in Kind : StartOnStages(h, [op |-> "flag", stage |-> s, kind |-> k])
    BY DEF StartUpdateStage
  <1> DEFINE r == [op |-> "flag", stage |-> s, kind |-> k]
  <1>2. r \in Job
    BY DEF Job
  <1>3. FitsStages(r)
    BY DEF FitsStages
  <1>4. QED
    BY <1>1, <1>2, <1>3, StartOnStagesFits

LEMMA RemoveStageStarts ==
  ASSUME NEW h \in Slots, NEW s \in Stages, StartRemoveStage(h, s)
  PROVE  \E r \in Job : Started(h, r)
  <1> DEFINE r == [op |-> "removeStage", stage |-> s]
  <1>1. r \in Job
    BY DEF Job
  <1>2. FitsStages(r)
    BY DEF FitsStages
  <1>3. QED
    BY <1>1, <1>2, StartOnStagesFits DEF StartRemoveStage

LEMMA ReorderStarts ==
  ASSUME BoardInv, NEW h \in Slots, NEW p \in Pipelines, StartReorder(h, p)
  PROVE  \E r \in Job : Started(h, r)
  <1>1. PICK list \in [1..Cardinality(StagesIn(p)) -> StagesIn(p)] :
          StartOnStages(h, [op |-> "reorder", pipeline |-> p, list |-> list])
    BY DEF StartReorder
  <1> DEFINE r == [op |-> "reorder", pipeline |-> p, list |-> list]
  <1>2. list \in Seq(Stages)
    <2>1. Cardinality(StagesIn(p)) \in Nat
      BY FS_CardinalityType DEF BoardInv, FiniteRows
    <2>2. list \in [1..Cardinality(StagesIn(p)) -> Stages]
      BY DEF StagesIn
    <2>3. QED
      BY <2>1, <2>2
  <1>3. r \in Job
    BY <1>2 DEF Job
  <1>4. FitsStages(r)
    BY DEF FitsStages
  <1>5. QED
    BY <1>1, <1>3, <1>4, StartOnStagesFits

LEMMA EveryStart ==
  ASSUME BoardInv, NEW h \in Slots, StartOn(h)
  PROVE  \E r \in Job : Started(h, r)
  <1>1. CASE \E u \in Users, s \in Stages : StartCreate(h, u, s)
    BY <1>1, CreateStarts
  <1>2. CASE \E u \in Users, d \in Deals : StartAssign(h, u, d)
    BY <1>2, AssignStarts
  <1>3. CASE \E u \in Users, d \in Deals : StartRemove(h, u, d)
    BY <1>3, RemoveStarts
  <1>4. CASE \E u \in Users, d \in Deals, s \in Stages : StartMove(h, u, d, s)
    BY <1>4, MoveStarts
  <1>5. CASE \E s \in Stages : StartAddStage(h, s)
    BY <1>5, AddStageStarts
  <1>6. CASE \E s \in Stages : StartUpdateStage(h, s)
    BY <1>6, UpdateStageStarts
  <1>7. CASE \E s \in Stages : StartRemoveStage(h, s)
    BY <1>7, RemoveStageStarts
  <1>8. CASE \E p \in Pipelines : StartReorder(h, p)
    BY <1>8, ReorderStarts
  <1>9. QED
    BY <1>1, <1>2, <1>3, <1>4, <1>5, <1>6, <1>7, <1>8 DEF StartOn

(* A start touches one request that was idle, and no row. *)
LEMMA StartedEffect ==
  ASSUME BoardTypeOK, NEW h \in Slots, NEW r \in Job, Started(h, r)
  PROVE  /\ job[h].op = "idle" /\ job'[h] = r
         /\ \A g \in Slots : g # h => job'[g] = job[g]
         /\ job' \in [Slots -> Job] /\ requests' \in 0..MaxRequests
         /\ position' = position /\ kind' = kind /\ card' = card /\ log' = log
         /\ crowded' = crowded /\ reflagged' = reflagged /\ overlapped \subseteq overlapped'
         /\ r.op \in {"place", "assign", "delete", "addStage", "flag", "reorder", "removeStage"}
         /\ r.op \in DealOps => FitsDeal(r)
         /\ r.op \notin DealOps => FitsStages(r)
  BY BoardIdle, BoundsAssumption DEF Started, Start, BoardTypeOK, board, FitsDeal, FitsStages, DealOps

-----------------------------------------------------------------------------
(* The rank that a card is given: where it fits, no other card has it. *)
LEMMA ColumnTyped ==
  ASSUME BoardInv, NEW s
  PROVE  /\ IsFiniteSet(LiveIn(s)) /\ LiveIn(s) \subseteq Deals
         /\ \A d \in LiveIn(s) : card[d].rank \in Int
         /\ None \notin LiveIn(s)
  <1>1. LiveIn(s) \subseteq {d \in Deals : card[d] # None}
    BY BoardInColumn
  <1>2. IsFiniteSet({d \in Deals : card[d] # None})
    BY DEF BoardInv, FiniteRows
  <1>3. IsFiniteSet(LiveIn(s))
    BY <1>1, <1>2, FS_Subset
  <1>4. ASSUME NEW d \in LiveIn(s) PROVE card[d].rank \in Int
    <2>1. d \in Deals /\ card[d] # None
      BY BoardInColumn
    <2>2. card[d] \in Row
      BY <2>1, BoardRowAt DEF BoardInv
    <2>3. QED
      BY <2>2, BoardRowShape
  <1>5. None \notin Deals
    BY NoneAssumption
  <1>6. QED
    BY <1>1, <1>3, <1>4, <1>5

LEMMA BottomIsFree ==
  ASSUME BoardInv, NEW s, NEW r \in BottomRank(s)
  PROVE  /\ r \in Int
         /\ \A e \in LiveIn(s) : card[e].rank < r
  <1> DEFINE S == {card[d].rank : d \in LiveIn(s)}
  <1>1. RankGap \in Int
    BY RankAssumption
  <1>2. CASE LiveIn(s) = {}
    BY <1>1, <1>2 DEF BottomRank
  <1>3. CASE LiveIn(s) # {}
    <2>1. S \subseteq Int /\ S # {} /\ IsFiniteSet(S)
      <3> DEFINE f == [d \in LiveIn(s) |-> card[d].rank]
      <3>1. f \in Surjection(LiveIn(s), S)
        BY DEF Surjection
      <3>2. QED
        BY <1>3, <3>1, ColumnTyped, FS_Surjection
    <2> DEFINE Top(t) == \A d \in LiveIn(s) : card[d].rank <= t
    <2>2. \E m \in S : Top(m)
      <3>1. PICK m \in S : \A x \in S : x <= m
        BY <2>1, GreatestExists
      <3>2. QED
        BY <3>1
    <2>3. PICK m : m = CHOOSE t \in S : Top(t)
      OBVIOUS
    <2>4. m \in S /\ Top(m)
      BY <2>2, <2>3
    <2>5. BottomRank(s) = UNION {Number(x + RankGap) : x \in Number(m)}
      BY <1>3, <2>3 DEF BottomRank
    <2>6. PICK x \in Number(m) : r \in Number(x + RankGap)
      BY <2>5
    <2>7. r \in Int
      <3>1. x \in Int
        BY <2>1, <2>4, NumberIsNear
      <3>2. x + RankGap \in Int
        BY <1>1, <3>1
      <3>3. QED
        BY <2>6, <3>2, NumberIsNear
    <2>8. m < r
      BY <2>1, <2>4, <2>6, RoomBeyond
    <2>9. QED
      BY <2>1, <2>4, <2>7, <2>8, ColumnTyped
  <1>4. QED
    BY <1>2, <1>3

LEMMA BetweenIsFree ==
  ASSUME BoardInv, NEW d, NEW s,
         NEW b \in LiveIn(s) \cup {None}, NEW a \in LiveIn(s) \cup {None}, <<b, a>> # <<None, None>>,
         NEW x \in RankOf(b), NEW y \in RankOf(a), NEW r \in ComputeRank(x, y)
  PROVE  /\ r \in Int
         /\ TrueNeighbours(d, s, b, a) => \A e \in LiveIn(s) \ {d} : card[e].rank # r
  <1>1. RankGap \in Int /\ MinGap \in Int /\ None \notin Int
    BY RankAssumption, NoneAssumption
  <1>2. /\ b = None => x = None
        /\ b # None => card[b].rank \in Int /\ x \in Number(card[b].rank) /\ x \in Int
    BY <1>1, ColumnTyped, NumberIsNear DEF RankOf
  <1>3. /\ a = None => y = None
        /\ a # None => card[a].rank \in Int /\ y \in Number(card[a].rank) /\ y \in Int
    BY <1>1, ColumnTyped, NumberIsNear DEF RankOf
  <1>4. r \in Int
    <2>1. x # None \/ y # None
      BY <1>1, <1>2, <1>3
    <2>2. x \in Int \cup {None} /\ y \in Int \cup {None}
      BY <1>2, <1>3
    <2>3. QED
      BY <2>1, <2>2, RankIsInt
  <1>5. ASSUME TrueNeighbours(d, s, b, a), NEW e \in LiveIn(s) \ {d}
        PROVE  card[e].rank # r
    <2>1. card[e].rank \in Int
      BY ColumnTyped
    <2>2. \/ b # None /\ card[e].rank <= card[b].rank
          \/ a # None /\ card[a].rank <= card[e].rank
      BY <1>5 DEF TrueNeighbours
    <2>3. CASE b = None
      <3>1. r \in Number(y - RankGap)
        BY <1>2, <2>3 DEF ComputeRank
      <3>2. a # None
        BY <2>3
      <3>3. r < card[a].rank
        BY <1>3, <3>1, <3>2, RoomBeyond
      <3>4. QED
        BY <1>3, <1>4, <2>1, <2>2, <2>3, <3>2, <3>3
    <2>4. CASE b # None /\ a = None
      <3>1. r \in Number(x + RankGap)
        BY <1>1, <1>2, <1>3, <2>4 DEF ComputeRank
      <3>2. card[b].rank < r
        BY <1>2, <2>4, <3>1, RoomBeyond
      <3>3. QED
        BY <1>2, <1>4, <2>1, <2>2, <2>4, <3>2
    <2>5. CASE b # None /\ a # None
      <3>1. r \in Number(HalfOf(x + y))
        BY <1>1, <1>2, <1>3, <2>5 DEF ComputeRank
      <3>2. card[b].rank < card[a].rank /\ ~NeedsRebalance(card[b].rank, card[a].rank)
        BY <1>5, <2>5 DEF TrueNeighbours
      <3>3. card[a].rank - card[b].rank >= MinGap
        <4>1. ~(card[b].rank - card[a].rank < MinGap) => card[b].rank >= card[a].rank
          BY <1>1, <1>2, <1>3, <2>5, RankAssumption
        <4>2. QED
          BY <1>1, <1>2, <1>3, <2>5, <3>2, <4>1 DEF NeedsRebalance
      <3>4. card[b].rank < r /\ r < card[a].rank
        BY <1>2, <1>3, <2>5, <3>1, <3>3, RoomBetween
      <3>5. QED
        BY <1>2, <1>3, <1>4, <2>1, <2>2, <2>5, <3>4
    <2>6. QED
      BY <2>3, <2>4, <2>5
  <1>6. QED
    BY <1>4, <1>5

FreeRank(h, r) == \A e \in LiveIn(job[h].to) \ {job[h].deal} : card[e].rank # r
Placed(h, r, fits) == PlaceAt(h, r, fits) /\ job[h].op = "place" /\ (fits => FreeRank(h, r))

LEMMA EveryPlace ==
  ASSUME BoardInv, NEW h \in Slots, PlaceAtBottom(h) \/ PlaceBetween(h)
  PROVE  \E r \in Int, fits \in BOOLEAN : Placed(h, r, fits)
  <1>1. CASE PlaceAtBottom(h)
    <2>1. PICK r \in BottomRank(job[h].to) : PlaceAt(h, r, TRUE)
      BY <1>1 DEF PlaceAtBottom
    <2>2. r \in Int /\ FreeRank(h, r)
      <3>1. r \in Int /\ \A e \in LiveIn(job[h].to) : card[e].rank < r
        BY BottomIsFree
      <3>2. \A e \in LiveIn(job[h].to) : card[e].rank \in Int
        BY ColumnTyped
      <3>3. QED
        BY <3>1, <3>2 DEF FreeRank
    <2>3. Placed(h, r, TRUE)
      BY <1>1, <2>1, <2>2 DEF Placed, PlaceAtBottom
    <2>4. QED
      BY <2>2, <2>3
  <1>2. CASE PlaceBetween(h)
    <2>1. PICK b \in LiveIn(job[h].to) \cup {None}, a \in LiveIn(job[h].to) \cup {None} :
            /\ <<b, a>> # <<None, None>>
            /\ \E x \in RankOf(b), y \in RankOf(a) : \E r \in ComputeRank(x, y) :
                 PlaceAt(h, r, TrueNeighbours(job[h].deal, job[h].to, b, a))
      BY <1>2 DEF PlaceBetween
    <2> DEFINE fits == TrueNeighbours(job[h].deal, job[h].to, b, a)
    <2>2. PICK x \in RankOf(b), y \in RankOf(a) : \E r \in ComputeRank(x, y) : PlaceAt(h, r, fits)
      BY <2>1
    <2>3. PICK r \in ComputeRank(x, y) : PlaceAt(h, r, fits)
      BY <2>2
    <2>4. r \in Int /\ (fits => FreeRank(h, r))
      BY <2>1, BetweenIsFree DEF FreeRank
    <2>5. fits \in BOOLEAN
      BY DEF TrueNeighbours
    <2>6. Placed(h, r, fits)
      BY <1>2, <2>3, <2>4 DEF Placed, PlaceBetween
    <2>7. QED
      BY <2>4, <2>5, <2>6
  <1>3. QED
    BY <1>1, <1>2

(* A placing touches no row and turns the request into a write. *)
LEMMA PlacedEffect ==
  ASSUME BoardTypeOK, NEW h \in Slots, NEW r \in Int, NEW fits \in BOOLEAN, Placed(h, r, fits)
  PROVE  /\ job' \in [Slots -> Job]
         /\ job[h].op = "place" /\ job'[h].op = "write" /\ job'[h].rank = r
         /\ job'[h].deal = job[h].deal /\ job'[h].from = job[h].from
         /\ job'[h].to = job[h].to /\ job'[h].status = job[h].status
         /\ job[h].to \in Stages
         /\ \A g \in Slots : g # h => job'[g] = job[g]
         /\ requests' = requests /\ overlapped' = overlapped /\ reflagged' = reflagged
         /\ position' = position /\ kind' = kind /\ card' = card /\ log' = log
         /\ crowded \subseteq crowded' /\ crowded' \subseteq Stages
         /\ \A s \in Stages \ crowded' : s = job[h].to =>
              PlacingIn(s) = {} /\ FreeRank(h, r)
  <1> DEFINE q == job[h]
             w == [op |-> "write", by |-> q.by, deal |-> q.deal, from |-> q.from,
                   to |-> q.to, status |-> q.status, rank |-> r]
  <1>1. q \in Job /\ q.op = "place"
    BY BoardRequestAt DEF Placed
  <1>2. /\ q.deal \in Deals /\ q.from \in Stages \cup {None} /\ q.to \in Stages
        /\ q.status \in DealStatus /\ q.by \in Users
    BY <1>1, BoardRequestShape DEF DealOps, PlaceOps
  <1>3. w \in Job
    BY <1>2 DEF Job
  <1>4. /\ job' = [job EXCEPT ![h] = w]
        /\ crowded' = IF fits /\ PlacingIn(q.to) = {} THEN crowded ELSE crowded \cup {q.to}
        /\ requests' = requests /\ overlapped' = overlapped /\ reflagged' = reflagged
        /\ position' = position /\ kind' = kind /\ card' = card /\ log' = log
    BY DEF Placed, PlaceAt, board
  <1>5. job' \in [Slots -> Job] /\ job'[h] = w /\ \A g \in Slots : g # h => job'[g] = job[g]
    BY <1>3, <1>4 DEF BoardTypeOK
  <1>6. w.op = "write" /\ w.rank = r /\ w.deal = q.deal /\ w.from = q.from /\ w.to = q.to
        /\ w.status = q.status
    OBVIOUS
  <1>7. crowded \subseteq crowded' /\ crowded' \subseteq Stages
    BY <1>2, <1>4 DEF BoardTypeOK
  <1>8. \A s \in Stages \ crowded' : s = q.to => PlacingIn(s) = {} /\ FreeRank(h, r)
    BY <1>4 DEF Placed
  <1>9. QED
    BY <1>1, <1>2, <1>4, <1>5, <1>6, <1>7, <1>8

-----------------------------------------------------------------------------
(* A request is started. *)
RowTypes ==
  /\ position \in [Stages -> Nat \cup {None}]
  /\ kind     \in [Stages -> Kind \cup {"none"}]
  /\ card     \in [Deals -> Row \cup {None}]
  /\ log      \in [Deals -> Seq([from : Stages, to : Stages])]
  /\ \A d \in Deals : card[d] # None =>
       Exists(card[d].stage) /\ PipelineOf[card[d].stage] = card[d].pipeline
RowsInv     == RowTypes /\ FiniteRows /\ KnownKinds /\ EmptyLogs
RequestsInv == NewDealAlone /\ OldDealThere /\ MoveIsValid /\ NewStageAlone
OtherTypes  ==
  /\ job \in [Slots -> Job] /\ requests \in 0..MaxRequests
  /\ overlapped \subseteq Deals /\ crowded \subseteq Stages /\ reflagged \subseteq Stages

LEMMA BoardInvParts == BoardInv <=> RowsInv /\ RequestsInv /\ OtherTypes
  BY DEF BoardInv, BoardTypeOK, RowsInv, RequestsInv, OtherTypes, RowTypes

LEMMA SameRows ==
  ASSUME RowsInv, position' = position, kind' = kind, card' = card, log' = log
  PROVE  RowsInv'
  BY DEF RowsInv, RowTypes, FiniteRows, KnownKinds, EmptyLogs, Exists, StagesIn

LEMMA StartKeepsBoard ==
  ASSUME BoardInv, NEW h \in Slots, NEW r \in Job, Started(h, r)
  PROVE  BoardInv'
  <1>1. /\ job[h].op = "idle" /\ job'[h] = r
        /\ \A g \in Slots : g # h => job'[g] = job[g]
        /\ job' \in [Slots -> Job] /\ requests' \in 0..MaxRequests
        /\ position' = position /\ kind' = kind /\ card' = card /\ log' = log
        /\ crowded' = crowded /\ reflagged' = reflagged
        /\ r.op \in {"place", "assign", "delete", "addStage", "flag", "reorder", "removeStage"}
        /\ r.op \in DealOps => FitsDeal(r)
        /\ r.op \notin DealOps => FitsStages(r)
    BY StartedEffect DEF BoardInv
  <1>2. RowsInv'
    BY <1>1, SameRows, BoardInvParts
  <1>3. OtherTypes'
    <2>1. overlapped' \subseteq Deals
      <3>1. r.op \in DealOps => r.deal \in Deals
        BY BoardRequestShape
      <3>2. FitsDeal(r) => r.op \in DealOps
        BY DEF FitsDeal, DealOps
      <3>3. QED
        BY <3>1, <3>2 DEF Started, BoardInv, BoardTypeOK
    <2>2. QED
      BY <1>1, <2>1 DEF OtherTypes, BoardInv, BoardTypeOK
  <1>4. NewDealAlone'
    <2> SUFFICES ASSUME NEW g \in Slots, Creates(g)'
                 PROVE  /\ card[job'[g].deal] = None /\ job'[g].status = "OPEN"
                        /\ \A k \in Slots :
                             job'[k].op \in DealOps /\ job'[k].deal = job'[g].deal => k = g
      BY <1>1 DEF NewDealAlone, Holders
    <2>1. CASE g = h
      <3>1. FitsDeal(r) /\ r.from = None /\ r.op = "place"
        BY <1>1, <2>1 DEF Creates, PlaceOps, DealOps
      <3>2. card[r.deal] = None /\ r.status = "OPEN" /\ Holders(r.deal) = {}
        <4>1. r.from = None /\ (card[r.deal] # None => r.op # "place" \/ r.from # None)
          BY <3>1 DEF FitsDeal
        <4>2. QED
          BY <3>1, <4>1 DEF FitsDeal
      <3>3. \A k \in Slots : job[k].op \in DealOps => job[k].deal # r.deal
        BY <3>2 DEF Holders
      <3>4. QED
        BY <1>1, <2>1, <3>2, <3>3
    <2>2. CASE g # h
      <3>1. Creates(g) /\ job'[g] = job[g] /\ job[g].op \in DealOps
        BY <1>1, <2>2 DEF Creates, PlaceOps, DealOps
      <3>2. /\ card[job[g].deal] = None /\ job[g].status = "OPEN"
            /\ \A k \in Slots : job[k].op \in DealOps /\ job[k].deal = job[g].deal => k = g
        BY <3>1 DEF BoardInv, NewDealAlone, Holders
      <3>3. ~(r.op \in DealOps /\ r.deal = job[g].deal)
        BY <1>1, <3>1, <3>2 DEF FitsDeal, Holders
      <3>4. QED
        BY <1>1, <3>1, <3>2, <3>3
    <2>3. QED
      BY <2>1, <2>2
  <1>5. OldDealThere'
    <2> SUFFICES ASSUME NEW g \in Slots, job'[g].op \in DealOps, ~Creates(g)'
                 PROVE  card[job'[g].deal] # None
      BY <1>1 DEF OldDealThere
    <2>1. CASE g = h
      <3>1. FitsDeal(r) /\ ~(r.op = "place" /\ r.from = None)
        BY <1>1, <2>1 DEF Creates, PlaceOps, DealOps
      <3>2. QED
        BY <1>1, <2>1, <3>1 DEF FitsDeal
    <2>2. CASE g # h
      BY <1>1, <2>2 DEF BoardInv, OldDealThere, Creates
    <2>3. QED
      BY <2>1, <2>2
  <1>6. MoveIsValid'
    <2> SUFFICES ASSUME NEW g \in Slots, Moves(g)'
                 PROVE  /\ PipelineOf[job'[g].to] = card[job'[g].deal].pipeline
                        /\ kind[job'[g].to] # "none"
                        /\ job'[g].to \notin reflagged => job'[g].status = StatusIn(job'[g].to)
      BY <1>1 DEF MoveIsValid, StatusIn
    <2>1. CASE g = h
      <3>1. FitsDeal(r) /\ r.op = "place" /\ r.from # None
        BY <1>1, <2>1 DEF Moves, PlaceOps, DealOps
      <3>2. QED
        BY <1>1, <2>1, <3>1 DEF FitsDeal
    <2>2. CASE g # h
      BY <1>1, <2>2 DEF BoardInv, MoveIsValid, Moves
    <2>3. QED
      BY <2>1, <2>2
  <1>7. NewStageAlone'
    <2> SUFFICES ASSUME NEW g \in Slots, job'[g].op = "addStage"
                 PROVE  /\ kind[job'[g].stage] = "none"
                        /\ \A k \in Slots :
                             job'[k].op = "addStage" /\ job'[k].stage = job'[g].stage => k = g
      BY <1>1 DEF NewStageAlone
    <2>1. r.op = "addStage" => /\ kind[r.stage] = "none"
                               /\ \A k \in Slots : job[k].op = "addStage" => job[k].stage # r.stage
      BY <1>1 DEF FitsStages, DealOps
    <2>2. CASE g = h
      BY <1>1, <2>1, <2>2
    <2>3. CASE g # h
      BY <1>1, <2>1, <2>3 DEF BoardInv, NewStageAlone
    <2>4. QED
      BY <2>2, <2>3
  <1>8. QED
    BY <1>2, <1>3, <1>4, <1>5, <1>6, <1>7
       DEF BoardInv, BoardTypeOK, RowsInv, RowTypes, OtherTypes

LEMMA StartKeepsOrder ==
  ASSUME BoardInv, OrderInv, NEW h \in Slots, NEW r \in Job, Started(h, r)
  PROVE  OrderInv'
  <1>1. /\ job[h].op = "idle" /\ job'[h] = r
        /\ \A g \in Slots : g # h => job'[g] = job[g]
        /\ card' = card /\ crowded' = crowded
        /\ r.op \in {"place", "assign", "delete", "addStage", "flag", "reorder", "removeStage"}
    BY StartedEffect DEF BoardInv
  <1>2. \A s : PlacingIn(s)' = PlacingIn(s)
    BY <1>1 DEF PlacingIn
  <1>3. \A s : LiveIn(s)' = LiveIn(s)
    BY <1>1 DEF LiveIn, Live
  <1>4. \A s : \A g \in PlacingIn(s) : job'[g] = job[g]
    BY <1>1 DEF PlacingIn
  <1>5. OneWriter'
    BY <1>1, <1>2 DEF OrderInv, OneWriter
  <1>6. FreshRank'
    BY <1>1, <1>2, <1>3, <1>4 DEF OrderInv, FreshRank
  <1>7. OrderIsTotal'
    BY <1>1, <1>3 DEF OrderInv, OrderIsTotal
  <1>8. QED
    BY <1>5, <1>6, <1>7 DEF OrderInv

LEMMA SameStory ==
  ASSUME LogTellsTheStory, kind' = kind, card' = card, log' = log,
         reflagged \subseteq reflagged', overlapped \subseteq overlapped'
  PROVE  LogTellsTheStory'
  BY DEF LogTellsTheStory, StatusOf

LEMMA StartKeepsLog ==
  ASSUME BoardInv, LogInv, NEW h \in Slots, NEW r \in Job, Started(h, r)
  PROVE  LogInv'
  <1>1. /\ job[h].op = "idle" /\ job'[h] = r
        /\ \A g \in Slots : g # h => job'[g] = job[g]
        /\ kind' = kind /\ card' = card /\ log' = log
        /\ reflagged' = reflagged /\ overlapped \subseteq overlapped'
        /\ r.op \in DealOps => FitsDeal(r)
    BY StartedEffect DEF BoardInv
  <1>2. r.op \in DealOps /\ r.deal \notin overlapped' => Holders(r.deal) = {}
    BY DEF Started, FitsStages, DealOps
  <1>3. OneHolder'
    <2> SUFFICES ASSUME NEW d \in Deals \ overlapped', NEW g \in Holders(d)', NEW k \in Holders(d)'
                 PROVE  g = k
      BY DEF OneHolder
    <2>1. g \in Slots /\ k \in Slots /\ d \notin overlapped
          /\ job'[g].op \in DealOps /\ job'[g].deal = d /\ job'[k].op \in DealOps /\ job'[k].deal = d
      BY <1>1 DEF Holders
    <2>2. CASE g # h /\ k # h
      BY <1>1, <2>1, <2>2 DEF LogInv, OneHolder, Holders
    <2>3. CASE g = h \/ k = h
      <3>1. Holders(d) = {}
        BY <1>1, <1>2, <2>1, <2>3
      <3>2. g = h /\ k = h
        BY <1>1, <2>1, <3>1 DEF Holders
      <3>3. QED
        BY <3>2
    <2>4. QED
      BY <2>2, <2>3
  <1>4. MoveKnowsStage'
    <2> SUFFICES ASSUME NEW g \in Slots, Moves(g)', job'[g].deal \notin overlapped'
                 PROVE  job'[g].from = card[job'[g].deal].stage
      BY <1>1 DEF MoveKnowsStage
    <2>1. CASE g = h
      BY <1>1, <2>1 DEF Moves, PlaceOps, DealOps, FitsDeal
    <2>2. CASE g # h
      BY <1>1, <2>2 DEF LogInv, MoveKnowsStage, Moves
    <2>3. QED
      BY <2>1, <2>2
  <1>5. LogTellsTheStory'
    BY <1>1, SameStory DEF LogInv
  <1>6. QED
    BY <1>3, <1>4, <1>5 DEF LogInv

-----------------------------------------------------------------------------
(* A card is placed. *)
LEMMA PlaceKeepsBoard ==
  ASSUME BoardInv, NEW h \in Slots, NEW r \in Int, NEW fits \in BOOLEAN,
         Placed(h, r, fits)
  PROVE  BoardInv'
  <1>1. /\ job' \in [Slots -> Job]
        /\ job[h].op = "place" /\ job'[h].op = "write"
        /\ job'[h].deal = job[h].deal /\ job'[h].from = job[h].from
        /\ job'[h].to = job[h].to /\ job'[h].status = job[h].status
        /\ \A g \in Slots : g # h => job'[g] = job[g]
        /\ requests' = requests /\ overlapped' = overlapped /\ reflagged' = reflagged
        /\ position' = position /\ kind' = kind /\ card' = card /\ log' = log
        /\ crowded' \subseteq Stages
    BY PlacedEffect DEF BoardInv
  <1>2. \A g \in Slots :
          /\ job'[g].op \in DealOps <=> job[g].op \in DealOps
          /\ job[g].op \in DealOps => job'[g].deal = job[g].deal
          /\ Creates(g)' <=> Creates(g)
          /\ Moves(g)' <=> Moves(g)
          /\ job'[g].op = "addStage" <=> job[g].op = "addStage"
    BY <1>1 DEF DealOps, Creates, Moves, PlaceOps
  <1>3. \A g \in Slots : Creates(g) \/ Moves(g) =>
          /\ job'[g].deal = job[g].deal /\ job'[g].to = job[g].to /\ job'[g].status = job[g].status
    BY <1>1 DEF Creates, Moves
  <1>4. RowsInv'
    BY <1>1, SameRows, BoardInvParts
  <1>5. OtherTypes'
    BY <1>1 DEF OtherTypes, BoardInv, BoardTypeOK
  <1>6. NewDealAlone'
    <2> SUFFICES ASSUME NEW g \in Slots, Creates(g)'
                 PROVE  /\ card[job'[g].deal] = None /\ job'[g].status = "OPEN"
                        /\ \A k \in Slots :
                             job'[k].op \in DealOps /\ job'[k].deal = job'[g].deal => k = g
      BY <1>1 DEF NewDealAlone, Holders
    <2>1. /\ card[job[g].deal] = None /\ job[g].status = "OPEN"
          /\ \A k \in Slots : job[k].op \in DealOps /\ job[k].deal = job[g].deal => k = g
      BY <1>2 DEF BoardInv, NewDealAlone, Holders
    <2>2. QED
      BY <1>2, <1>3, <2>1
  <1>7. OldDealThere'
    BY <1>1, <1>2 DEF BoardInv, OldDealThere
  <1>8. MoveIsValid'
    BY <1>1, <1>2, <1>3 DEF BoardInv, MoveIsValid, StatusIn
  <1>9. NewStageAlone'
    BY <1>1, <1>2 DEF BoardInv, NewStageAlone
  <1>10. QED
    BY <1>4, <1>5, <1>6, <1>7, <1>8, <1>9
       DEF BoardInv, BoardTypeOK, RowsInv, RowTypes, OtherTypes

LEMMA PlaceKeepsOrder ==
  ASSUME BoardInv, OrderInv, NEW h \in Slots, NEW r \in Int,
         NEW fits \in BOOLEAN, Placed(h, r, fits)
  PROVE  OrderInv'
  <1>1. /\ job[h].op = "place" /\ job'[h].op = "write" /\ job'[h].rank = r
        /\ job'[h].deal = job[h].deal /\ job'[h].to = job[h].to
        /\ \A g \in Slots : g # h => job'[g] = job[g]
        /\ card' = card /\ crowded \subseteq crowded'
        /\ \A s \in Stages \ crowded' : s = job[h].to => PlacingIn(s) = {} /\ FreeRank(h, r)
    BY PlacedEffect DEF BoardInv
  <1>2. \A s : LiveIn(s)' = LiveIn(s)
    BY <1>1 DEF LiveIn, Live
  <1>3. ASSUME NEW s \in Stages \ crowded'
        PROVE  /\ s = job[h].to => PlacingIn(s)' = {h}
               /\ s # job[h].to => PlacingIn(s)' = PlacingIn(s)
               /\ s # job[h].to => h \notin PlacingIn(s)
    <2>1. CASE s = job[h].to
      <3>1. \A g \in Slots : ~(job[g].op = "write" /\ job[g].to = s)
        BY <1>1, <2>1 DEF PlacingIn
      <3>2. QED
        BY <1>1, <2>1, <3>1 DEF PlacingIn
    <2>2. CASE s # job[h].to
      BY <1>1, <2>2 DEF PlacingIn
    <2>3. QED
      BY <2>1, <2>2
  <1>4. OneWriter'
    BY <1>1, <1>3 DEF OrderInv, OneWriter
  <1>5. FreshRank'
    <2> SUFFICES ASSUME NEW s \in Stages \ crowded', NEW g \in PlacingIn(s)',
                        NEW e \in LiveIn(s) \ {job'[g].deal}
                 PROVE  card[e].rank # job'[g].rank
      BY <1>1, <1>2 DEF FreshRank
    <2>1. CASE s = job[h].to
      <3>1. g = h
        BY <1>3, <2>1
      <3>2. FreeRank(h, r)
        BY <1>1, <2>1
      <3>3. QED
        BY <1>1, <2>1, <3>1, <3>2 DEF FreeRank
    <2>2. CASE s # job[h].to
      <3>1. g \in PlacingIn(s) /\ g # h /\ g \in Slots
        BY <1>3, <2>2 DEF PlacingIn
      <3>2. job'[g] = job[g]
        BY <1>1, <3>1
      <3>3. QED
        BY <1>1, <3>1, <3>2 DEF OrderInv, FreshRank
    <2>3. QED
      BY <2>1, <2>2
  <1>6. OrderIsTotal'
    BY <1>1, <1>2 DEF OrderInv, OrderIsTotal
  <1>7. QED
    BY <1>4, <1>5, <1>6 DEF OrderInv

LEMMA PlaceKeepsLog ==
  ASSUME BoardInv, LogInv, NEW h \in Slots, NEW r \in Int,
         NEW fits \in BOOLEAN, Placed(h, r, fits)
  PROVE  LogInv'
  <1>1. /\ job[h].op = "place" /\ job'[h].op = "write"
        /\ job'[h].deal = job[h].deal /\ job'[h].from = job[h].from
        /\ \A g \in Slots : g # h => job'[g] = job[g]
        /\ overlapped' = overlapped /\ reflagged' = reflagged
        /\ kind' = kind /\ card' = card /\ log' = log
    BY PlacedEffect DEF BoardInv
  <1>2. \A d : Holders(d)' = Holders(d)
    BY <1>1 DEF Holders, DealOps
  <1>3. OneHolder'
    BY <1>1, <1>2 DEF LogInv, OneHolder
  <1>4. \A g \in Slots : Moves(g)' <=> Moves(g)
    BY <1>1 DEF Moves, PlaceOps
  <1>5. MoveKnowsStage'
    BY <1>1, <1>4 DEF LogInv, MoveKnowsStage
  <1>6. LogTellsTheStory'
    BY <1>1, SameStory DEF LogInv
  <1>7. QED
    BY <1>3, <1>5, <1>6 DEF LogInv

-----------------------------------------------------------------------------
(* A request ends: what that leaves of the requests that go on. *)
LEMMA DoneEffect ==
  ASSUME BoardTypeOK, NEW h \in Slots, Finish(h)
  PROVE  /\ job' \in [Slots -> Job] /\ requests' \in 0..MaxRequests
         /\ job'[h].op = "idle"
         /\ \A g \in Slots : g # h => job'[g] = job[g]
  BY BoardIdle DEF Finish, BoardTypeOK

RowsStay ==
  \A d \in Deals : card[d] # None => card'[d] # None /\ card'[d].pipeline = card[d].pipeline
KindsStay ==
  /\ reflagged \subseteq reflagged'
  /\ \A s \in Stages : kind[s] # "none" =>
       kind'[s] # "none" /\ (s \notin reflagged' => kind'[s] = kind[s])
NewStayNew(h) ==
  \A g \in Slots : g # h =>
    /\ Creates(g) => card'[job[g].deal] = None
    /\ job[g].op = "addStage" => kind'[job[g].stage] = "none"

LEMMA RequestsStand ==
  ASSUME BoardInv, NEW h \in Slots, Finish(h),
         RowsStay, KindsStay, NewStayNew(h)
  PROVE  RequestsInv'
  <1>1. /\ job'[h].op = "idle" /\ \A g \in Slots : g # h => job'[g] = job[g]
    BY DoneEffect DEF BoardInv
  <1>2. /\ job'[h].op \notin DealOps /\ ~Creates(h)' /\ ~Moves(h)' /\ job'[h].op # "addStage"
    BY <1>1 DEF DealOps, Creates, Moves, PlaceOps
  <1>3. \A g \in Slots : g # h =>
          /\ Creates(g)' <=> Creates(g)
          /\ Moves(g)' <=> Moves(g)
    BY <1>1 DEF Creates, Moves
  <1>4. NewDealAlone'
    <2> SUFFICES ASSUME NEW g \in Slots, Creates(g)'
                 PROVE  /\ card'[job'[g].deal] = None /\ job'[g].status = "OPEN"
                        /\ \A k \in Slots :
                             job'[k].op \in DealOps /\ job'[k].deal = job'[g].deal => k = g
      BY DEF NewDealAlone, Holders
    <2>1. g # h /\ Creates(g) /\ job'[g] = job[g]
      BY <1>1, <1>2, <1>3
    <2>2. /\ job[g].status = "OPEN"
          /\ \A k \in Slots : job[k].op \in DealOps /\ job[k].deal = job[g].deal => k = g
      BY <2>1 DEF BoardInv, NewDealAlone, Holders
    <2>3. card'[job[g].deal] = None
      BY <2>1 DEF NewStayNew
    <2>4. QED
      BY <1>1, <1>2, <2>1, <2>2, <2>3
  <1>5. OldDealThere'
    <2> SUFFICES ASSUME NEW g \in Slots, job'[g].op \in DealOps, ~Creates(g)'
                 PROVE  card'[job'[g].deal] # None
      BY DEF OldDealThere
    <2>1. g # h /\ ~Creates(g) /\ job'[g] = job[g] /\ job[g].op \in DealOps
      BY <1>1, <1>2, <1>3
    <2>2. card[job[g].deal] # None
      BY <2>1 DEF BoardInv, OldDealThere
    <2>3. job[g].deal \in Deals
      BY <2>1, BoardRequestAt, BoardRequestShape DEF BoardInv
    <2>4. QED
      BY <2>1, <2>2, <2>3 DEF RowsStay
  <1>6. MoveIsValid'
    <2> SUFFICES ASSUME NEW g \in Slots, Moves(g)'
                 PROVE  /\ PipelineOf[job'[g].to] = card'[job'[g].deal].pipeline
                        /\ kind'[job'[g].to] # "none"
                        /\ \A t : t = job'[g].to /\ t \notin reflagged' =>
                                   job'[g].status = StatusIn(t)'
      BY DEF MoveIsValid, StatusIn
    <2>1. g # h /\ Moves(g) /\ job'[g] = job[g]
      BY <1>1, <1>2, <1>3
    <2>2. /\ PipelineOf[job[g].to] = card[job[g].deal].pipeline
          /\ kind[job[g].to] # "none"
          /\ job[g].to \notin reflagged => job[g].status = StatusIn(job[g].to)
      BY <2>1 DEF BoardInv, MoveIsValid
    <2>3. job[g].op \in DealOps /\ ~Creates(g) /\ job[g].op \in PlaceOps
      BY <2>1 DEF Moves, Creates, DealOps, PlaceOps
    <2>4. job[g].deal \in Deals /\ job[g].to \in Stages
      BY <2>3, BoardRequestAt, BoardRequestShape DEF BoardInv
    <2>5. card[job[g].deal] # None
      BY <2>3 DEF BoardInv, OldDealThere
    <2>6. card'[job[g].deal].pipeline = card[job[g].deal].pipeline
      BY <2>4, <2>5 DEF RowsStay
    <2>7. /\ kind'[job[g].to] # "none"
          /\ job[g].to \notin reflagged' => /\ kind'[job[g].to] = kind[job[g].to]
                                            /\ job[g].to \notin reflagged
      BY <2>2, <2>4 DEF KindsStay
    <2>8. QED
      BY <2>1, <2>2, <2>6, <2>7 DEF StatusIn
  <1>7. NewStageAlone'
    <2> SUFFICES ASSUME NEW g \in Slots, job'[g].op = "addStage"
                 PROVE  /\ kind'[job'[g].stage] = "none"
                        /\ \A k \in Slots :
                             job'[k].op = "addStage" /\ job'[k].stage = job'[g].stage => k = g
      BY DEF NewStageAlone
    <2>1. g # h /\ job'[g] = job[g] /\ job[g].op = "addStage"
      BY <1>1, <1>2
    <2>2. \A k \in Slots : job[k].op = "addStage" /\ job[k].stage = job[g].stage => k = g
      BY <2>1 DEF BoardInv, NewStageAlone
    <2>3. kind'[job[g].stage] = "none"
      BY <2>1 DEF NewStayNew
    <2>4. QED
      BY <1>1, <1>2, <2>1, <2>2, <2>3
  <1>8. QED
    BY <1>4, <1>5, <1>6, <1>7 DEF RequestsInv

LEMMA BoardStands ==
  ASSUME BoardInv, NEW h \in Slots, Finish(h),
         RowsStay, KindsStay, NewStayNew(h), RowsInv',
         overlapped' = overlapped, crowded' = crowded, reflagged' \subseteq Stages
  PROVE  BoardInv'
  <1>1. RequestsInv'
    BY RequestsStand
  <1>2. OtherTypes'
    BY DoneEffect DEF OtherTypes, BoardInv, BoardTypeOK
  <1>3. QED
    BY <1>1, <1>2 DEF BoardInv, BoardTypeOK, RowsInv, RowTypes, RequestsInv, OtherTypes

(* Cards may leave a column; then nobody in it gets another rank. *)
ColumnsShrink ==
  \A s \in Stages : \A e \in Deals : e \in LiveIn(s)' =>
    e \in LiveIn(s) /\ card'[e].rank = card[e].rank

LEMMA OrderStands ==
  ASSUME BoardInv, OrderInv, NEW h \in Slots, Finish(h), ColumnsShrink, crowded' = crowded
  PROVE  OrderInv'
  <1>1. job'[h].op = "idle" /\ \A g \in Slots : g # h => job'[g] = job[g]
    BY DoneEffect DEF BoardInv
  <1>2. \A s : \A g \in PlacingIn(s)' : g \in PlacingIn(s) /\ job'[g] = job[g]
    BY <1>1 DEF PlacingIn
  <1>3. \A s \in Stages : \A e \in LiveIn(s)' : e \in LiveIn(s) /\ card'[e].rank = card[e].rank
    <2>1. \A s : LiveIn(s)' \subseteq Deals
      BY DEF LiveIn
    <2>2. QED
      BY <2>1 DEF ColumnsShrink
  <1>4. OneWriter'
    BY <1>2 DEF OrderInv, OneWriter
  <1>5. FreshRank'
    <2> SUFFICES ASSUME NEW s \in Stages \ crowded, NEW g \in PlacingIn(s)',
                        NEW e \in LiveIn(s)' \ {job'[g].deal}
                 PROVE  card'[e].rank # job'[g].rank
      BY DEF FreshRank
    <2>1. g \in PlacingIn(s) /\ job'[g] = job[g] /\ e \in LiveIn(s) /\ card'[e].rank = card[e].rank
      BY <1>2, <1>3
    <2>2. QED
      BY <2>1 DEF OrderInv, FreshRank
  <1>6. OrderIsTotal'
    <2> SUFFICES ASSUME NEW s \in Stages \ crowded, NEW e \in LiveIn(s)', NEW f \in LiveIn(s)',
                        card'[e].rank = card'[f].rank
                 PROVE  e = f
      BY DEF OrderIsTotal
    <2>1. e \in LiveIn(s) /\ card'[e].rank = card[e].rank
          /\ f \in LiveIn(s) /\ card'[f].rank = card[f].rank
      BY <1>3
    <2>2. QED
      BY <2>1 DEF OrderInv, OrderIsTotal
  <1>7. QED
    BY <1>4, <1>5, <1>6 DEF OrderInv

(* The one card that the column waits for arrives with the rank it was given. *)
CardArrives(h) ==
  /\ job[h].op = "write"
  /\ \A e \in Deals : e # job[h].deal => card'[e] = card[e]
  /\ card'[job[h].deal].stage = job[h].to /\ card'[job[h].deal].rank = job[h].rank

LEMMA OrderArrives ==
  ASSUME BoardInv, OrderInv, NEW h \in Slots, Finish(h), CardArrives(h), crowded' = crowded
  PROVE  OrderInv'
  <1> DEFINE q == job[h]
             d == q.deal
  <1>1. job'[h].op = "idle" /\ \A g \in Slots : g # h => job'[g] = job[g]
    BY DoneEffect DEF BoardInv
  <1>2. \A s : \A g \in PlacingIn(s)' : g \in PlacingIn(s) /\ job'[g] = job[g] /\ g # h
    BY <1>1 DEF PlacingIn
  <1>3. h \in PlacingIn(q.to) /\ q.to \in Stages
    BY BoardRequestAt, BoardRequestShape DEF CardArrives, PlacingIn, BoardInv, PlaceOps
  <1>4. ASSUME NEW s, NEW e \in LiveIn(s)', e # d
        PROVE  e \in LiveIn(s) /\ card'[e].rank = card[e].rank
    <2>1. e \in Deals /\ card'[e] = card[e]
      BY <1>4 DEF LiveIn, CardArrives
    <2>2. QED
      BY <1>4, <2>1 DEF LiveIn, Live
  <1>5. ASSUME NEW s, d \in LiveIn(s)'
        PROVE  s = q.to /\ card'[d].rank = q.rank
    BY <1>5 DEF LiveIn, Live, CardArrives
  <1>6. OneWriter'
    BY <1>2 DEF OrderInv, OneWriter
  <1>7. FreshRank'
    <2> SUFFICES ASSUME NEW s \in Stages \ crowded, NEW g \in PlacingIn(s)',
                        NEW e \in LiveIn(s)' \ {job'[g].deal}
                 PROVE  card'[e].rank # job'[g].rank
      BY DEF FreshRank
    <2>1. g \in PlacingIn(s) /\ job'[g] = job[g] /\ g # h
      BY <1>2
    <2>2. s # q.to
      BY <1>3, <2>1 DEF OrderInv, OneWriter
    <2>3. e # d
      BY <1>5, <2>2
    <2>4. e \in LiveIn(s) /\ card'[e].rank = card[e].rank
      BY <1>4, <2>3
    <2>5. QED
      BY <2>1, <2>4 DEF OrderInv, FreshRank
  <1>8. OrderIsTotal'
    <2>1. ASSUME NEW s \in Stages \ crowded, NEW e \in LiveIn(s)', e # d, d \in LiveIn(s)'
          PROVE  card'[e].rank # card'[d].rank
      <3>1. s = q.to /\ card'[d].rank = q.rank
        BY <1>5, <2>1
      <3>2. e \in LiveIn(s) \ {d} /\ card'[e].rank = card[e].rank
        BY <1>4, <2>1
      <3>3. card[e].rank # q.rank
        BY <1>3, <3>1, <3>2 DEF OrderInv, FreshRank
      <3>4. QED
        BY <3>1, <3>2, <3>3
    <2> SUFFICES ASSUME NEW s \in Stages \ crowded, NEW e \in LiveIn(s)', NEW f \in LiveIn(s)',
                        card'[e].rank = card'[f].rank
                 PROVE  e = f
      BY DEF OrderIsTotal
    <2>2. CASE e # d /\ f # d
      BY <1>4, <2>2 DEF OrderInv, OrderIsTotal
    <2>3. CASE e = d \/ f = d
      BY <2>1, <2>3
    <2>4. QED
      BY <2>2, <2>3
  <1>9. QED
    BY <1>6, <1>7, <1>8 DEF OrderInv

(* What is logged of a deal stays true while nobody moves it. *)
DealsRest ==
  \A d \in Deals : card'[d] # None =>
    card[d] # None /\ card'[d].stage = card[d].stage /\ card'[d].status = card[d].status

LEMMA HoldersStand ==
  ASSUME BoardInv, LogInv, NEW h \in Slots, Finish(h), overlapped' = overlapped
  PROVE  OneHolder'
  <1>1. job'[h].op = "idle" /\ \A g \in Slots : g # h => job'[g] = job[g]
    BY DoneEffect DEF BoardInv
  <1>2. \A d : Holders(d)' \subseteq Holders(d)
    BY <1>1 DEF Holders, DealOps
  <1>3. QED
    BY <1>2 DEF LogInv, OneHolder

LEMMA MovesStand ==
  ASSUME BoardInv, NEW h \in Slots, Finish(h), NEW g \in Slots, Moves(g)'
  PROVE  /\ g # h /\ job'[g] = job[g] /\ Moves(g)
         /\ job[g].deal \in Deals /\ card[job[g].deal] # None
         /\ job[g].op \in DealOps
  <1>1. job'[h].op = "idle" /\ \A k \in Slots : k # h => job'[k] = job[k]
    BY DoneEffect DEF BoardInv
  <1>2. g # h /\ job'[g] = job[g] /\ Moves(g)
    BY <1>1 DEF Moves, PlaceOps
  <1>3. job[g].op \in DealOps /\ ~Creates(g)
    BY <1>2 DEF Moves, PlaceOps, DealOps, Creates
  <1>4. QED
    BY <1>2, <1>3, BoardRequestAt, BoardRequestShape DEF BoardInv, OldDealThere

LEMMA LogStands ==
  ASSUME BoardInv, LogInv, NEW h \in Slots, Finish(h), RowsStay, DealsRest,
         KindsStay, log' = log, overlapped' = overlapped
  PROVE  LogInv'
  <1>1. OneHolder'
    BY HoldersStand
  <1>2. MoveKnowsStage'
    <2> SUFFICES ASSUME NEW g \in Slots, Moves(g)', job'[g].deal \notin overlapped
                 PROVE  job'[g].from = card'[job'[g].deal].stage
      BY DEF MoveKnowsStage
    <2>1. job'[g] = job[g] /\ Moves(g) /\ job[g].deal \in Deals /\ card[job[g].deal] # None
      BY MovesStand
    <2>2. card'[job[g].deal].stage = card[job[g].deal].stage
      BY <2>1 DEF RowsStay, DealsRest
    <2>3. QED
      BY <2>1, <2>2 DEF LogInv, MoveKnowsStage
  <1>3. LogTellsTheStory'
    <2> SUFFICES ASSUME NEW d \in Deals, card'[d] # None
                 PROVE  /\ log[d] # <<>> => log[d][Len(log[d])].to = card'[d].stage
                        /\ card'[d].stage \notin reflagged' => card'[d].status = StatusOf(d)'
                        /\ d \notin overlapped =>
                             \A i \in 2..Len(log[d]) : log[d][i].from = log[d][i - 1].to
      BY DEF LogTellsTheStory
    <2>1. card[d] # None /\ card'[d].stage = card[d].stage /\ card'[d].status = card[d].status
      BY DEF DealsRest
    <2>2. /\ log[d] # <<>> => log[d][Len(log[d])].to = card[d].stage
          /\ card[d].stage \notin reflagged => card[d].status = StatusOf(d)
          /\ d \notin overlapped =>
               \A i \in 2..Len(log[d]) : log[d][i].from = log[d][i - 1].to
      BY <2>1 DEF LogInv, LogTellsTheStory
    <2>3. card[d].stage \in Stages /\ kind[card[d].stage] # "none"
      <3>1. card[d] \in Row /\ Exists(card[d].stage)
        BY <2>1, BoardRowAt DEF BoardInv, BoardTypeOK
      <3>2. QED
        BY <3>1, BoardRowShape DEF BoardInv, KnownKinds
    <2>4. card[d].stage \notin reflagged' =>
            card[d].stage \notin reflagged /\ kind'[card[d].stage] = kind[card[d].stage]
      BY <2>3 DEF KindsStay
    <2>5. card[d].stage \notin reflagged' => StatusOf(d)' = StatusOf(d)
      BY <2>1, <2>4 DEF StatusOf
    <2>6. QED
      BY <2>1, <2>2, <2>4, <2>5
  <1>4. QED
    BY <1>1, <1>2, <1>3 DEF LogInv

-----------------------------------------------------------------------------
(* A deal is written. *)
LEMMA DealWritten ==
  ASSUME RowsInv, NEW d \in Deals, card' \in [Deals -> Row \cup {None}],
         \A e \in Deals : e # d => card'[e] = card[e],
         card'[d] # None,
         Exists(card'[d].stage), PipelineOf[card'[d].stage] = card'[d].pipeline,
         position' = position, kind' = kind,
         log' \in [Deals -> Seq([from : Stages, to : Stages])],
         \A e \in Deals : e # d => log'[e] = log[e]
  PROVE  RowsInv'
  <1>1. \A s : Exists(s)' <=> Exists(s)
    BY DEF Exists
  <1>2. \A p : StagesIn(p)' = StagesIn(p)
    BY <1>1 DEF StagesIn
  <1>3. IsFiniteSet({e \in Deals : card'[e] # None})
    <2>1. {e \in Deals : card'[e] # None} \subseteq {e \in Deals : card[e] # None} \cup {d}
      OBVIOUS
    <2>2. IsFiniteSet({e \in Deals : card[e] # None})
      BY DEF RowsInv, FiniteRows
    <2>3. IsFiniteSet({e \in Deals : card[e] # None} \cup {d})
      BY <2>2, FS_AddElement
    <2>4. QED
      BY <2>1, <2>3, FS_Subset
  <1>4. FiniteRows'
    BY <1>2, <1>3 DEF RowsInv, FiniteRows
  <1>5. \A e \in Deals : card'[e] # None =>
          position'[card'[e].stage] # None /\ PipelineOf[card'[e].stage] = card'[e].pipeline
    BY DEF RowsInv, RowTypes, Exists
  <1>6. RowTypes'
    BY <1>5 DEF RowsInv, RowTypes, Exists
  <1>7. KnownKinds'
    BY DEF RowsInv, KnownKinds, Exists
  <1>8. EmptyLogs'
    BY DEF RowsInv, EmptyLogs
  <1>9. QED
    BY <1>4, <1>6, <1>7, <1>8 DEF RowsInv

LEMMA KindsRest ==
  ASSUME kind' = kind, reflagged' = reflagged
  PROVE  KindsStay
  BY DEF KindsStay

(* A new deal is known to one request only, so no other one is taken by surprise. *)
LEMMA OthersStayNew ==
  ASSUME BoardInv, NEW h \in Slots, job[h].op \in DealOps, kind' = kind,
         \A e \in Deals : e # job[h].deal => card'[e] = card[e]
  PROVE  NewStayNew(h)
  <1>1. ASSUME NEW g \in Slots, g # h, Creates(g) PROVE card'[job[g].deal] = None
    <2>1. card[job[g].deal] = None
          /\ \A k \in Slots : job[k].op \in DealOps /\ job[k].deal = job[g].deal => k = g
      BY <1>1 DEF BoardInv, NewDealAlone, Holders
    <2>2. job[g].deal \in Deals
      BY <1>1, BoardRequestAt, BoardRequestShape DEF BoardInv, Creates, PlaceOps, DealOps
    <2>3. job[g].deal # job[h].deal
      BY <1>1, <2>1
    <2>4. QED
      BY <2>1, <2>2, <2>3
  <1>2. ASSUME NEW g \in Slots, job[g].op = "addStage" PROVE kind'[job[g].stage] = "none"
    BY <1>2 DEF BoardInv, NewStageAlone
  <1>3. QED
    BY <1>1, <1>2 DEF NewStayNew

LEMMA InsertEffect ==
  ASSUME BoardInv, NEW h \in Slots, InsertDeal(h)
  PROVE  LET q == job[h]
         IN  /\ Creates(h) /\ q.op = "write" /\ q.op \in DealOps
             /\ q.deal \in Deals /\ q.to \in Stages /\ Exists(q.to)
             /\ card[q.deal] = None /\ q.status = "OPEN" /\ log[q.deal] = <<>>
             /\ card' \in [Deals -> Row \cup {None}]
             /\ \A e \in Deals : e # q.deal => card'[e] = card[e]
             /\ card'[q.deal] # None
             /\ card'[q.deal].stage = q.to /\ card'[q.deal].pipeline = PipelineOf[q.to]
             /\ card'[q.deal].rank = q.rank /\ card'[q.deal].status = "OPEN"
             /\ Finish(h) /\ position' = position /\ kind' = kind /\ log' = log
             /\ overlapped' = overlapped /\ crowded' = crowded /\ reflagged' = reflagged
  <1> DEFINE q   == job[h]
             d   == q.deal
             row == [stage |-> q.to, pipeline |-> PipelineOf[q.to], rank |-> q.rank,
                     status |-> q.status, owner |-> q.by, live |-> TRUE]
  <1>1. /\ q.op = "write" /\ q.from = None /\ Exists(q.to) /\ Finish(h)
        /\ card' = [card EXCEPT ![d] = row]
        /\ position' = position /\ kind' = kind /\ log' = log
        /\ overlapped' = overlapped /\ crowded' = crowded /\ reflagged' = reflagged
    BY DEF InsertDeal, history
  <1>2. Creates(h) /\ q.op \in DealOps /\ q.op \in PlaceOps
    BY <1>1 DEF Creates, PlaceOps, DealOps
  <1>3. /\ d \in Deals /\ q.to \in Stages /\ q.rank \in Int /\ q.status \in DealStatus
        /\ q.by \in Users
    BY <1>1, <1>2, BoardRequestAt, BoardRequestShape DEF BoardInv
  <1>4. card[d] = None /\ q.status = "OPEN" /\ log[d] = <<>>
    BY <1>2, <1>3 DEF BoardInv, NewDealAlone, EmptyLogs
  <1>5. row \in Row
    BY <1>3, StagesAssumption DEF Row
  <1>6. row # None
    BY <1>5, BoardRowShape
  <1>7. /\ card' \in [Deals -> Row \cup {None}] /\ card'[d] = row
        /\ \A e \in Deals : e # d => card'[e] = card[e]
    BY <1>1, <1>3, <1>5 DEF BoardInv, BoardTypeOK
  <1>8. QED
    BY <1>1, <1>2, <1>3, <1>4, <1>6, <1>7

LEMMA InsertKeeps ==
  ASSUME BoardInv, NEW h \in Slots, InsertDeal(h)
  PROVE  BoardInv' /\ (OrderInv => OrderInv') /\ (LogInv => LogInv')
  <1> DEFINE q == job[h]
             d == q.deal
  <1>1. /\ Creates(h) /\ q.op = "write" /\ q.op \in DealOps
        /\ d \in Deals /\ q.to \in Stages /\ Exists(q.to)
        /\ card[d] = None /\ q.status = "OPEN" /\ log[d] = <<>>
        /\ card' \in [Deals -> Row \cup {None}]
        /\ \A e \in Deals : e # d => card'[e] = card[e]
        /\ card'[d] # None /\ card'[d].stage = q.to /\ card'[d].pipeline = PipelineOf[q.to]
        /\ card'[d].rank = q.rank /\ card'[d].status = "OPEN"
        /\ Finish(h) /\ position' = position /\ kind' = kind /\ log' = log
        /\ overlapped' = overlapped /\ crowded' = crowded /\ reflagged' = reflagged
    BY InsertEffect
  <1>2. RowsInv'
    <2>1. RowsInv
      BY BoardInvParts
    <2>2. log' \in [Deals -> Seq([from : Stages, to : Stages])]
      BY <1>1 DEF BoardInv, BoardTypeOK
    <2>3. QED
      BY <1>1, <2>1, <2>2, DealWritten
  <1>3. RowsStay
    BY <1>1 DEF RowsStay
  <1>4. BoardInv'
    <2>1. NewStayNew(h)
      BY <1>1, OthersStayNew
    <2>2. reflagged' \subseteq Stages
      BY <1>1 DEF BoardInv, BoardTypeOK
    <2>3. QED
      BY <1>1, <1>2, <1>3, <2>1, <2>2, KindsRest, BoardStands
  <1>5. ASSUME OrderInv PROVE OrderInv'
    <2>1. CardArrives(h)
      BY <1>1 DEF CardArrives
    <2>2. QED
      BY <1>1, <1>5, <2>1, OrderArrives
  <1>6. ASSUME LogInv PROVE LogInv'
    <2>1. OneHolder'
      BY <1>1, <1>6, HoldersStand
    <2>2. MoveKnowsStage'
      <3> SUFFICES ASSUME NEW g \in Slots, Moves(g)', job'[g].deal \notin overlapped
                   PROVE  job'[g].from = card'[job'[g].deal].stage
        BY <1>1 DEF MoveKnowsStage
      <3>1. job'[g] = job[g] /\ Moves(g) /\ job[g].deal \in Deals /\ card[job[g].deal] # None
        BY <1>1, MovesStand
      <3>2. card'[job[g].deal] = card[job[g].deal]
        BY <1>1, <3>1
      <3>3. QED
        BY <1>6, <3>1, <3>2 DEF LogInv, MoveKnowsStage
    <2>3. LogTellsTheStory'
      <3> SUFFICES ASSUME NEW e \in Deals, card'[e] # None
                   PROVE  /\ log[e] # <<>> => log[e][Len(log[e])].to = card'[e].stage
                          /\ card'[e].stage \notin reflagged => card'[e].status = StatusOf(e)'
                          /\ e \notin overlapped =>
                               \A i \in 2..Len(log[e]) : log[e][i].from = log[e][i - 1].to
        BY <1>1 DEF LogTellsTheStory
      <3>1. CASE e = d
        <4>1. StatusOf(e)' = "OPEN"
          BY <1>1, <3>1 DEF StatusOf
        <4>2. 2..Len(log[e]) = {}
          BY <1>1, <3>1
        <4>3. QED
          BY <1>1, <3>1, <4>1, <4>2
      <3>2. CASE e # d
        <4>1. card'[e] = card[e] /\ StatusOf(e)' = StatusOf(e)
          BY <1>1, <3>2 DEF StatusOf
        <4>2. QED
          BY <1>6, <4>1 DEF LogInv, LogTellsTheStory
      <3>3. QED
        BY <3>1, <3>2
    <2>4. QED
      BY <2>1, <2>2, <2>3 DEF LogInv
  <1>7. QED
    BY <1>4, <1>5, <1>6

LEMMA MoveEffect ==
  ASSUME BoardInv, NEW h \in Slots, ApplyMove(h)
  PROVE  LET q == job[h]
         IN  /\ Moves(h) /\ q.op = "write" /\ q.op \in DealOps
             /\ q.deal \in Deals /\ q.to \in Stages /\ q.from \in Stages /\ Exists(q.to)
             /\ card[q.deal] # None
             /\ card' \in [Deals -> Row \cup {None}]
             /\ \A e \in Deals : e # q.deal => card'[e] = card[e]
             /\ card'[q.deal] # None
             /\ card'[q.deal].stage = q.to /\ card'[q.deal].pipeline = card[q.deal].pipeline
             /\ card'[q.deal].rank = q.rank /\ card'[q.deal].status = q.status
             /\ log' \in [Deals -> Seq([from : Stages, to : Stages])]
             /\ \A e \in Deals : e # q.deal => log'[e] = log[e]
             /\ log'[q.deal] = Append(log[q.deal], [from |-> q.from, to |-> q.to])
             /\ Finish(h) /\ position' = position /\ kind' = kind
             /\ overlapped' = overlapped /\ crowded' = crowded /\ reflagged' = reflagged
  <1> DEFINE q == job[h]
             d == q.deal
             entry == [from |-> q.from, to |-> q.to]
  <1>1. /\ q.op = "write" /\ q.from # None /\ Exists(q.to) /\ Finish(h)
        /\ card' = [card EXCEPT ![d].stage = q.to, ![d].rank = q.rank, ![d].status = q.status]
        /\ log' = [log EXCEPT ![d] = Append(log[d], entry)]
        /\ position' = position /\ kind' = kind
        /\ overlapped' = overlapped /\ crowded' = crowded /\ reflagged' = reflagged
    BY DEF ApplyMove, LoggedFrom, history
  <1>2. Moves(h) /\ ~Creates(h) /\ q.op \in DealOps /\ q.op \in PlaceOps
    BY <1>1 DEF Moves, Creates, PlaceOps, DealOps
  <1>3. /\ d \in Deals /\ q.to \in Stages /\ q.from \in Stages /\ q.rank \in Int
        /\ q.status \in DealStatus
    BY <1>1, <1>2, BoardRequestAt, BoardRequestShape DEF BoardInv
  <1>4. card[d] # None
    BY <1>2 DEF BoardInv, OldDealThere
  <1>5. card[d] \in Row
    BY <1>3, <1>4, BoardRowAt DEF BoardInv
  <1>6. card \in [Deals -> Row \cup {None}]
        /\ log \in [Deals -> Seq([from : Stages, to : Stages])]
    BY DEF BoardInv, BoardTypeOK
  <1>7. /\ \A e \in Deals : e # d => card'[e] = card[e]
        /\ card'[d] \in Row /\ card'[d].stage = q.to /\ card'[d].pipeline = card[d].pipeline
        /\ card'[d].rank = q.rank /\ card'[d].status = q.status
        /\ card' \in [Deals -> Row \cup {None}]
    BY <1>1, <1>3, <1>5, <1>6 DEF Row
  <1>8. card'[d] # None
    BY <1>7, BoardRowShape
  <1>9. /\ log' \in [Deals -> Seq([from : Stages, to : Stages])]
        /\ \A e \in Deals : e # d => log'[e] = log[e]
        /\ log'[d] = Append(log[d], entry)
    <2>1. entry \in [from : Stages, to : Stages]
      BY <1>3
    <2>2. log[d] \in Seq([from : Stages, to : Stages])
      BY <1>3, <1>6
    <2>3. Append(log[d], entry) \in Seq([from : Stages, to : Stages])
      BY <2>1, <2>2
    <2>4. QED
      BY <1>1, <1>3, <1>6, <2>3
  <1>10. QED
    BY <1>1, <1>2, <1>3, <1>4, <1>7, <1>8, <1>9

(* An entry is added to a log: the ones before it stay. *)
LEMMA Entries ==
  ASSUME NEW T, NEW list \in Seq(T), NEW x \in T
  PROVE  /\ Len(list) \in Nat
         /\ Append(list, x) # <<>>
         /\ Len(Append(list, x)) = Len(list) + 1
         /\ Append(list, x)[Len(list) + 1] = x
         /\ \A i \in 1..Len(list) : Append(list, x)[i] = list[i]
         /\ Len(list) > 0 => list # <<>>
  OBVIOUS

LEMMA MoveKeeps ==
  ASSUME BoardInv, NEW h \in Slots, ApplyMove(h)
  PROVE  BoardInv' /\ (OrderInv => OrderInv') /\ (LogInv => LogInv')
  <1> DEFINE q == job[h]
             d == q.deal
             entry == [from |-> q.from, to |-> q.to]
  <1>1. /\ Moves(h) /\ q.op = "write" /\ q.op \in DealOps
        /\ d \in Deals /\ q.to \in Stages /\ q.from \in Stages /\ Exists(q.to)
        /\ card[d] # None
        /\ card' \in [Deals -> Row \cup {None}]
        /\ \A e \in Deals : e # d => card'[e] = card[e]
        /\ card'[d] # None /\ card'[d].stage = q.to /\ card'[d].pipeline = card[d].pipeline
        /\ card'[d].rank = q.rank /\ card'[d].status = q.status
        /\ log' \in [Deals -> Seq([from : Stages, to : Stages])]
        /\ \A e \in Deals : e # d => log'[e] = log[e]
        /\ log'[d] = Append(log[d], entry)
        /\ Finish(h) /\ position' = position /\ kind' = kind
        /\ overlapped' = overlapped /\ crowded' = crowded /\ reflagged' = reflagged
    BY MoveEffect
  <1>2. /\ PipelineOf[q.to] = card[d].pipeline
        /\ q.to \notin reflagged => q.status = StatusIn(q.to)
    BY <1>1 DEF BoardInv, MoveIsValid
  <1>3. RowsInv'
    <2>1. RowsInv
      BY BoardInvParts
    <2>2. QED
      BY <1>1, <1>2, <2>1, DealWritten
  <1>4. RowsStay
    BY <1>1 DEF RowsStay
  <1>5. BoardInv'
    <2>1. NewStayNew(h)
      BY <1>1, OthersStayNew
    <2>2. reflagged' \subseteq Stages
      BY <1>1 DEF BoardInv, BoardTypeOK
    <2>3. QED
      BY <1>1, <1>3, <1>4, <2>1, <2>2, KindsRest, BoardStands
  <1>6. ASSUME OrderInv PROVE OrderInv'
    <2>1. CardArrives(h)
      BY <1>1 DEF CardArrives
    <2>2. QED
      BY <1>1, <1>6, <2>1, OrderArrives
  <1>7. ASSUME LogInv PROVE LogInv'
    <2>1. OneHolder'
      BY <1>1, <1>7, HoldersStand
    <2>2. MoveKnowsStage'
      <3> SUFFICES ASSUME NEW g \in Slots, Moves(g)', job'[g].deal \notin overlapped
                   PROVE  job'[g].from = card'[job'[g].deal].stage
        BY <1>1 DEF MoveKnowsStage
      <3>1. g # h /\ job'[g] = job[g] /\ Moves(g) /\ job[g].deal \in Deals
            /\ job[g].op \in DealOps
        BY <1>1, MovesStand
      <3>2. job[g].deal # d
        BY <1>1, <1>7, <3>1 DEF LogInv, OneHolder, Holders
      <3>3. card'[job[g].deal] = card[job[g].deal]
        BY <1>1, <3>1, <3>2
      <3>4. QED
        BY <1>7, <3>1, <3>3 DEF LogInv, MoveKnowsStage
    <2>3. LogTellsTheStory'
      <3> SUFFICES ASSUME NEW e \in Deals, card'[e] # None
                   PROVE  /\ log'[e] # <<>> => log'[e][Len(log'[e])].to = card'[e].stage
                          /\ card'[e].stage \notin reflagged => card'[e].status = StatusOf(e)'
                          /\ e \notin overlapped =>
                               \A i \in 2..Len(log'[e]) : log'[e][i].from = log'[e][i - 1].to
        BY <1>1 DEF LogTellsTheStory
      <3>1. CASE e = d
        <4>1. /\ log[d] \in Seq([from : Stages, to : Stages])
              /\ entry \in [from : Stages, to : Stages]
          BY <1>1 DEF BoardInv, BoardTypeOK
        <4>2. /\ Len(log[d]) \in Nat /\ log'[d] # <<>> /\ Len(log'[d]) = Len(log[d]) + 1
              /\ log'[d][Len(log[d]) + 1] = entry
              /\ \A i \in 1..Len(log[d]) : log'[d][i] = log[d][i]
              /\ Len(log[d]) > 0 => log[d] # <<>>
          <5>1. /\ Len(log[d]) \in Nat
                /\ Append(log[d], entry) # <<>>
                /\ Len(Append(log[d], entry)) = Len(log[d]) + 1
                /\ Append(log[d], entry)[Len(log[d]) + 1] = entry
                /\ \A i \in 1..Len(log[d]) : Append(log[d], entry)[i] = log[d][i]
                /\ Len(log[d]) > 0 => log[d] # <<>>
            <6>1. PICK T : T = [from : Stages, to : Stages]
              OBVIOUS
            <6>2. log[d] \in Seq(T) /\ entry \in T
              BY <4>1, <6>1
            <6>3. QED
              BY <6>2, Entries
          <5>2. QED
            BY <1>1, <5>1
        <4>3. log'[d][Len(log'[d])].to = card'[d].stage
          BY <1>1, <4>2
        <4>4. ASSUME q.to \notin reflagged PROVE card'[e].status = StatusOf(e)'
          <5>1. kind[q.to] \in Kind
            BY <1>1 DEF BoardInv, BoardTypeOK, KnownKinds
          <5>2. card'[e].status = StatusIn(q.to)
            BY <1>1, <1>2, <3>1, <4>4
          <5>3. StatusOf(e)' = IF kind[q.to] = "open" THEN "OPEN"
                               ELSE IF kind[q.to] = "won" THEN "WON" ELSE "LOST"
            BY <1>1, <3>1, <4>2 DEF StatusOf
          <5>4. QED
            BY <5>1, <5>2, <5>3 DEF StatusIn, Kind
        <4>5. ASSUME d \notin overlapped, NEW i \in 2..Len(log'[d])
              PROVE  log'[d][i].from = log'[d][i - 1].to
          <5>1. CASE i \in 2..Len(log[d])
            <6>1. i \in 1..Len(log[d]) /\ i - 1 \in 1..Len(log[d])
              BY <4>2, <5>1
            <6>2. log[d][i].from = log[d][i - 1].to
              BY <1>1, <1>7, <4>5, <5>1 DEF LogInv, LogTellsTheStory
            <6>3. QED
              BY <4>2, <6>1, <6>2
          <5>2. CASE i \notin 2..Len(log[d])
            <6>1. i = Len(log[d]) + 1 /\ Len(log[d]) > 0 /\ i - 1 = Len(log[d])
                  /\ i - 1 \in 1..Len(log[d])
              BY <4>2, <5>2
            <6>2. log[d][Len(log[d])].to = card[d].stage
              BY <1>1, <1>7, <4>2, <6>1 DEF LogInv, LogTellsTheStory
            <6>3. q.from = card[d].stage
              BY <1>1, <1>7, <4>5 DEF LogInv, MoveKnowsStage
            <6>4. log'[d][i] = entry /\ log'[d][i - 1] = log[d][Len(log[d])]
              BY <4>2, <6>1
            <6>5. entry.from = q.from
              OBVIOUS
            <6>6. QED
              BY <6>2, <6>3, <6>4, <6>5
          <5>3. QED
            BY <5>1, <5>2
        <4>6. QED
          BY <1>1, <3>1, <4>3, <4>4, <4>5
      <3>2. CASE e # d
        <4>1. card'[e] = card[e] /\ log'[e] = log[e] /\ StatusOf(e)' = StatusOf(e)
          BY <1>1, <3>2 DEF StatusOf
        <4>2. QED
          BY <1>7, <4>1 DEF LogInv, LogTellsTheStory
      <3>3. QED
        BY <3>1, <3>2
    <2>4. QED
      BY <2>1, <2>2, <2>3 DEF LogInv
  <1>8. QED
    BY <1>5, <1>6, <1>7

(* The row of a deal is changed in what neither the board nor the log shows,
   or leaves the board. *)
RowTouched(d) ==
  /\ card' \in [Deals -> Row \cup {None}]
  /\ \A e \in Deals : e # d => card'[e] = card[e]
  /\ card'[d] # None
  /\ card'[d].stage = card[d].stage /\ card'[d].pipeline = card[d].pipeline
  /\ card'[d].rank = card[d].rank /\ card'[d].status = card[d].status
  /\ card'[d].live => card[d].live

LEMMA TouchKeeps ==
  ASSUME BoardInv, NEW h \in Slots, job[h].op \in DealOps, ~Creates(h),
         Finish(h), RowTouched(job[h].deal),
         UNCHANGED <<position, kind, log, history>>
  PROVE  BoardInv' /\ (OrderInv => OrderInv') /\ (LogInv => LogInv')
  <1> DEFINE d == job[h].deal
  <1>1. /\ position' = position /\ kind' = kind /\ log' = log
        /\ overlapped' = overlapped /\ crowded' = crowded /\ reflagged' = reflagged
    BY DEF history
  <1>2. d \in Deals /\ card[d] # None
    BY BoardRequestAt, BoardRequestShape DEF BoardInv, OldDealThere
  <1>3. /\ card' \in [Deals -> Row \cup {None}]
        /\ \A e \in Deals : e # d => card'[e] = card[e]
        /\ card'[d] # None
        /\ card'[d].stage = card[d].stage /\ card'[d].pipeline = card[d].pipeline
        /\ card'[d].rank = card[d].rank /\ card'[d].status = card[d].status
        /\ card'[d].live => card[d].live
    BY DEF RowTouched
  <1>4. RowsInv'
    <2>1. RowsInv
      BY BoardInvParts
    <2>2. Exists(card[d].stage) /\ PipelineOf[card[d].stage] = card[d].pipeline
      BY <1>2 DEF BoardInv, BoardTypeOK
    <2>3. log' \in [Deals -> Seq([from : Stages, to : Stages])]
      BY <1>1 DEF BoardInv, BoardTypeOK
    <2>4. QED
      BY <1>1, <1>2, <1>3, <2>1, <2>2, <2>3, DealWritten
  <1>5. RowsStay /\ DealsRest
    BY <1>2, <1>3 DEF RowsStay, DealsRest
  <1>6. BoardInv'
    <2>1. NewStayNew(h)
      BY <1>1, <1>3, OthersStayNew
    <2>2. reflagged' \subseteq Stages
      BY <1>1 DEF BoardInv, BoardTypeOK
    <2>3. QED
      BY <1>1, <1>4, <1>5, <2>1, <2>2, KindsRest, BoardStands
  <1>7. ColumnsShrink
    BY <1>2, <1>3 DEF ColumnsShrink, LiveIn, Live
  <1>8. QED
    BY <1>1, <1>5, <1>6, <1>7, KindsRest, OrderStands, LogStands

LEMMA OwnerKeeps ==
  ASSUME BoardInv, NEW h \in Slots, SetOwner(h)
  PROVE  BoardInv' /\ (OrderInv => OrderInv') /\ (LogInv => LogInv')
  <1> DEFINE d == job[h].deal
  <1>1. /\ job[h].op = "assign" /\ Finish(h) /\ card' = [card EXCEPT ![d].owner = job[h].owner]
        /\ UNCHANGED <<position, kind, log, history>>
    BY DEF SetOwner
  <1>2. job[h].op \in DealOps /\ ~Creates(h)
    BY <1>1 DEF DealOps, Creates, PlaceOps
  <1>3. d \in Deals /\ card[d] # None /\ job[h].owner \in Users \cup {None}
    BY <1>1, <1>2, BoardRequestAt, BoardRequestShape DEF BoardInv, OldDealThere
  <1>4. card[d] \in Row /\ card \in [Deals -> Row \cup {None}]
    BY <1>3, BoardRowAt DEF BoardInv, BoardTypeOK
  <1>5. /\ \A e \in Deals : e # d => card'[e] = card[e]
        /\ card'[d] \in Row /\ card'[d].stage = card[d].stage
        /\ card'[d].pipeline = card[d].pipeline
        /\ card'[d].rank = card[d].rank /\ card'[d].status = card[d].status
        /\ card'[d].live = card[d].live
        /\ card' \in [Deals -> Row \cup {None}]
    BY <1>1, <1>3, <1>4 DEF Row
  <1>6. RowTouched(d)
    BY <1>5, BoardRowShape DEF RowTouched
  <1>7. QED
    BY <1>1, <1>2, <1>6, TouchKeeps

LEMMA DeleteKeeps ==
  ASSUME BoardInv, NEW h \in Slots, SoftDelete(h)
  PROVE  BoardInv' /\ (OrderInv => OrderInv') /\ (LogInv => LogInv')
  <1> DEFINE d == job[h].deal
  <1>1. /\ job[h].op = "delete" /\ Finish(h) /\ card' = [card EXCEPT ![d].live = FALSE]
        /\ UNCHANGED <<position, kind, log, history>>
    BY DEF SoftDelete
  <1>2. job[h].op \in DealOps /\ ~Creates(h)
    BY <1>1 DEF DealOps, Creates, PlaceOps
  <1>3. d \in Deals /\ card[d] # None
    BY <1>1, <1>2, BoardRequestAt, BoardRequestShape DEF BoardInv, OldDealThere
  <1>4. card[d] \in Row /\ card \in [Deals -> Row \cup {None}]
    BY <1>3, BoardRowAt DEF BoardInv, BoardTypeOK
  <1>5. /\ \A e \in Deals : e # d => card'[e] = card[e]
        /\ card'[d] \in Row /\ card'[d].stage = card[d].stage
        /\ card'[d].pipeline = card[d].pipeline
        /\ card'[d].rank = card[d].rank /\ card'[d].status = card[d].status
        /\ card'[d].live = FALSE
        /\ card' \in [Deals -> Row \cup {None}]
    BY <1>1, <1>3, <1>4 DEF Row
  <1>6. RowTouched(d)
    BY <1>5, BoardRowShape DEF RowTouched
  <1>7. QED
    BY <1>1, <1>2, <1>6, TouchKeeps

-----------------------------------------------------------------------------
(* A stage is written. *)
LEMMA StagesTouched ==
  ASSUME BoardInv, NEW h \in Slots, Finish(h),
         card' = card, log' = log, overlapped' = overlapped, crowded' = crowded,
         reflagged' \subseteq Stages, KindsStay, NewStayNew(h), RowsInv'
  PROVE  BoardInv' /\ (OrderInv => OrderInv') /\ (LogInv => LogInv')
  <1>1. RowsStay /\ DealsRest
    BY DEF RowsStay, DealsRest
  <1>2. ColumnsShrink
    BY DEF ColumnsShrink, LiveIn, Live
  <1>3. QED
    BY <1>1, <1>2, BoardStands, OrderStands, LogStands

LEMMA StayNewKinds ==
  ASSUME BoardInv, NEW h \in Slots, card' = card,
         \A g \in Slots : g # h /\ job[g].op = "addStage" => kind'[job[g].stage] = "none"
  PROVE  NewStayNew(h)
  BY DEF NewStayNew, BoardInv, NewDealAlone

(* The stages that exist are the same as before, less or more one of them, and
   no deal stands in that one. *)
LEMMA StageRowsWritten ==
  ASSUME BoardInv, NEW s \in Stages, card' = card, log' = log,
         position' \in [Stages -> Nat \cup {None}],
         kind' \in [Stages -> Kind \cup {"none"}],
         \A t \in Stages : t # s => (position'[t] # None <=> Exists(t)),
         \A t \in Stages : position'[t] # None => kind'[t] # "none",
         Empty(s) \/ position'[s] # None
  PROVE  RowsInv'
  <1>1. \A p \in Pipelines : StagesIn(p)' \subseteq StagesIn(p) \cup {s}
    BY DEF StagesIn, Exists
  <1>2. ASSUME NEW p \in Pipelines PROVE IsFiniteSet(StagesIn(p)')
    <2>1. IsFiniteSet(StagesIn(p))
      BY DEF BoardInv, FiniteRows
    <2>2. IsFiniteSet(StagesIn(p) \cup {s})
      BY <2>1, FS_AddElement
    <2>3. QED
      BY <1>1, <2>2, FS_Subset
  <1>3. FiniteRows'
    BY <1>2 DEF BoardInv, FiniteRows
  <1>4. KnownKinds'
    BY DEF KnownKinds, Exists
  <1>5. EmptyLogs'
    BY DEF BoardInv, EmptyLogs
  <1>6. ASSUME NEW d \in Deals, card[d] # None
        PROVE  position'[card[d].stage] # None /\ PipelineOf[card[d].stage] = card[d].pipeline
    <2>1. Exists(card[d].stage) /\ PipelineOf[card[d].stage] = card[d].pipeline
          /\ card[d].stage \in Stages
      BY <1>6 DEF BoardInv, BoardTypeOK, Row
    <2>2. Empty(s) => card[d].stage # s
      BY <1>6 DEF Empty
    <2>3. QED
      BY <2>1, <2>2
  <1>7. RowTypes'
    BY <1>6 DEF BoardInv, BoardTypeOK, RowTypes, Exists
  <1>8. QED
    BY <1>3, <1>4, <1>5, <1>7 DEF RowsInv

LEMMA CreateStageKeeps ==
  ASSUME BoardInv, NEW h \in Slots, CreateStage(h)
  PROVE  BoardInv' /\ (OrderInv => OrderInv') /\ (LogInv => LogInv')
  <1> DEFINE s == job[h].stage
  <1>1. PICK k \in Kind : kind' = [kind EXCEPT ![s] = k]
    BY DEF CreateStage
  <1>2. /\ job[h].op = "addStage" /\ position' = [position EXCEPT ![s] = job[h].position]
        /\ Finish(h) /\ card' = card /\ log' = log
        /\ overlapped' = overlapped /\ crowded' = crowded /\ reflagged' = reflagged
    BY DEF CreateStage, history
  <1>3. s \in Stages /\ job[h].position \in Nat
    BY <1>2, BoardRequestAt, BoardRequestShape DEF BoardInv
  <1>4. /\ kind[s] = "none"
        /\ \A g \in Slots : job[g].op = "addStage" /\ job[g].stage = s => g = h
    BY <1>2 DEF BoardInv, NewStageAlone
  <1>5. k # "none" /\ None \notin Nat
    BY NoneAssumption DEF Kind
  <1>6. /\ position' \in [Stages -> Nat \cup {None}] /\ position'[s] # None
        /\ \A t \in Stages : t # s => position'[t] = position[t]
        /\ kind' \in [Stages -> Kind \cup {"none"}] /\ kind'[s] = k
        /\ \A t \in Stages : t # s => kind'[t] = kind[t]
    BY <1>1, <1>2, <1>3, <1>5 DEF BoardInv, BoardTypeOK
  <1>7. RowsInv'
    <2>1. \A t \in Stages : position'[t] # None => kind'[t] # "none"
      BY <1>5, <1>6 DEF BoardInv, KnownKinds, Exists
    <2>2. \A t \in Stages : t # s => (position'[t] # None <=> Exists(t))
      BY <1>6 DEF Exists
    <2>3. QED
      BY <1>2, <1>3, <1>6, <2>1, <2>2, StageRowsWritten
  <1>8. KindsStay
    BY <1>2, <1>4, <1>6 DEF KindsStay
  <1>9. NewStayNew(h)
    <2>1. ASSUME NEW g \in Slots, g # h, job[g].op = "addStage"
          PROVE  kind'[job[g].stage] = "none"
      <3>1. job[g].stage \in Stages /\ kind[job[g].stage] = "none" /\ job[g].stage # s
        BY <1>4, <2>1, BoardRequestAt, BoardRequestShape DEF BoardInv, NewStageAlone
      <3>2. QED
        BY <1>6, <3>1
    <2>2. QED
      BY <1>2, <2>1, StayNewKinds
  <1>10. reflagged' \subseteq Stages
    BY <1>2 DEF BoardInv, BoardTypeOK
  <1>11. QED
    BY <1>2, <1>7, <1>8, <1>9, <1>10, StagesTouched

LEMMA UpdateStageKeeps ==
  ASSUME BoardInv, NEW h \in Slots, UpdateStage(h)
  PROVE  BoardInv' /\ (OrderInv => OrderInv') /\ (LogInv => LogInv')
  <1> DEFINE s == job[h].stage
  <1>1. /\ job[h].op = "flag" /\ Exists(s) /\ kind' = [kind EXCEPT ![s] = job[h].kind]
        /\ reflagged' = reflagged \cup {s}
        /\ Finish(h) /\ position' = position /\ card' = card /\ log' = log
        /\ overlapped' = overlapped /\ crowded' = crowded
    BY DEF UpdateStage
  <1>2. s \in Stages /\ job[h].kind \in Kind
    BY <1>1, BoardRequestAt, BoardRequestShape DEF BoardInv
  <1>3. /\ kind[s] # "none" /\ job[h].kind # "none"
    BY <1>1, <1>2 DEF BoardInv, KnownKinds, Kind
  <1>4. /\ kind' \in [Stages -> Kind \cup {"none"}] /\ kind'[s] = job[h].kind
        /\ \A t \in Stages : t # s => kind'[t] = kind[t]
    BY <1>1, <1>2 DEF BoardInv, BoardTypeOK
  <1>5. RowsInv'
    <2>1. \A t \in Stages : position'[t] # None => kind'[t] # "none"
      BY <1>1, <1>3, <1>4 DEF BoardInv, KnownKinds, Exists
    <2>2. /\ \A t \in Stages : t # s => (position'[t] # None <=> Exists(t))
          /\ position'[s] # None
          /\ position' \in [Stages -> Nat \cup {None}]
      BY <1>1 DEF Exists, BoardInv, BoardTypeOK
    <2>3. QED
      BY <1>1, <1>2, <1>4, <2>1, <2>2, StageRowsWritten
  <1>6. KindsStay
    BY <1>1, <1>3, <1>4 DEF KindsStay
  <1>7. NewStayNew(h)
    <2>1. ASSUME NEW g \in Slots, g # h, job[g].op = "addStage"
          PROVE  kind'[job[g].stage] = "none"
      <3>1. job[g].stage \in Stages /\ kind[job[g].stage] = "none" /\ job[g].stage # s
        BY <1>3, <2>1, BoardRequestAt, BoardRequestShape DEF BoardInv, NewStageAlone
      <3>2. QED
        BY <1>4, <3>1
    <2>2. QED
      BY <1>1, <2>1, StayNewKinds
  <1>8. reflagged' \subseteq Stages
    BY <1>1, <1>2 DEF BoardInv, BoardTypeOK
  <1>9. QED
    BY <1>1, <1>5, <1>6, <1>7, <1>8, StagesTouched

LEMMA DeleteStageKeeps ==
  ASSUME BoardInv, NEW h \in Slots, DeleteStage(h)
  PROVE  BoardInv' /\ (OrderInv => OrderInv') /\ (LogInv => LogInv')
  <1> DEFINE s == job[h].stage
  <1>1. /\ job[h].op = "removeStage" /\ Empty(s) /\ position' = [position EXCEPT ![s] = None]
        /\ Finish(h) /\ kind' = kind /\ card' = card /\ log' = log
        /\ overlapped' = overlapped /\ crowded' = crowded /\ reflagged' = reflagged
    BY DEF DeleteStage, history
  <1>2. s \in Stages
    BY <1>1, BoardRequestAt, BoardRequestShape DEF BoardInv
  <1>3. /\ position' \in [Stages -> Nat \cup {None}] /\ position'[s] = None
        /\ \A t \in Stages : t # s => position'[t] = position[t]
    BY <1>1, <1>2 DEF BoardInv, BoardTypeOK
  <1>4. RowsInv'
    <2>1. \A t \in Stages : position'[t] # None => kind'[t] # "none"
      BY <1>1, <1>3 DEF BoardInv, KnownKinds, Exists
    <2>2. /\ \A t \in Stages : t # s => (position'[t] # None <=> Exists(t))
          /\ kind' \in [Stages -> Kind \cup {"none"}]
      BY <1>1, <1>3 DEF Exists, BoardInv, BoardTypeOK
    <2>3. QED
      BY <1>1, <1>2, <1>3, <2>1, <2>2, StageRowsWritten
  <1>5. NewStayNew(h)
    <2>1. \A g \in Slots : job[g].op = "addStage" => kind'[job[g].stage] = "none"
      BY <1>1 DEF BoardInv, NewStageAlone
    <2>2. QED
      BY <1>1, <2>1, StayNewKinds
  <1>6. reflagged' \subseteq Stages
    BY <1>1 DEF BoardInv, BoardTypeOK
  <1>7. QED
    BY <1>1, <1>4, <1>5, <1>6, KindsRest, StagesTouched

(* Every stage in a list has a last place in it. *)
LastPlace(list, s) == CHOOSE i \in DOMAIN list :
                        list[i] = s /\ \A j \in DOMAIN list : list[j] = s => j <= i

LEMMA LastPlaceIs ==
  ASSUME NEW list \in Seq(Stages), NEW s, NEW n \in DOMAIN list, list[n] = s
  PROVE  LastPlace(list, s) \in DOMAIN list /\ LastPlace(list, s) - 1 \in Nat
  <1> DEFINE S == {i \in DOMAIN list : list[i] = s}
  <1>1. Len(list) \in Nat /\ DOMAIN list = 1..Len(list)
    OBVIOUS
  <1>2. IsFiniteSet(S) /\ S # {} /\ S \subseteq Int
    <2>1. IsFiniteSet(1..Len(list))
      BY <1>1, FS_Interval
    <2>2. S \subseteq 1..Len(list)
      BY <1>1
    <2>3. QED
      BY <2>1, <2>2, FS_Subset
  <1>3. PICK m \in S : \A x \in S : x <= m
    BY <1>2, GreatestExists
  <1>4. \E i \in DOMAIN list : list[i] = s /\ \A j \in DOMAIN list : list[j] = s => j <= i
    BY <1>3
  <1>5. LastPlace(list, s) \in DOMAIN list
    BY <1>4 DEF LastPlace
  <1>6. QED
    BY <1>1, <1>5

LEMMA ReorderKeeps ==
  ASSUME BoardInv, NEW h \in Slots, Reorder(h)
  PROVE  BoardInv' /\ (OrderInv => OrderInv') /\ (LogInv => LogInv')
  <1> DEFINE list   == job[h].list
             listed == {list[i] : i \in DOMAIN list}
  <1>1. /\ job[h].op = "reorder" /\ \A s \in listed : Exists(s)
        /\ position' = [s \in Stages |-> IF s \in listed THEN LastPlace(list, s) - 1
                                         ELSE position[s]]
        /\ Finish(h) /\ kind' = kind /\ card' = card /\ log' = log
        /\ overlapped' = overlapped /\ crowded' = crowded /\ reflagged' = reflagged
    BY DEF Reorder, history, LastPlace
  <1>2. list \in Seq(Stages)
    BY <1>1, BoardRequestAt, BoardRequestShape DEF BoardInv
  <1>3. \A s \in listed : LastPlace(list, s) - 1 \in Nat
    BY <1>2, LastPlaceIs
  <1>4. None \notin Nat
    BY NoneAssumption
  <1>5. /\ position' \in [Stages -> Nat \cup {None}]
        /\ \A t \in Stages : position'[t] # None <=> Exists(t)
    <2>1. ASSUME NEW t \in Stages
          PROVE  position'[t] \in Nat \cup {None} /\ (position'[t] # None <=> Exists(t))
      <3>1. CASE t \in listed
        <4>1. position'[t] = LastPlace(list, t) - 1
          BY <1>1, <3>1
        <4>2. QED
          BY <1>1, <1>3, <1>4, <3>1, <4>1
      <3>2. CASE t \notin listed
        <4>1. position'[t] = position[t]
          BY <1>1, <3>2
        <4>2. QED
          BY <4>1 DEF BoardInv, BoardTypeOK, Exists
      <3>3. QED
        BY <3>1, <3>2
    <2>2. position' = [t \in Stages |-> position'[t]]
      BY <1>1
    <2>3. QED
      BY <2>1, <2>2
  <1>6. RowsInv'
    <2>1. kind' \in [Stages -> Kind \cup {"none"}]
      BY <1>1 DEF BoardInv, BoardTypeOK
    <2>2. \A t \in Stages : position'[t] # None => kind'[t] # "none"
      BY <1>1, <1>5 DEF BoardInv, KnownKinds
    <2>3. PICK s \in Stages : TRUE
      BY StagesAssumption
    <2>4. Empty(s) \/ position'[s] # None
      BY <1>5, <2>3 DEF Empty, BoardInv, BoardTypeOK
    <2>5. QED
      BY <1>1, <1>5, <2>1, <2>2, <2>3, <2>4, StageRowsWritten
  <1>7. NewStayNew(h)
    <2>1. \A g \in Slots : job[g].op = "addStage" => kind'[job[g].stage] = "none"
      BY <1>1 DEF BoardInv, NewStageAlone
    <2>2. QED
      BY <1>1, <2>1, StayNewKinds
  <1>8. reflagged' \subseteq Stages
    BY <1>1 DEF BoardInv, BoardTypeOK
  <1>9. QED
    BY <1>1, <1>6, <1>7, <1>8, KindsRest, StagesTouched

LEMMA FailKeeps ==
  ASSUME BoardInv, NEW h \in Slots, JobFails(h)
  PROVE  BoardInv' /\ (OrderInv => OrderInv') /\ (LogInv => LogInv')
  <1>1. /\ Finish(h) /\ position' = position /\ kind' = kind /\ card' = card /\ log' = log
        /\ overlapped' = overlapped /\ crowded' = crowded /\ reflagged' = reflagged
    BY DEF JobFails, board, history
  <1>2. RowsInv'
    BY <1>1, SameRows, BoardInvParts
  <1>3. NewStayNew(h)
    <2>1. \A g \in Slots : job[g].op = "addStage" => kind'[job[g].stage] = "none"
      BY <1>1 DEF BoardInv, NewStageAlone
    <2>2. QED
      BY <1>1, <2>1, StayNewKinds
  <1>4. reflagged' \subseteq Stages
    BY <1>1 DEF BoardInv, BoardTypeOK
  <1>5. QED
    BY <1>1, <1>2, <1>3, <1>4, KindsRest, StagesTouched

-----------------------------------------------------------------------------
LEMMA StepKeeps ==
  ASSUME BoardInv, [BoardNext]_boardVars
  PROVE  BoardInv' /\ (OrderInv => OrderInv') /\ (LogInv => LogInv')
  <1>1. CASE UNCHANGED boardVars
    <2>1. /\ position' = position /\ kind' = kind /\ card' = card /\ log' = log
          /\ job' = job /\ requests' = requests
          /\ overlapped' = overlapped /\ crowded' = crowded /\ reflagged' = reflagged
      BY <1>1 DEF boardVars, board, history
    <2>2. BoardInv'
      BY <2>1 DEF BoardInv, BoardTypeOK, FiniteRows, KnownKinds, EmptyLogs, NewDealAlone,
                  OldDealThere, MoveIsValid, NewStageAlone, Creates, Moves, Exists, StagesIn,
                  Holders, StatusIn
    <2>3. OrderInv => OrderInv'
      BY <2>1 DEF OrderInv, OneWriter, FreshRank, OrderIsTotal, PlacingIn, LiveIn, Live
    <2>4. LogInv => LogInv'
      BY <2>1, SameStory DEF LogInv, OneHolder, MoveKnowsStage, Holders, Moves
    <2>5. QED
      BY <2>2, <2>3, <2>4
  <1>2. CASE \E h \in Slots : StartOn(h)
    <2>1. PICK h \in Slots : StartOn(h)
      BY <1>2
    <2>2. PICK r \in Job : Started(h, r)
      BY <2>1, EveryStart
    <2>3. QED
      BY <2>2, StartKeepsBoard, StartKeepsOrder, StartKeepsLog
  <1>3. CASE \E h \in Slots : PlaceAtBottom(h) \/ PlaceBetween(h)
    <2>1. PICK h \in Slots : PlaceAtBottom(h) \/ PlaceBetween(h)
      BY <1>3
    <2>2. PICK r \in Int, fits \in BOOLEAN : Placed(h, r, fits)
      BY <2>1, EveryPlace
    <2>3. QED
      BY <2>2, PlaceKeepsBoard, PlaceKeepsOrder, PlaceKeepsLog
  <1>4. CASE \E h \in Slots : InsertDeal(h)
    BY <1>4, InsertKeeps
  <1>5. CASE \E h \in Slots : ApplyMove(h)
    BY <1>5, MoveKeeps
  <1>6. CASE \E h \in Slots : SetOwner(h)
    BY <1>6, OwnerKeeps
  <1>7. CASE \E h \in Slots : SoftDelete(h)
    BY <1>7, DeleteKeeps
  <1>8. CASE \E h \in Slots : CreateStage(h)
    BY <1>8, CreateStageKeeps
  <1>9. CASE \E h \in Slots : UpdateStage(h)
    BY <1>9, UpdateStageKeeps
  <1>10. CASE \E h \in Slots : Reorder(h)
    BY <1>10, ReorderKeeps
  <1>11. CASE \E h \in Slots : DeleteStage(h)
    BY <1>11, DeleteStageKeeps
  <1>12. CASE \E h \in Slots : JobFails(h)
    BY <1>12, FailKeeps
  <1>13. QED
    BY <1>1, <1>2, <1>3, <1>4, <1>5, <1>6, <1>7, <1>8, <1>9, <1>10, <1>11, <1>12 DEF BoardNext, Step

(* The seed: stages in their places, and the first cards under each other. *)
LEMMA SeedPlace ==
  ASSUME NEW s \in Stages, Seeded(s) # {}
  PROVE  (CHOOSE i \in Seeded(s) : TRUE) - 1 \in Nat
  <1>1. PipelineOf[s] \in Pipelines
    BY StagesAssumption
  <1>2. InitialStages[PipelineOf[s]] \in Seq(Stages)
    BY <1>1, StagesAssumption
  <1>3. \A i \in Seeded(s) : i \in Nat /\ i > 0
    BY <1>2 DEF Seeded
  <1>4. (CHOOSE i \in Seeded(s) : TRUE) \in Seeded(s)
    OBVIOUS
  <1>5. QED
    BY <1>3, <1>4

LEMMA SeedRow ==
  ASSUME NEW d \in Deals
  PROVE  /\ d * RankGap \in Int
         /\ FirstStage \in Stages /\ Seeded(FirstStage) # {}
         /\ [stage |-> FirstStage, pipeline |-> PipelineOf[FirstStage], rank |-> d * RankGap,
             status |-> "OPEN", owner |-> Seller, live |-> TRUE] \in Row
         /\ \A e \in Deals : d * RankGap = e * RankGap => d = e
  <1>1. d \in Nat /\ RankGap \in Nat \ {0} /\ Deals \subseteq Nat /\ Seller \in Users
    BY DealsAssumption, RankAssumption, UsersAssumption
  <1>2. d * RankGap \in Int
    BY <1>1
  <1>3. PICK p \in Pipelines : \E i \in DOMAIN InitialStages[p] : FirstStage = InitialStages[p][i]
    BY StagesAssumption
  <1>4. PICK i \in DOMAIN InitialStages[p] : FirstStage = InitialStages[p][i]
    BY <1>3
  <1>5. /\ InitialStages[p] \in Seq(Stages) /\ PipelineOf[FirstStage] = p
        /\ PipelineOf \in [Stages -> Pipelines]
    BY <1>4, StagesAssumption
  <1>6. FirstStage \in Stages /\ i \in Seeded(FirstStage)
    BY <1>4, <1>5 DEF Seeded
  <1>7. PipelineOf[FirstStage] \in Pipelines
    BY <1>5
  <1>8. [stage |-> FirstStage, pipeline |-> PipelineOf[FirstStage], rank |-> d * RankGap,
         status |-> "OPEN", owner |-> Seller, live |-> TRUE] \in Row
    BY <1>1, <1>2, <1>6, <1>7 DEF Row, DealStatus
  <1>9. ASSUME NEW e \in Deals, d * RankGap = e * RankGap PROVE d = e
    <2>1. e \in Nat
      BY <1>1
    <2>2. ASSUME NEW m \in Nat, NEW n \in Nat, m < n PROVE m * RankGap < n * RankGap
      <3>1. n * RankGap = m * RankGap + (n - m) * RankGap
        BY <1>1, <2>2
      <3>2. PICK k \in Nat : k = n - m /\ k > 0
        BY <2>2
      <3>3. k * RankGap > 0
        BY <1>1, <3>2
      <3>4. QED
        BY <1>1, <2>2, <3>1, <3>2, <3>3
    <2>3. QED
      BY <1>1, <1>9, <2>1, <2>2
  <1>10. QED
    BY <1>2, <1>6, <1>8, <1>9

LEMMA InitBoard ==
  ASSUME BoardInit
  PROVE  BoardInv /\ OrderInv /\ LogInv
  <1>1. None \notin Nat /\ InitialDeals \in Nat /\ Deals \subseteq Nat
    BY NoneAssumption, DealsAssumption
  <1>2. ASSUME NEW s \in Stages
        PROVE  /\ Seeded(s) = {} => position[s] = None /\ kind[s] = "none"
               /\ Seeded(s) # {} => /\ position[s] \in Nat /\ position[s] # None
                                    /\ kind[s] \in Kind
    <2>1. InitialKind[s] \in Kind
      BY StagesAssumption DEF Kind
    <2>2. Seeded(s) # {} => position[s] = (CHOOSE i \in Seeded(s) : TRUE) - 1
      BY DEF BoardInit
    <2>3. QED
      BY <1>1, <2>1, <2>2, SeedPlace DEF BoardInit
  <1>3. ASSUME NEW d \in Deals, card[d] # None
        PROVE  /\ card[d] \in Row /\ d <= InitialDeals
               /\ card[d].stage = FirstStage /\ card[d].pipeline = PipelineOf[FirstStage]
               /\ card[d].rank = d * RankGap /\ card[d].status = "OPEN"
    <2>1. d <= InitialDeals
      BY <1>1, <1>3 DEF BoardInit
    <2>2. card[d] = [stage |-> FirstStage, pipeline |-> PipelineOf[FirstStage],
                     rank |-> d * RankGap, status |-> "OPEN", owner |-> Seller, live |-> TRUE]
      BY <1>3 DEF BoardInit
    <2>3. QED
      BY <2>1, <2>2, SeedRow
  <1>4. \A h \in Slots : job[h] = NoJob /\ job[h].op = "idle"
    BY BoardIdle DEF BoardInit
  <1>5. \A d \in Deals : log[d] = <<>>
    BY DEF BoardInit
  <1>6. RowTypes
    <2>1. position = [s \in Stages |-> position[s]] /\ kind = [s \in Stages |-> kind[s]]
          /\ card = [d \in Deals |-> card[d]] /\ log = [d \in Deals |-> log[d]]
      BY DEF BoardInit
    <2>2. /\ position \in [Stages -> Nat \cup {None}] /\ kind \in [Stages -> Kind \cup {"none"}]
          /\ card \in [Deals -> Row \cup {None}]
      BY <1>2, <1>3, <2>1
    <2>3. log \in [Deals -> Seq([from : Stages, to : Stages])]
      <3>1. \A T : <<>> \in Seq(T)
        OBVIOUS
      <3>2. \A d \in Deals : log[d] \in Seq([from : Stages, to : Stages])
        BY <1>5, <3>1
      <3>3. QED
        BY <2>1, <3>2
    <2>4. \A d \in Deals : card[d] # None =>
            Exists(card[d].stage) /\ PipelineOf[card[d].stage] = card[d].pipeline
      BY <1>2, <1>3, SeedRow DEF Exists
    <2>5. QED
      BY <2>2, <2>3, <2>4 DEF RowTypes
  <1>7. FiniteRows
    <2>1. IsFiniteSet({d \in Deals : card[d] # None})
      <3>1. {d \in Deals : card[d] # None} \subseteq 0..InitialDeals
        <4>1. ASSUME NEW d \in Deals, card[d] # None PROVE d \in 0..InitialDeals
          <5>1. d \in Nat /\ InitialDeals \in Nat /\ d <= InitialDeals
            BY <1>1, <1>3, <4>1
          <5>2. QED
            BY <5>1
        <4>2. QED
          BY <4>1
      <3>2. IsFiniteSet(0..InitialDeals)
        BY <1>1, FS_Interval
      <3>3. QED
        BY <3>1, <3>2, FS_Subset
    <2>2. ASSUME NEW p \in Pipelines PROVE IsFiniteSet(StagesIn(p))
      <3> DEFINE D == 1..Len(InitialStages[p])
                 S == {InitialStages[p][i] : i \in D}
                 f == [i \in D |-> InitialStages[p][i]]
      <3>1. InitialStages[p] \in Seq(Stages)
        BY StagesAssumption
      <3>2. Len(InitialStages[p]) \in Nat /\ DOMAIN InitialStages[p] = D
        BY <3>1
      <3>3. IsFiniteSet(D)
        <4>1. \A n \in Nat : IsFiniteSet(1..n)
          BY FS_Interval
        <4>2. QED
          BY <3>2, <4>1
      <3>4. f \in Surjection(D, S)
        BY DEF Surjection
      <3>5. IsFiniteSet(S)
        BY <3>3, <3>4, FS_Surjection
      <3>6. StagesIn(p) \subseteq S
        <4>1. ASSUME NEW s \in StagesIn(p) PROVE s \in S
          <5>1. s \in Stages /\ PipelineOf[s] = p /\ Seeded(s) # {}
            BY <1>2 DEF StagesIn, Exists
          <5>2. QED
            BY <3>2, <5>1 DEF Seeded
        <4>2. QED
          BY <4>1
      <3>7. QED
        BY <3>5, <3>6, FS_Subset
    <2>3. QED
      BY <2>1, <2>2 DEF FiniteRows
  <1>8. KnownKinds /\ EmptyLogs
    BY <1>2, <1>5 DEF KnownKinds, EmptyLogs, Exists, Kind
  <1>9. OtherTypes
    BY BoardIdle, BoundsAssumption DEF BoardInit, OtherTypes
  <1>10. RequestsInv
    BY <1>4 DEF RequestsInv, NewDealAlone, OldDealThere, MoveIsValid, NewStageAlone,
                Creates, Moves, PlaceOps, DealOps
  <1>11. BoardInv
    BY <1>6, <1>7, <1>8, <1>9, <1>10, BoardInvParts DEF RowsInv
  <1>12. OrderInv
    <2>1. \A s : PlacingIn(s) = {}
      BY <1>4 DEF PlacingIn
    <2>2. OrderIsTotal
      <3>1. ASSUME NEW s \in Stages, NEW d \in LiveIn(s), NEW e \in LiveIn(s),
                   card[d].rank = card[e].rank
            PROVE  d = e
        <4>1. d \in Deals /\ card[d] # None /\ e \in Deals /\ card[e] # None
          BY BoardInColumn
        <4>2. d * RankGap = e * RankGap
          BY <1>3, <3>1, <4>1
        <4>3. QED
          BY <4>1, <4>2, SeedRow
      <3>2. QED
        BY <3>1 DEF OrderIsTotal
    <2>3. QED
      BY <2>1, <2>2 DEF OrderInv, OneWriter, FreshRank
  <1>13. LogInv
    <2>1. \A d : Holders(d) = {}
      BY <1>4 DEF Holders, DealOps
    <2>2. OneHolder /\ MoveKnowsStage
      BY <1>4, <2>1 DEF OneHolder, MoveKnowsStage, Moves, PlaceOps
    <2>3. LogTellsTheStory
      <3>1. ASSUME NEW d \in Deals, card[d] # None
            PROVE  /\ log[d] = <<>> /\ card[d].status = StatusOf(d)
                   /\ 2..Len(log[d]) = {}
        <4>1. log[d] = <<>> /\ card[d].status = "OPEN"
          BY <1>3, <1>5, <3>1
        <4>2. 2..Len(log[d]) = {}
          BY <4>1
        <4>3. QED
          BY <4>1, <4>2 DEF StatusOf
      <3>2. QED
        BY <3>1 DEF LogTellsTheStory
    <2>4. QED
      BY <2>2, <2>3 DEF LogInv
  <1>14. QED
    BY <1>11, <1>12, <1>13

-----------------------------------------------------------------------------
(* Every row of the board keeps its type, and no deal, deleted ones included,
   is ever without the stage it stands in: a stage cannot be deleted while a
   request that has already been let through puts a deal there, and a move
   never leaves the deal's pipeline. *)
THEOREM BoardTyped == BoardSpec => []BoardTypeOK
  <1>1. BoardInit => BoardInv
    BY InitBoard
  <1>2. BoardInv /\ [BoardNext]_boardVars => BoardInv'
    BY StepKeeps
  <1>3. BoardInv => BoardTypeOK
    BY DEF BoardInv
  <1>4. QED
    BY <1>1, <1>2, <1>3, PTL DEF BoardSpec

(* The cards of a column are in a definite order, however many requests move
   them at once, as long as each rank was computed from the true neighbours
   with room between them and no two requests wrote into the column at the
   same time. *)
THEOREM BoardOrder == BoardSpec => []OrderIsTotal
  <1>1. BoardInit => BoardInv /\ OrderInv
    BY InitBoard
  <1>2. (BoardInv /\ OrderInv) /\ [BoardNext]_boardVars => (BoardInv /\ OrderInv)'
    BY StepKeeps
  <1>3. OrderInv => OrderIsTotal
    BY DEF OrderInv
  <1>4. QED
    BY <1>1, <1>2, <1>3, PTL DEF BoardSpec

(* The activity log and the deal row never disagree on the stage, or on the
   status that goes with it while the stage keeps its flags; and where no two
   requests held a deal at once the log is a chain of moves without a gap. *)
THEOREM BoardStory == BoardSpec => []LogTellsTheStory
  <1>1. BoardInit => BoardInv /\ LogInv
    BY InitBoard
  <1>2. (BoardInv /\ LogInv) /\ [BoardNext]_boardVars => (BoardInv /\ LogInv)'
    BY StepKeeps
  <1>3. LogInv => LogTellsTheStory
    BY DEF LogInv
  <1>4. QED
    BY <1>1, <1>2, <1>3, PTL DEF BoardSpec
=============================================================================
