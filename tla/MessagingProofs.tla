-------------------------- MODULE MessagingProofs ---------------------------
(***************************************************************************)
(* What holds of Messaging, and of the Directory that it extends, for      *)
(* every number of requests, records, deals, subjects, rules and payloads. *)
(***************************************************************************)
EXTENDS Messaging, FiniteSetTheorems, WellFoundedInduction, TLAPS

Subject == Subjects \cup {Nil}

(* What a request of the Directory carries *)
Creates   == [op : {"create"}, row : Record]
Updates   == [op : {"update"}, id : Records, tenant : Contexts,
              subject : Subject, company : Records \cup {Nil}]
Imports   == [op : {"import"}, kind : Kind, tenant : Contexts, rest : Seq(Subject) \ {<<>>}]
ImportRow == [op : {"importRow"}, kind : Kind, tenant : Contexts, rest : Seq(Subject) \ {<<>>}]
Merges    == [op : {"merge"}, tenant : Contexts, kind : Kind, source : Records, target : Records]
Erases    == [op : {"erase"}, tenant : Contexts, id : Records]
DirRequest == Creates \cup Updates \cup Imports \cup ImportRow \cup Merges \cup Erases
DirOps    == {"create", "update", "import", "importRow", "merge", "erase"}

(* What one of the messages and rules carries; a run's lists are as they are. *)
Sends      == [op : {"send"}, tenant : Contexts, phone : Subjects, given : BOOLEAN,
               named : Records \cup {Nil}]
Sents      == [op : {"sent"}, row : Message]
Inbounds   == [op : {"inbound"}, payload : Payloads, rest : Seq(Incoming)]
InboundRow == [op : {"inboundRow"}, payload : Payloads, rest : Seq(Incoming), row : Message]
Events     == [op : {"event"}, tenant : Contexts, trigger : Triggers, lead : BOOLEAN,
               subject : Subject, deal : Deals \cup {Nil}]
Runs(D, A, T) == [op : {"run"}, event : Events, done : D, asked : A, todo : T]
IsRun(q)   == \E D, A, T : q \in Runs(D, A, T)
IsRunRow(q) == \E m \in Message : \E x :
                IsRun(x) /\ q = [op |-> "runRow", run |-> x, row |-> m]
IsMsgRequest(q) == \/ q \in Sends \cup Sents \cup Inbounds \cup InboundRow \cup Events
                   \/ IsRun(q) \/ IsRunRow(q)
MsgOps     == {"send", "sent", "inbound", "inboundRow", "event", "run", "runRow"}

IsRequest(q) == q = Idle \/ q \in DirRequest \/ IsMsgRequest(q)

(* The rows that exist or existed are the first ones, so there is a newest. *)
TakenInOrder ==
  /\ \A r, q \in Records : q < r /\ rec[r] # Nil => rec[q] # Nil
  /\ \E n \in Nat : \A r \in Records : rec[r] # Nil => r <= n

-----------------------------------------------------------------------------
(* Induction is by the least number for which something fails. *)
LEMMA LeastExists ==
  ASSUME NEW S, S \subseteq Nat, S # {}
  PROVE  \E m \in S : \A x \in S : m <= x
<1>1. PICK m \in S : \A x \in S : ~ (<<x, m>> \in OpToRel(<, Nat))
  BY NatLessThanWellFounded, WFMin, Zenon
<1>2. \A x \in S : ~ (x < m)
  BY <1>1 DEF OpToRel
<1> QED
  BY <1>2

LEMMA MaxExists ==
  ASSUME NEW S, S \subseteq Nat, S # {}, NEW n \in Nat, \A x \in S : x <= n
  PROVE  \E m \in S : \A x \in S : x <= m
<1> DEFINE T == {n - x : x \in S}
<1>1. \A x \in S : x \in Nat /\ n - x \in Nat
  OBVIOUS
<1>2. T \subseteq Nat /\ T # {}
  BY <1>1
<1>4. PICK y \in T : \A z \in T : ~ (z < y)
  <2>1. PICK y \in T : \A z \in T : y <= z
    BY <1>2, LeastExists
  <2> QED
    BY <1>2, <2>1
<1>5. PICK m \in S : y = n - m
  OBVIOUS
<1>6. \A x \in S : ~ (n - x < n - m)
  BY <1>4, <1>5
<1>7. ASSUME NEW x \in S PROVE x <= m
  BY <1>1, <1>6
<1> QED
  BY <1>7

LEMMA DirShape ==
  ASSUME NEW q \in DirRequest
  PROVE  /\ q.op \in DirOps
         /\ q.op = "create" => q \in Creates
         /\ q.op = "update" => q \in Updates
         /\ q.op = "import" => q \in Imports
         /\ q.op = "importRow" => q \in ImportRow
         /\ q.op = "merge" => q \in Merges
         /\ q.op = "erase" => q \in Erases
  BY DEF DirRequest, DirOps, Creates, Updates, Imports, ImportRow, Merges, Erases

LEMMA MsgShape ==
  ASSUME NEW q, IsMsgRequest(q)
  PROVE  /\ q.op \in MsgOps /\ q # Idle
         /\ q.op = "send" => q \in Sends
         /\ q.op = "sent" => q \in Sents
         /\ q.op = "inbound" => q \in Inbounds
         /\ q.op = "inboundRow" => q \in InboundRow
         /\ q.op = "event" => q \in Events
         /\ q.op = "run" => IsRun(q)
         /\ q.op = "runRow" => IsRunRow(q)
<1>1. CASE q \in Sends
  BY <1>1 DEF Sends, MsgOps, Idle
<1>2. CASE q \in Sents
  BY <1>2 DEF Sents, MsgOps, Idle
<1>3. CASE q \in Inbounds
  BY <1>3 DEF Inbounds, MsgOps, Idle
<1>4. CASE q \in InboundRow
  BY <1>4 DEF InboundRow, MsgOps, Idle
<1>5. CASE q \in Events
  BY <1>5 DEF Events, MsgOps, Idle
<1>6. CASE IsRun(q)
  <2>1. q.op = "run" /\ DOMAIN q = {"op", "event", "done", "asked", "todo"}
    BY <1>6 DEF IsRun, Runs
  <2> QED
    BY <1>6, <2>1 DEF MsgOps, Idle
<1>7. CASE IsRunRow(q)
  <2>1. q.op = "runRow" /\ DOMAIN q = {"op", "run", "row"}
    BY <1>7 DEF IsRunRow
  <2> QED
    BY <1>7, <2>1 DEF MsgOps, Idle
<1> QED
  BY <1>1, <1>2, <1>3, <1>4, <1>5, <1>6, <1>7 DEF IsMsgRequest

(* The operation of a request says what it is. *)
LEMMA RequestShape ==
  ASSUME NEW q, IsRequest(q)
  PROVE  /\ q.op = "create" => q \in Creates
         /\ q.op = "update" => q \in Updates
         /\ q.op = "import" => q \in Imports
         /\ q.op = "importRow" => q \in ImportRow
         /\ q.op = "merge" => q \in Merges
         /\ q.op = "erase" => q \in Erases
         /\ q.op = "send" => q \in Sends
         /\ q.op = "sent" => q \in Sents
         /\ q.op = "inbound" => q \in Inbounds
         /\ q.op = "inboundRow" => q \in InboundRow
         /\ q.op = "event" => q \in Events
         /\ q.op = "run" => IsRun(q)
         /\ q.op = "runRow" => IsRunRow(q)
<1>1. CASE q = Idle
  BY <1>1 DEF Idle, MsgOps
<1>2. CASE q \in DirRequest
  BY <1>2, DirShape DEF DirOps, MsgOps
<1>3. CASE IsMsgRequest(q)
  BY <1>3, MsgShape DEF MsgOps
<1> QED
  BY <1>1, <1>2, <1>3 DEF IsRequest

-----------------------------------------------------------------------------
(* The rows of the Directory *)

Rows == Record \cup {Nil, Gone}
RecordsOK ==
  /\ rec \in [Records -> Rows]
  /\ \A r \in Records : Live(r) /\ rec[r].company # Nil => Live(rec[r].company)
  /\ TakenInOrder

(* What a step does to a row: its kind and tenant never change, what is gone
   stays so, and with its subject what was compared with it is forgotten. *)
Stays ==
  /\ \A r \in Records : rec[r] # Nil => rec'[r] # Nil
  /\ \A r \in Records : rec[r] = Gone => rec'[r] = Gone
  /\ \A r \in Records : Live(r) /\ Live(r)' =>
       /\ rec'[r].kind = rec[r].kind /\ rec'[r].tenant = rec[r].tenant
       /\ rec'[r].subject = rec[r].subject \/ Renamed(r)

LEMMA RecordShape ==
  ASSUME NEW x \in Record
  PROVE  /\ x # Nil /\ x # Gone
         /\ x.kind \in Kind /\ x.tenant \in Contexts /\ x.subject \in Subject
         /\ x.company \in Records \cup {Nil}
  BY NilAssumption DEF Record, Subject

LEMMA RecordMoved ==
  ASSUME NEW x \in Record, NEW c \in Records \cup {Nil}
  PROVE  /\ [x EXCEPT !.company = c] \in Record /\ [x EXCEPT !.company = c].kind = x.kind
         /\ [x EXCEPT !.company = c].tenant = x.tenant
         /\ [x EXCEPT !.company = c].subject = x.subject
         /\ [x EXCEPT !.company = c].company = c
  BY DEF Record

Redone(x, s, c) == [x EXCEPT !.subject = s, !.company = c]

LEMMA RecordRedone ==
  ASSUME NEW x \in Record, NEW c \in Records \cup {Nil}, NEW s \in Subject
  PROVE  /\ Redone(x, s, c) \in Record /\ Redone(x, s, c).kind = x.kind
         /\ Redone(x, s, c).tenant = x.tenant /\ Redone(x, s, c).company = c
         /\ Redone(x, s, c).subject = s
  BY DEF Record, Subject, Redone

LEMMA NewRowIsRecord ==
  ASSUME NEW k \in Kind, NEW ctx \in Contexts, NEW s \in Subject, NEW c \in Records \cup {Nil}
  PROVE  /\ NewRow(k, ctx, s, c) \in Record /\ NewRow(k, ctx, s, c).company = c
         /\ NewRow(k, ctx, s, c).kind = k /\ NewRow(k, ctx, s, c).tenant = ctx
         /\ NewRow(k, ctx, s, c).subject = s
  BY DEF NewRow, Record, Subject

LEMMA LiveIsRecord ==
  ASSUME RecordsOK, NEW r \in Records
  PROVE  /\ Live(r) <=> rec[r] \in Record
         /\ Live(r) => r # Nil /\ r # 0
  BY NilAssumption, IdsAssumption DEF RecordsOK, Rows, Live

(* A row is inserted: the next id is taken, and what was there stays. *)
LEMMA Inserted ==
  ASSUME RecordsOK, NEW r \in Records, Fresh(r), NEW x \in Record, Linkable(x.company),
         rec' = [rec EXCEPT ![r] = x]
  PROVE  RecordsOK' /\ Stays /\ rec'[r] = x
<1>1. x # Nil /\ x # Gone /\ rec'[r] = x /\ rec[r] = Nil /\ Live(r)'
  BY RecordShape, NilAssumption DEF RecordsOK, Fresh, Live, Rows
<1>2. \A q \in Records : q # r => rec'[q] = rec[q]
  BY DEF RecordsOK
<1>3. rec' \in [Records -> Rows]
  BY DEF RecordsOK, Rows
<1>4. TakenInOrder'
  <2>1. \A y, q \in Records : q < y /\ rec'[y] # Nil => rec'[q] # Nil
    BY <1>1, <1>2 DEF RecordsOK, TakenInOrder, Fresh
  <2>2. PICK n \in Nat : \A q \in Records : rec[q] # Nil => q <= n
    BY DEF RecordsOK, TakenInOrder
  <2>3. n + r \in Nat /\ \A q \in Records : rec'[q] # Nil => q <= n + r
    BY <1>2, <2>2, IdsAssumption
  <2> QED
    BY <2>1, <2>3 DEF TakenInOrder
<1>5. \A q \in Records : Live(q) => Live(q)'
  BY <1>1, <1>2 DEF Live
<1>6. ASSUME NEW q \in Records, NEW c, c = rec'[q].company, Live(q)', c # Nil PROVE Live(c)'
  <2>1. c \in Records
    BY <1>3, <1>6, RecordShape DEF Live, Rows, Record
  <2>2. CASE q = r
    BY <1>1, <1>5, <1>6, <2>1, <2>2 DEF Linkable
  <2>3. CASE q # r
    <3>1. Live(q) /\ rec[q].company = c
      BY <1>2, <1>6, <2>3 DEF Live
    <3>2. Live(c)
      BY <1>6, <3>1 DEF RecordsOK
    <3> QED
      BY <1>5, <2>1, <3>1, <3>2
  <2> QED
    BY <2>2, <2>3
<1>7. Stays
  <2>1. ~Live(r)
    BY <1>1 DEF Live
  <2> QED
    BY <1>1, <1>2, <2>1, NilAssumption DEF Stays
<1> QED
  BY <1>1, <1>3, <1>4, <1>6, <1>7 DEF RecordsOK

(* A row is edited: it gets another subject and another company. *)
LEMMA Edited ==
  ASSUME RecordsOK, NEW r \in Records, Live(r), NEW s \in Subject,
         NEW c \in Records \cup {Nil}, Linkable(c), rec[r].subject = s \/ Renamed(r),
         rec' = [rec EXCEPT ![r].subject = s, ![r].company = c]
  PROVE  RecordsOK' /\ Stays
<1>1. rec[r] \in Record
  BY LiveIsRecord
<1>2. rec' = [rec EXCEPT ![r] = Redone(rec[r], s, c)]
  BY DEF RecordsOK, Redone
<1> PICK x : x = Redone(rec[r], s, c)
  OBVIOUS
<1>r. /\ x \in Record /\ x.kind = rec[r].kind /\ x.tenant = rec[r].tenant
      /\ x.company = c /\ x.subject = s
  BY <1>1, RecordRedone
<1>3. /\ rec'[r] \in Record /\ rec'[r].kind = rec[r].kind /\ rec'[r].tenant = rec[r].tenant
      /\ rec'[r].company = c /\ rec'[r].subject = s
  BY <1>2, <1>r DEF RecordsOK
<1>4. \A q \in Records : q # r => rec'[q] = rec[q]
  BY <1>2 DEF RecordsOK
<1>5. rec' \in [Records -> Rows]
  BY <1>2, <1>r DEF RecordsOK, Rows
<1>6. \A q \in Records : /\ Live(q) <=> Live(q)'
                         /\ rec[q] = Nil <=> rec'[q] = Nil
  BY <1>1, <1>3, <1>4, NilAssumption DEF Live
<1>7. TakenInOrder'
  BY <1>6 DEF RecordsOK, TakenInOrder
<1>8. ASSUME NEW q \in Records, NEW k, k = rec'[q].company, Live(q)', k # Nil PROVE Live(k)'
  <2>1. k \in Records
    BY <1>5, <1>8, RecordShape DEF Live, Rows, Record
  <2>2. CASE q = r
    BY <1>3, <1>6, <1>8, <2>1, <2>2 DEF Linkable
  <2>3. CASE q # r
    <3>1. Live(q) /\ rec[q].company = k
      BY <1>4, <1>8, <2>3 DEF Live
    <3>2. Live(k)
      BY <1>8, <3>1 DEF RecordsOK
    <3> QED
      BY <1>6, <2>1, <3>1, <3>2
  <2> QED
    BY <2>2, <2>3
<1>9. Stays
  BY <1>1, <1>3, <1>4, <1>6, NilAssumption DEF Stays, Live
<1> QED
  BY <1>5, <1>7, <1>8, <1>9 DEF RecordsOK

(* A row is deleted: no row names it any more, and the rows that are moved
   name one that is there. *)
LEMMA RowDeleted ==
  ASSUME RecordsOK, NEW r \in Records, Live(r), NEW t \in Records \cup {Nil}, t # r,
         NEW moved, moved # {} /\ t # Nil => Live(t), Deleted(r, t, moved)
  PROVE  /\ RecordsOK' /\ Stays /\ rec'[r] = Gone
         /\ \A q \in Records : q # r => (Live(q) <=> Live(q)')
<1> DEFINE New(q) == IF rec[q].company # r THEN rec[q].company ELSE IF q \in moved THEN t ELSE Nil
<1>1. /\ rec'[r] = Gone
      /\ \A q \in Records : q # r /\ ~Live(q) => rec'[q] = rec[q]
      /\ \A q \in Records : q # r /\ Live(q) => rec'[q] = [rec[q] EXCEPT !.company = New(q)]
  BY DEF Deleted
<1>2. \A q \in Records : Live(q) => rec[q] \in Record /\ New(q) \in Records \cup {Nil}
  BY LiveIsRecord, RecordShape DEF Record
<1>3. \A q \in Records : q # r /\ Live(q) =>
        /\ rec'[q] \in Record /\ rec'[q].kind = rec[q].kind /\ rec'[q].tenant = rec[q].tenant
        /\ rec'[q].subject = rec[q].subject /\ rec'[q].company = New(q)
  <2> SUFFICES ASSUME NEW q \in Records, q # r, Live(q)
               PROVE  /\ rec'[q] \in Record /\ rec'[q].kind = rec[q].kind
                      /\ rec'[q].tenant = rec[q].tenant
                      /\ rec'[q].subject = rec[q].subject /\ rec'[q].company = New(q)
    OBVIOUS
  <2>1. rec[q] \in Record /\ New(q) \in Records \cup {Nil}
    BY <1>2
  <2>2. rec'[q] = [rec[q] EXCEPT !.company = New(q)]
    BY <1>1
  <2> HIDE DEF New
  <2> QED
    BY <2>1, <2>2, RecordMoved
<1>4. rec' \in [Records -> Rows]
  <2>1. \A q \in Records : rec'[q] \in Rows
    BY <1>1, <1>3 DEF RecordsOK, Rows
  <2>2. DOMAIN rec' = Records /\ rec' = [q \in Records |-> rec'[q]]
    BY DEF Deleted
  <2> QED
    BY <2>1, <2>2
<1>5. \A q \in Records : q # r => (Live(q) <=> Live(q)')
  BY <1>1, <1>3, NilAssumption DEF Live
<1>6. ~Live(r)' /\ rec'[r] # Nil
  BY <1>1, NilAssumption DEF Live
<1>7. \A q \in Records : rec[q] = Nil <=> rec'[q] = Nil
  BY <1>1, <1>3, <1>6, NilAssumption DEF Live
<1>8. TakenInOrder'
  BY <1>7 DEF RecordsOK, TakenInOrder
<1>9. ASSUME NEW q \in Records, NEW c, c = rec'[q].company, Live(q)', c # Nil PROVE Live(c)'
  <2>1. q # r /\ Live(q) /\ c = New(q)
    BY <1>3, <1>5, <1>6, <1>9
  <2>2. CASE rec[q].company # r
    <3>1. c \in Records /\ c = rec[q].company /\ Live(c)
      BY <1>2, <1>9, <2>1, <2>2 DEF RecordsOK
    <3> QED
      BY <1>5, <2>1, <2>2, <3>1
  <2>3. CASE rec[q].company = r
    <3>1. q \in moved /\ c = t
      BY <1>9, <2>1, <2>3
    <3>2. Live(t) /\ t \in Records
      BY <1>9, <3>1
    <3> QED
      BY <1>5, <3>1, <3>2
  <2> QED
    BY <2>2, <2>3
<1>10. Stays
  BY <1>1, <1>3, <1>5, <1>6, <1>7 DEF Stays, Live
<1> QED
  BY <1>1, <1>4, <1>5, <1>8, <1>9, <1>10 DEF RecordsOK

(* A conversion inserts a contact and, if the lead names one, its company. *)
LEMMA Converted ==
  ASSUME RecordsOK, NEW r \in Records, Fresh(r), NEW ctx \in Contexts, NEW s \in Subject,
         NEW n \in Subject, NEW c \in Records, c = (IF n = Nil THEN r ELSE r + 1),
         rec' = [q \in Records |->
            IF q = r THEN NewRow("contact", ctx, s, IF n = Nil THEN Nil ELSE c)
            ELSE IF q = c THEN NewRow("company", ctx, n, Nil) ELSE rec[q]]
  PROVE  /\ RecordsOK' /\ Stays /\ rec[r] = Nil /\ rec[c] = Nil /\ Live(r)' /\ Live(c)'
         /\ rec'[r].kind = "contact" /\ rec'[r].tenant = ctx
         /\ n # Nil => rec'[c].kind = "company" /\ rec'[c].tenant = ctx
         /\ \A q \in Records : q \notin {r, c} => rec'[q] = rec[q]
<1> PICK k : k = (IF n = Nil THEN Nil ELSE c)
  OBVIOUS
<1> PICK x : x = NewRow("contact", ctx, s, k)
  OBVIOUS
<1> PICK y : y = NewRow("company", ctx, n, Nil)
  OBVIOUS
<1>1. k \in Records \cup {Nil}
  OBVIOUS
<1>2. x \in Record /\ x.kind = "contact" /\ x.tenant = ctx /\ x.company = k
  BY <1>1, NewRowIsRecord DEF Kind
<1>3. y \in Record /\ y.kind = "company" /\ y.tenant = ctx /\ y.company = Nil
  BY NewRowIsRecord DEF Kind
<1>4. /\ rec'[r] = x /\ (n # Nil => rec'[c] = y)
      /\ \A q \in Records : q \notin {r, c} => rec'[q] = rec[q]
      /\ DOMAIN rec' = Records /\ rec' = [q \in Records |-> rec'[q]]
  BY IdsAssumption
<1>5. r \in Nat /\ c \in Nat /\ r <= c
  BY IdsAssumption
<1>6. rec[r] = Nil /\ rec[c] = Nil
  <2>1. rec[r] = Nil
    BY DEF Fresh
  <2>2. n # Nil => r < c
    BY <1>5
  <2> QED
    BY <2>1, <2>2 DEF RecordsOK, TakenInOrder
<1>7. x # Nil /\ x # Gone /\ y # Nil /\ y # Gone
  BY <1>2, <1>3, RecordShape
<1>8. rec'[r] \in {x, y} /\ rec'[c] \in {x, y}
  BY <1>4
<1>9. rec' \in [Records -> Rows]
  <2>1. \A q \in Records : rec'[q] \in Rows
    BY <1>2, <1>3, <1>4, <1>8 DEF RecordsOK, Rows
  <2> QED
    BY <1>4, <2>1
<1>10. TakenInOrder'
  <2>1. ASSUME NEW i \in Records, NEW q \in Records, q < i, rec'[i] # Nil PROVE rec'[q] # Nil
    <3>1. CASE i \notin {r, c}
      BY <1>4, <1>6, <1>7, <1>8, <2>1, <3>1 DEF RecordsOK, TakenInOrder
    <3>2. CASE q \in {r, c}
      BY <1>7, <1>8, <3>2
    <3>3. CASE i \in {r, c} /\ q \notin {r, c}
      <4>1. q < r
        BY <1>5, <2>1, <3>3, IdsAssumption
      <4> QED
        BY <1>4, <3>3, <4>1 DEF Fresh
    <3> QED
      BY <3>1, <3>2, <3>3
  <2>2. PICK m \in Nat : \A q \in Records : rec[q] # Nil => q <= m
    BY DEF RecordsOK, TakenInOrder
  <2>3. m + c \in Nat /\ \A q \in Records : rec'[q] # Nil => q <= m + c
    BY <1>4, <1>5, <2>2, IdsAssumption
  <2> QED
    BY <2>1, <2>3 DEF TakenInOrder
<1>11. Live(r)' /\ Live(c)' /\ ~Live(r) /\ ~Live(c)
  BY <1>6, <1>7, <1>8 DEF Live
<1>12. \A q \in Records : q \notin {r, c} => (Live(q) <=> Live(q)')
  BY <1>4 DEF Live
<1>13. ASSUME NEW q \in Records, NEW e, e = rec'[q].company, Live(q)', e # Nil PROVE Live(e)'
  <2>1. CASE q \in {r, c}
    <3>1. e = k
      BY <1>2, <1>3, <1>8, <1>13, <2>1
    <3> QED
      BY <1>11, <1>13, <3>1
  <2>2. CASE q \notin {r, c}
    <3>1. Live(q) /\ e = rec[q].company
      BY <1>4, <1>12, <1>13, <2>2
    <3>2. Live(e) /\ e \in Records
      BY <1>13, <3>1, LiveIsRecord, RecordShape DEF RecordsOK
    <3> QED
      BY <1>11, <1>12, <3>2
  <2> QED
    BY <2>1, <2>2
<1>14. Stays
  BY <1>4, <1>6, <1>7, <1>8, <1>11, NilAssumption DEF Stays
<1> QED
  BY <1>2, <1>3, <1>4, <1>6, <1>9, <1>10, <1>11, <1>13, <1>14 DEF RecordsOK

LEMMA InitRecords == DInit => RecordsOK
<1> SUFFICES ASSUME DInit PROVE RecordsOK
  OBVIOUS
<1>1. DOMAIN InitialRecords = 1..Len(InitialRecords) /\ Len(InitialRecords) \in Nat
  BY InitialAssumption
<1>2. \A r \in DOMAIN InitialRecords : InitialRecords[r] \in Record
  BY <1>1, InitialAssumption
<1>3. \A r \in Records : rec[r] = IF r \in DOMAIN InitialRecords THEN InitialRecords[r] ELSE Nil
  BY DEF DInit
<1>4. rec \in [Records -> Rows]
  BY <1>2 DEF DInit, Rows
<1>5. \A r \in Records : rec[r] # Nil <=> r \in 1..Len(InitialRecords)
  BY <1>1, <1>2, <1>3, RecordShape
<1>6. TakenInOrder
  <2>1. \A r, q \in Records : q < r /\ rec[r] # Nil => rec[q] # Nil
    BY <1>1, <1>5, IdsAssumption
  <2>2. \A r \in Records : rec[r] # Nil => r <= Len(InitialRecords)
    BY <1>5
  <2> QED
    BY <1>1, <2>1, <2>2 DEF TakenInOrder
<1>7. \A r \in Records : Live(r) <=> r \in DOMAIN InitialRecords
  BY <1>1, <1>2, <1>3, <1>5, RecordShape DEF Live
<1>8. ASSUME NEW r \in Records, Live(r), rec[r].company # Nil PROVE Live(rec[r].company)
  <2>1. rec[r] = InitialRecords[r] /\ r \in DOMAIN InitialRecords
    BY <1>3, <1>7, <1>8
  <2>2. rec[r].company \in DOMAIN InitialRecords
    BY <1>8, <2>1, InitialAssumption
  <2> QED
    BY <1>7, <2>2, InitialAssumption
<1> QED
  BY <1>4, <1>6, <1>8 DEF RecordsOK

-----------------------------------------------------------------------------
(* The requests *)

(* The handler h carries x from now on. *)
Turns(h, x) ==
  /\ DOMAIN req' = Handlers /\ req'[h] = x
  /\ \A g \in Handlers \ {h} : req'[g] = req[g]
  /\ requests' \in Nat /\ requests <= requests' /\ requests' <= MaxRequests

Requesting == /\ DOMAIN req = Handlers /\ \A h \in Handlers : IsRequest(req[h])
              /\ requests \in 0..MaxRequests

LEMMA BeginTurns ==
  ASSUME Requesting, NEW h \in Handlers, NEW x, Begin(h, x)
  PROVE  Turns(h, x) /\ req[h] = Idle
  BY BoundsAssumption DEF Requesting, Begin, Turns

LEMMA DoneTurns ==
  ASSUME Requesting, NEW h \in Handlers, Done(h)
  PROVE  Turns(h, Idle)
  BY BoundsAssumption DEF Requesting, Done, Turns

LEMMA GoesTurns ==
  ASSUME Requesting, NEW h \in Handlers, NEW x, Goes(h, x)
  PROVE  Turns(h, x)
  BY BoundsAssumption DEF Requesting, Goes, Turns

LEMMA TurnIsRequest ==
  ASSUME Requesting, NEW h \in Handlers, NEW x, Turns(h, x), IsRequest(x)
  PROVE  Requesting'
<1>1. \A g \in Handlers : IsRequest(req'[g])
  BY DEF Requesting, Turns
<1>2. requests' \in 0..MaxRequests
  BY BoundsAssumption DEF Requesting, Turns
<1> QED
  BY <1>1, <1>2 DEF Requesting, Turns

LEMMA IdleIsRequest == IsRequest(Idle)
  BY DEF IsRequest

LEMMA ImportingIsRequest ==
  ASSUME NEW k \in Kind, NEW ctx \in Contexts, NEW rest \in Seq(Subject)
  PROVE  IsRequest(Importing(k, ctx, rest))
<1>1. CASE rest = <<>>
  BY <1>1, IdleIsRequest DEF Importing
<1>2. CASE rest # <<>>
  <2>1. Importing(k, ctx, rest) \in Imports
    BY <1>2 DEF Importing, Imports
  <2> QED
    BY <2>1 DEF IsRequest, DirRequest
<1> QED
  BY <1>1, <1>2

-----------------------------------------------------------------------------
(* The Directory keeps its types. *)

HistoryTyped ==
  /\ seen \in [Handlers -> SUBSET Records]
  /\ compared \in [Records -> SUBSET Records]

DirTyped ==
  /\ RecordsOK /\ Requesting /\ HistoryTyped
  /\ deal \in [Deals -> Deal \cup {Nil}] /\ origin \in [Deals -> Deal \cup {Nil}]
  /\ heir \in [Records -> Records \cup {Nil}]
  /\ mixed \subseteq Records

LEMMA InitDir == DInit => DirTyped
<1> SUFFICES ASSUME DInit PROVE DirTyped
  OBVIOUS
<1>1. Requesting
  BY IdleIsRequest, BoundsAssumption DEF DInit, Requesting
<1>2. deal \in [Deals -> Deal \cup {Nil}]
  <2>1. \A d \in DOMAIN InitialDeals : InitialDeals[d] \in Deal
    BY InitialAssumption
  <2> QED
    BY <2>1 DEF DInit
<1> QED
  BY <1>1, <1>2, InitRecords, InitialAssumption DEF DInit, DirTyped, HistoryTyped

(* The handler h has met other rows, or none. *)
Meets(h) == \E met \in SUBSET Records : seen' = [seen EXCEPT ![h] = met]

(* A request that changes no row *)
LEMMA RowsStay ==
  ASSUME DirTyped, NEW h \in Handlers, NEW x, Turns(h, x), IsRequest(x),
         UNCHANGED <<rec, deal, origin, heir, mixed, compared>>, seen' = seen \/ Meets(h)
  PROVE  DirTyped' /\ Stays
<1>1. RecordsOK'
  BY DEF DirTyped, RecordsOK, TakenInOrder, Live
<1>2. Requesting'
  BY TurnIsRequest DEF DirTyped
<1>3. Stays
  BY DEF Stays
<1>4. HistoryTyped'
  BY DEF DirTyped, HistoryTyped, Meets
<1> QED
  BY <1>1, <1>2, <1>3, <1>4 DEF DirTyped

LEMMA StartCreateTyped ==
  ASSUME DirTyped, NEW h \in Handlers, NEW ctx \in Contexts, NEW k \in Kind, StartCreate(h, ctx, k)
  PROVE  \E x : Turns(h, x) /\ x \in Creates /\ req[h] = Idle
<1>1. PICK s \in Subject, c \in Links(k, ctx) :
        Begin(h, [op |-> "create", row |-> NewRow(k, ctx, s, c)])
  BY DEF StartCreate, Subject
<1>2. c \in Records \cup {Nil}
  BY DEF Links, Companies, OfKind
<1>3. [op |-> "create", row |-> NewRow(k, ctx, s, c)] \in Creates
  BY <1>2, NewRowIsRecord DEF Creates
<1> QED
  BY <1>1, <1>3, BeginTurns DEF DirTyped

LEMMA StartUpdateTyped ==
  ASSUME DirTyped, NEW h \in Handlers, NEW ctx \in Contexts, NEW r \in Records,
         StartUpdate(h, ctx, r)
  PROVE  \E x : Turns(h, x) /\ x \in Updates /\ req[h] = Idle
<1>1. PICK s \in Subject, c \in Links(rec[r].kind, ctx) :
        Begin(h, [op |-> "update", id |-> r, tenant |-> ctx, subject |-> s, company |-> c])
  BY DEF StartUpdate, Subject
<1>2. c \in Records \cup {Nil}
  BY DEF Links, Companies, OfKind
<1>3. [op |-> "update", id |-> r, tenant |-> ctx, subject |-> s, company |-> c] \in Updates
  BY <1>2 DEF Updates
<1> QED
  BY <1>1, <1>3, BeginTurns DEF DirTyped

LEMMA StartImportTyped ==
  ASSUME DirTyped, NEW h \in Handlers, NEW ctx \in Contexts, NEW k \in Kind, StartImport(h, ctx, k)
  PROVE  \E x : /\ Turns(h, x) /\ IsRequest(x) /\ req[h] = Idle
                /\ x = Idle \/ x \in Imports
<1>0. PICK n \in 1..MaxImport :
        \E file \in [1..n -> Subject] : Begin(h, Importing(k, ctx, file))
  BY DEF StartImport, Subject
<1>1. PICK file \in [1..n -> Subject] : Begin(h, Importing(k, ctx, file))
  BY <1>0
<1>2. file \in Seq(Subject)
  BY BoundsAssumption
<1>3. IsRequest(Importing(k, ctx, file))
  BY <1>2, ImportingIsRequest
<1>4. Importing(k, ctx, file) = Idle \/ Importing(k, ctx, file) \in Imports
  BY <1>2 DEF Importing, Imports
<1> QED
  BY <1>1, <1>3, <1>4, BeginTurns DEF DirTyped

LEMMA ImportLooksUpTyped ==
  ASSUME DirTyped, NEW h \in Handlers, ImportLooksUp(h)
  PROVE  /\ req[h] \in Imports
         /\ \E x : /\ Turns(h, x) /\ IsRequest(x)
                   /\ \/ x = Idle \/ x \in Imports
                      \/ x \in ImportRow /\ ~Exists(x.tenant, x.kind, Head(x.rest))
         /\ \E met \in SUBSET {r \in Records : Live(r)} : seen' = [seen EXCEPT ![h] = met]
<1> PICK q : q = req[h]
  OBVIOUS
<1> PICK s : s = Head(q.rest)
  OBVIOUS
<1>1. q \in Imports
  BY RequestShape DEF DirTyped, Requesting, ImportLooksUp
<1>2. /\ q.kind \in Kind /\ q.tenant \in Contexts /\ q.rest \in Seq(Subject) \ {<<>>}
      /\ s \in Subject /\ Tail(q.rest) \in Seq(Subject)
  <2>1. q.kind \in Kind /\ q.tenant \in Contexts /\ q.rest \in Seq(Subject) \ {<<>>}
    BY <1>1 DEF Imports
  <2> QED
    BY <2>1
<1>5. \E met \in SUBSET {r \in Records : Live(r)} : seen' = [seen EXCEPT ![h] = met]
  BY DEF ImportLooksUp, OfKind
<1>3. CASE Exists(q.tenant, q.kind, s)
  <2> PICK x : x = Importing(q.kind, q.tenant, Tail(q.rest))
    OBVIOUS
  <2>1. IsRequest(x) /\ (x = Idle \/ x \in Imports)
    BY <1>2, ImportingIsRequest DEF Importing, Imports
  <2>2. Goes(h, x)
    BY <1>3 DEF ImportLooksUp, Goes
  <2> QED
    BY <1>1, <1>5, <2>1, <2>2, GoesTurns DEF DirTyped
<1>4. CASE ~Exists(q.tenant, q.kind, s)
  <2> PICK x : x = [op |-> "importRow", kind |-> q.kind, tenant |-> q.tenant, rest |-> q.rest]
    OBVIOUS
  <2>1. x \in ImportRow
    BY <1>2 DEF ImportRow
  <2>2. Goes(h, x)
    BY <1>4 DEF ImportLooksUp, Goes
  <2>3. ~Exists(x.tenant, x.kind, Head(x.rest))
    BY <1>4
  <2>4. IsRequest(x) /\ Turns(h, x)
    BY <2>1, <2>2, GoesTurns DEF DirTyped, IsRequest, DirRequest
  <2> QED
    BY <1>1, <1>5, <2>1, <2>3, <2>4
<1> QED
  BY <1>3, <1>4

(* The deals and what they inherit stay; rows and history have their type. *)
LEMMA NoDealMoves ==
  ASSUME DirTyped, NEW h \in Handlers, NEW x, Turns(h, x), IsRequest(x), RecordsOK',
         UNCHANGED <<deal, origin, heir, mixed>>, HistoryTyped'
  PROVE  DirTyped'
  BY TurnIsRequest DEF DirTyped

(* No row has been compared with more than before, and no other import has met
   more. *)
Quiet(h) ==
  /\ \A q \in Records : compared'[q] \subseteq compared[q]
  /\ \A g \in Handlers \ {h} : seen'[g] \subseteq seen[g]

LEMMA CreateTyped ==
  ASSUME DirTyped, NEW h \in Handlers, Create(h)
  PROVE  /\ DirTyped' /\ Stays /\ Turns(h, Idle)
<1>1. req[h] \in Creates
  BY RequestShape DEF DirTyped, Requesting, Create
<1>2. PICK x \in Record : x = req[h].row /\ Linkable(x.company)
  BY <1>1 DEF Creates, Create
<1>3. PICK r \in Records : Fresh(r) /\ rec' = [rec EXCEPT ![r] = x]
  BY <1>2 DEF Create
<1>4. RecordsOK' /\ Stays
  BY <1>2, <1>3, Inserted DEF DirTyped
<1>5. Turns(h, Idle) /\ UNCHANGED <<deal, origin, heir, mixed>> /\ HistoryTyped'
  BY DoneTurns DEF Create, DirTyped, HistoryTyped
<1> QED
  BY <1>4, <1>5, NoDealMoves, IdleIsRequest

LEMMA RenamedQuiet ==
  ASSUME HistoryTyped, NEW r \in Records, Renamed(r)
  PROVE  /\ HistoryTyped' /\ \A h : Quiet(h)
         /\ \A q \in Records : r \notin compared'[q]
         /\ compared'[r] = {} /\ \A g \in Handlers : r \notin seen'[g]
  BY DEF HistoryTyped, Renamed, Quiet

LEMMA UpdateTyped ==
  ASSUME DirTyped, NEW h \in Handlers, Update(h)
  PROVE  DirTyped' /\ Stays /\ Turns(h, Idle) /\ Quiet(h)
<1>1. req[h] \in Updates
  BY RequestShape DEF DirTyped, Requesting, Update
<1>2. PICK r \in Records, s \in Subject, c \in Records \cup {Nil} :
        r = req[h].id /\ s = req[h].subject /\ c = req[h].company
  BY <1>1 DEF Updates
<1>3. /\ Live(r) /\ Linkable(c) /\ rec' = [rec EXCEPT ![r].subject = s, ![r].company = c]
      /\ (rec[r].subject = s /\ UNCHANGED <<seen, compared>>) \/ Renamed(r)
  BY <1>2 DEF Update, Found
<1>4. RecordsOK' /\ Stays
  BY <1>3, Edited DEF DirTyped
<1>5. HistoryTyped' /\ Quiet(h)
  <2>1. CASE UNCHANGED <<seen, compared>>
    BY <2>1 DEF DirTyped, HistoryTyped, Quiet
  <2> QED
    BY <1>3, <2>1, RenamedQuiet DEF DirTyped
<1>6. Turns(h, Idle) /\ UNCHANGED <<deal, origin, heir, mixed>>
  BY DoneTurns DEF Update, DirTyped
<1> QED
  BY <1>4, <1>5, <1>6, NoDealMoves, IdleIsRequest

LEMMA RemoveTyped ==
  ASSUME DirTyped, NEW h \in Handlers, NEW ctx \in Contexts, NEW r \in Records, Remove(h, ctx, r)
  PROVE  DirTyped' /\ Stays /\ Turns(h, Idle) /\ req[h] = Idle
<1>1. Live(r) /\ Deleted(r, Nil, {}) /\ Begin(h, Idle)
      /\ UNCHANGED <<deal, origin, heir, mixed, seen, compared>>
  BY DEF Remove, Found
<1>2. r # Nil
  BY <1>1, LiveIsRecord DEF DirTyped
<1>3. RecordsOK' /\ Stays
  BY <1>1, <1>2, RowDeleted DEF DirTyped
<1>4. Turns(h, Idle) /\ req[h] = Idle
  BY <1>1, BeginTurns DEF DirTyped
<1>5. HistoryTyped'
  BY <1>1 DEF DirTyped, HistoryTyped
<1> QED
  BY <1>1, <1>3, <1>4, <1>5, NoDealMoves, IdleIsRequest

LEMMA ImportCreatesTyped ==
  ASSUME DirTyped, NEW h \in Handlers, ImportCreates(h)
  PROVE  /\ req[h] \in ImportRow /\ DirTyped' /\ Stays
         /\ \E x : Turns(h, x) /\ (x = Idle \/ x \in Imports)
         /\ seen' = [seen EXCEPT ![h] = {}]
         /\ \E r \in Records :
              /\ rec[r] = Nil /\ rec'[r] = NewRow(req[h].kind, req[h].tenant, Head(req[h].rest), Nil)
              /\ compared' = [compared EXCEPT ![r] = seen[h]]
              /\ \A q \in Records \ {r} : rec'[q] = rec[q]
<1> PICK q : q = req[h]
  OBVIOUS
<1>1. q \in ImportRow
  BY RequestShape DEF DirTyped, Requesting, ImportCreates
<1>2. /\ q.kind \in Kind /\ q.tenant \in Contexts /\ q.rest \in Seq(Subject) \ {<<>>}
  BY <1>1 DEF ImportRow
<1>3. PICK s \in Subject : s = Head(q.rest)
  BY <1>2
<1>4. PICK y : y = NewRow(q.kind, q.tenant, s, Nil)
  OBVIOUS
<1>5. y \in Record /\ y.company = Nil
  BY <1>2, <1>4, NewRowIsRecord
<1>6. PICK r \in Records : /\ Fresh(r) /\ rec' = [rec EXCEPT ![r] = y]
                           /\ compared' = [compared EXCEPT ![r] = seen[h]]
  BY <1>3, <1>4 DEF ImportCreates
<1>7. RecordsOK' /\ Stays /\ rec'[r] = y
  BY <1>5, <1>6, Inserted DEF DirTyped, Linkable
<1>8. PICK x : x = Importing(q.kind, q.tenant, Tail(q.rest))
  OBVIOUS
<1>9. Tail(q.rest) \in Seq(Subject)
  BY <1>2
<1>10. IsRequest(x) /\ (x = Idle \/ x \in Imports)
  BY <1>2, <1>8, <1>9, ImportingIsRequest DEF Importing, Imports
<1>11. Goes(h, x) /\ UNCHANGED <<deal, origin, heir, mixed>>
  BY <1>8 DEF ImportCreates, Goes
<1>12. Turns(h, x)
  BY <1>11, GoesTurns DEF DirTyped
<1>16. seen' = [seen EXCEPT ![h] = {}]
  BY DEF ImportCreates
<1>13. HistoryTyped'
  BY <1>6, <1>16 DEF DirTyped, HistoryTyped
<1>14. DirTyped'
  BY <1>7, <1>10, <1>11, <1>12, <1>13, NoDealMoves
<1>15. rec[r] = Nil /\ \A z \in Records \ {r} : rec'[z] = rec[z]
  BY <1>6 DEF Fresh, DirTyped, RecordsOK
<1> QED
  BY <1>1, <1>3, <1>4, <1>6, <1>7, <1>10, <1>12, <1>14, <1>15, <1>16

(* A conversion wrote the rows r and c, or r only, and the deal d. *)
Converts(ctx, r, c, k, d) ==
  /\ \A q \in Records \ {r, c} : rec'[q] = rec[q]
  /\ rec[r] = Nil /\ rec[c] = Nil /\ Live(r)' /\ Live(c)'
  /\ rec'[r].kind = "contact" /\ rec'[r].tenant = ctx
  /\ k # Nil => rec'[c].kind = "company" /\ rec'[c].tenant = ctx
  /\ deal[d] = Nil /\ deal'[d] = [tenant |-> ctx, contact |-> r, company |-> k]
  /\ origin'[d] = deal'[d]
  /\ \A e \in Deals \ {d} : deal'[e] = deal[e] /\ origin'[e] = origin[e]

LEMMA ConvertTyped ==
  ASSUME DirTyped, NEW h \in Handlers, NEW ctx \in Contexts, Convert(h, ctx)
  PROVE  /\ DirTyped' /\ Stays /\ Turns(h, Idle) /\ req[h] = Idle
         /\ UNCHANGED <<heir, mixed, seen, compared>>
         /\ \E r, c \in Records : \E k \in {c, Nil}, d \in Deals : Converts(ctx, r, c, k, d)
<1>r. PICK r \in {q \in Records : Fresh(q)}, d \in {e \in Deals : FreshDeal(e)} :
        \E s, n \in Subjects \cup {Nil} :
          \E c \in {IF n = Nil THEN r ELSE r + 1} \cap Records :
            /\ rec' = [q \in Records |->
                 IF q = r THEN NewRow("contact", ctx, s, IF n = Nil THEN Nil ELSE c)
                 ELSE IF q = c THEN NewRow("company", ctx, n, Nil) ELSE rec[q]]
            /\ deal' = [deal EXCEPT ![d] =
                 [tenant |-> ctx, contact |-> r, company |-> IF n = Nil THEN Nil ELSE c]]
            /\ origin' = [origin EXCEPT ![d] = deal'[d]]
  BY DEF Convert
<1>f. r \in Records /\ Fresh(r) /\ d \in Deals /\ FreshDeal(d)
  OBVIOUS
<1>0. PICK s \in Subject, n \in Subject :
        \E c \in {IF n = Nil THEN r ELSE r + 1} \cap Records :
          /\ rec' = [q \in Records |->
               IF q = r THEN NewRow("contact", ctx, s, IF n = Nil THEN Nil ELSE c)
               ELSE IF q = c THEN NewRow("company", ctx, n, Nil) ELSE rec[q]]
          /\ deal' = [deal EXCEPT ![d] =
               [tenant |-> ctx, contact |-> r, company |-> IF n = Nil THEN Nil ELSE c]]
          /\ origin' = [origin EXCEPT ![d] = deal'[d]]
  BY <1>r DEF Subject
<1>1. PICK c \in {IF n = Nil THEN r ELSE r + 1} \cap Records :
        /\ rec' = [q \in Records |->
             IF q = r THEN NewRow("contact", ctx, s, IF n = Nil THEN Nil ELSE c)
             ELSE IF q = c THEN NewRow("company", ctx, n, Nil) ELSE rec[q]]
        /\ deal' = [deal EXCEPT ![d] =
             [tenant |-> ctx, contact |-> r, company |-> IF n = Nil THEN Nil ELSE c]]
        /\ origin' = [origin EXCEPT ![d] = deal'[d]]
  BY <1>0
<1>2. c \in Records /\ c = (IF n = Nil THEN r ELSE r + 1)
  OBVIOUS
<1>3. /\ RecordsOK' /\ Stays /\ rec[r] = Nil /\ rec[c] = Nil /\ Live(r)' /\ Live(c)'
      /\ rec'[r].kind = "contact" /\ rec'[r].tenant = ctx
      /\ n # Nil => rec'[c].kind = "company" /\ rec'[c].tenant = ctx
      /\ \A q \in Records : q \notin {r, c} => rec'[q] = rec[q]
  BY <1>f, <1>1, <1>2, Converted DEF DirTyped
<1>4. PICK k \in {c, Nil} : k = (IF n = Nil THEN Nil ELSE c)
  OBVIOUS
<1>5. PICK x \in Deal : x = [tenant |-> ctx, contact |-> r, company |-> k]
  BY <1>2, <1>4 DEF Deal
<1>6. /\ deal' = [deal EXCEPT ![d] = x] /\ origin' = [origin EXCEPT ![d] = x] /\ deal[d] = Nil
  BY <1>f, <1>1, <1>4, <1>5 DEF DirTyped, FreshDeal
<1>7. /\ Turns(h, Idle) /\ req[h] = Idle /\ UNCHANGED <<heir, mixed, seen, compared>>
  BY BeginTurns DEF Convert, DirTyped
<1>8. DirTyped'
  BY <1>1, <1>3, <1>6, <1>7, TurnIsRequest, IdleIsRequest DEF DirTyped, HistoryTyped
<1>9. /\ deal'[d] = x /\ origin'[d] = x
      /\ \A e \in Deals \ {d} : deal'[e] = deal[e] /\ origin'[e] = origin[e]
  BY <1>6 DEF DirTyped
<1>10. /\ k # Nil => rec'[c].kind = "company" /\ rec'[c].tenant = ctx
       /\ \A q \in Records \ {r, c} : rec'[q] = rec[q]
       /\ deal'[d] = [tenant |-> ctx, contact |-> r, company |-> k] /\ origin'[d] = deal'[d]
  BY <1>1, <1>3, <1>4, <1>5, <1>9
<1>11. Converts(ctx, r, c, k, d)
  BY <1>3, <1>6, <1>9, <1>10 DEF Converts
<1> QED
  BY <1>f, <1>2, <1>3, <1>7, <1>8, <1>11

-----------------------------------------------------------------------------
(* What merges and erasures aim at: rows that are, or were, of their kind. *)
Aims ==
  \A h \in Handlers :
    /\ req[h].op = "merge" =>
         \A r \in {req[h].source, req[h].target} :
           rec[r] # Nil /\ (Live(r) => rec[r].kind = req[h].kind)
    /\ req[h].op = "merge" => req[h].source # req[h].target
    /\ req[h].op = "erase" =>
         rec[req[h].id] # Nil /\ (Live(req[h].id) => rec[req[h].id].kind = "contact")

LEMMA StaysOf ==
  ASSUME RecordsOK, RecordsOK', Stays, NEW r \in Records
  PROVE  /\ rec[r] # Nil => rec'[r] # Nil
         /\ Live(r)' /\ rec[r] # Nil =>
              /\ Live(r) /\ rec'[r].kind = rec[r].kind /\ rec'[r].tenant = rec[r].tenant
              /\ rec'[r].subject = rec[r].subject \/ Renamed(r)
<1>1. Live(r)' /\ rec[r] # Nil => Live(r)
  BY NilAssumption DEF Stays, Live
<1> QED
  BY <1>1 DEF Stays

LEMMA AimsStay ==
  ASSUME DirTyped, DirTyped', Aims, Stays, NEW h \in Handlers, NEW x, Turns(h, x),
         x.op \notin {"merge", "erase"}
  PROVE  Aims'
<1> SUFFICES ASSUME NEW g \in Handlers, g # h
             PROVE  /\ req[g].op = "merge" =>
                         \A r \in {req[g].source, req[g].target} :
                           rec'[r] # Nil /\ (Live(r)' => rec'[r].kind = req[g].kind)
                    /\ req[g].op = "merge" => req[g].source # req[g].target
                    /\ req[g].op = "erase" =>
                         \A r \in {req[g].id} :
                           rec'[r] # Nil /\ (Live(r)' => rec'[r].kind = "contact")
  BY DEF Aims, Turns, Live
<1>1. /\ req[g].op = "merge" => req[g].source \in Records /\ req[g].target \in Records
      /\ req[g].op = "erase" => req[g].id \in Records
  BY RequestShape DEF DirTyped, Requesting, Merges, Erases
<1> QED
  BY <1>1, StaysOf DEF DirTyped, Aims

LEMMA StartMergeAims ==
  ASSUME DirTyped, Aims, NEW h \in Handlers, NEW ctx \in Contexts,
         NEW s \in Records, NEW t \in Records, StartMerge(h, ctx, s, t)
  PROVE  DirTyped' /\ Stays /\ Aims' /\ \E x \in Merges : Turns(h, x)
<1> PICK k : k = rec[s].kind
  OBVIOUS
<1> PICK x : x = [op |-> "merge", tenant |-> ctx, kind |-> k, source |-> s, target |-> t]
  OBVIOUS
<1>1. k \in Kind /\ Live(s) /\ Live(t) /\ rec[t].kind = k /\ s # t
  BY LiveIsRecord, RecordShape DEF StartMerge, Found, DirTyped
<1>2. x \in Merges
  BY <1>1 DEF Merges
<1>3. Turns(h, x) /\ UNCHANGED <<rec, deal, origin, heir, mixed, seen, compared>>
  BY BeginTurns DEF StartMerge, DirTyped
<1>4. DirTyped' /\ Stays
  BY <1>2, <1>3, RowsStay DEF IsRequest, DirRequest
<1>5. rec[s] # Nil /\ rec[t] # Nil
  BY <1>1 DEF Live
<1>6. Aims'
  BY <1>1, <1>3, <1>5 DEF Aims, Turns, Live
<1> QED
  BY <1>2, <1>3, <1>4, <1>6

LEMMA StartEraseAims ==
  ASSUME DirTyped, Aims, NEW h \in Handlers, NEW ctx \in Contexts, NEW r \in Records,
         StartErase(h, ctx, r)
  PROVE  DirTyped' /\ Stays /\ Aims' /\ \E x \in Erases : Turns(h, x)
<1> PICK x : x = [op |-> "erase", tenant |-> ctx, id |-> r]
  OBVIOUS
<1>1. Live(r) /\ rec[r].kind = "contact" /\ rec[r] # Nil
  BY DEF StartErase, Found, Live
<1>2. x \in Erases
  BY <1>1 DEF Erases
<1>3. Turns(h, x) /\ UNCHANGED <<rec, deal, origin, heir, mixed, seen, compared>>
  BY BeginTurns DEF StartErase, DirTyped
<1>4. DirTyped' /\ Stays
  BY <1>2, <1>3, RowsStay DEF IsRequest, DirRequest
<1>5. Aims'
  BY <1>1, <1>3 DEF Aims, Turns, Live
<1> QED
  BY <1>2, <1>3, <1>4, <1>5

(* A deal whose reference to s of kind k is moved to t, where it is seen *)
Moved(x, k, s, t) ==
  IF k = "contact" THEN [x EXCEPT !.contact = MovedTo(@, s, t)]
  ELSE [x EXCEPT !.company = MovedTo(@, s, t)]

LEMMA MovedShape ==
  ASSUME NEW x \in Deal, NEW k \in Kind, NEW s \in Records, NEW t \in Records \cup {Nil}
  PROVE  /\ Moved(x, k, s, t) \in Deal /\ Moved(x, k, s, t).tenant = x.tenant
         /\ Moved(x, k, s, t).contact = IF k = "contact" THEN MovedTo(x.contact, s, t) ELSE x.contact
         /\ Moved(x, k, s, t).company = IF k = "company" THEN MovedTo(x.company, s, t) ELSE x.company
<1>1. MovedTo(x.contact, s, t) \in Records \cup {Nil} /\ MovedTo(x.company, s, t) \in Records \cup {Nil}
  BY DEF Deal, MovedTo
<1> HIDE DEF MovedTo
<1>2. CASE k = "contact"
  BY <1>1, <1>2 DEF Moved, Deal
<1>3. CASE k = "company"
  BY <1>1, <1>3 DEF Moved, Deal
<1> QED
  BY <1>2, <1>3 DEF Kind

(* In the tenant of ctx, what points to s of kind k points to t from now on. *)
Absorbs(k, ctx, s, t) ==
  /\ Live(s) /\ Sees(ctx, rec[s]) /\ rec[s].kind = k /\ s # t
  /\ t # Nil => rec[t] # Nil /\ (Live(t) => rec[t].kind = k)
  /\ rec'[s] = Gone /\ \A q \in Records : q # s => (Live(q) <=> Live(q)')
  /\ \A d \in Deals : deal'[d] = IF deal[d] = Nil \/ ~Sees(ctx, deal[d]) THEN deal[d]
                                 ELSE Moved(deal[d], k, s, t)
  /\ \A r \in Records : heir'[r] = IF heir[r] = s THEN t ELSE heir[r]
  /\ mixed \subseteq mixed'
  /\ t # Nil /\ (s \in mixed \/ (Live(t) /\ rec[t].tenant # rec[s].tenant)) => t \in mixed'
  /\ UNCHANGED <<origin, seen, compared>>

LEMMA AbsorbedTypes ==
  ASSUME DirTyped, NEW k \in Kind, NEW ctx \in Contexts, NEW s \in Records,
         NEW t \in Records \cup {Nil}, deal' = DealsMoved(ctx, k, s, t), Inherits(s, t)
  PROVE  /\ deal' \in [Deals -> Deal \cup {Nil}]
         /\ \A d \in Deals : deal'[d] = IF deal[d] = Nil \/ ~Sees(ctx, deal[d]) THEN deal[d]
                                        ELSE Moved(deal[d], k, s, t)
         /\ heir' \in [Records -> Records \cup {Nil}]
         /\ \A r \in Records : heir'[r] = IF heir[r] = s THEN t ELSE heir[r]
<1>1. \A d \in Deals : deal'[d] = IF deal[d] = Nil \/ ~Sees(ctx, deal[d]) THEN deal[d]
                                  ELSE Moved(deal[d], k, s, t)
  BY DEF DealsMoved, Moved
<1>2. \A d \in Deals : deal'[d] \in Deal \cup {Nil}
  BY <1>1, MovedShape DEF DirTyped
<1>3. deal' = [d \in Deals |-> deal'[d]]
  BY DEF DealsMoved
<1>4. deal' \in [Deals -> Deal \cup {Nil}]
  BY <1>2, <1>3
<1> QED
  BY <1>1, <1>4 DEF Inherits, DirTyped

LEMMA MergeAbsorbs ==
  ASSUME DirTyped, Aims, NEW h \in Handlers, Merge(h)
  PROVE  /\ DirTyped' /\ Stays /\ Aims' /\ Turns(h, Idle)
         /\ \E k \in Kind, ctx \in Contexts, s, t \in Records : Absorbs(k, ctx, s, t)
<1>1. req[h] \in Merges /\ req[h].op = "merge"
  BY RequestShape DEF DirTyped, Requesting, Merge
<1>2. PICK k \in Kind, ctx \in Contexts, s \in Records, t \in Records :
        k = req[h].kind /\ ctx = req[h].tenant /\ s = req[h].source /\ t = req[h].target
  BY <1>1 DEF Merges
<1> PICK moved : moved = ContactsMoved(ctx, k, s)
  OBVIOUS
<1>3. /\ Found(ctx, s) /\ (moved # {} => Live(t))
      /\ deal' = DealsMoved(ctx, k, s, t) /\ Deleted(s, t, moved) /\ Inherits(s, t)
      /\ mixed' = IF s \in mixed \/ (Live(t) /\ rec[t].tenant # rec[s].tenant)
                  THEN mixed \cup {t} ELSE mixed
      /\ Done(h) /\ UNCHANGED <<origin, seen, compared>>
  BY <1>2 DEF Merge
<1>4. /\ s # t /\ Live(s) /\ Sees(ctx, rec[s]) /\ rec[s].kind = k
      /\ rec[t] # Nil /\ (Live(t) => rec[t].kind = k)
  BY <1>1, <1>2, <1>3 DEF Aims, Found
<1>5. /\ RecordsOK' /\ Stays /\ rec'[s] = Gone
      /\ \A q \in Records : q # s => (Live(q) <=> Live(q)')
  BY <1>3, <1>4, RowDeleted DEF DirTyped
<1>6. Turns(h, Idle)
  BY <1>3, DoneTurns DEF DirTyped
<1>7. /\ deal' \in [Deals -> Deal \cup {Nil}]
      /\ \A d \in Deals : deal'[d] = IF deal[d] = Nil \/ ~Sees(ctx, deal[d]) THEN deal[d]
                                     ELSE Moved(deal[d], k, s, t)
      /\ heir' \in [Records -> Records \cup {Nil}]
      /\ \A r \in Records : heir'[r] = IF heir[r] = s THEN t ELSE heir[r]
  BY <1>3, AbsorbedTypes
<1>8. DirTyped'
  BY <1>3, <1>5, <1>6, <1>7, TurnIsRequest, IdleIsRequest DEF DirTyped, HistoryTyped
<1>9. Aims'
  BY <1>5, <1>6, <1>8, AimsStay DEF Idle
<1>10. Absorbs(k, ctx, s, t)
  BY <1>3, <1>4, <1>5, <1>7 DEF Absorbs
<1> QED
  BY <1>5, <1>6, <1>8, <1>9, <1>10

LEMMA EraseAbsorbs ==
  ASSUME DirTyped, Aims, NEW h \in Handlers, Erase(h)
  PROVE  /\ DirTyped' /\ Stays /\ Aims' /\ Turns(h, Idle)
         /\ \E ctx \in Contexts, s \in Records : Absorbs("contact", ctx, s, Nil)
<1>1. req[h] \in Erases /\ req[h].op = "erase"
  BY RequestShape DEF DirTyped, Requesting, Erase
<1>2. PICK ctx \in Contexts, s \in Records : ctx = req[h].tenant /\ s = req[h].id
  BY <1>1 DEF Erases
<1>3. /\ Found(ctx, s) /\ deal' = DealsMoved(ctx, "contact", s, Nil)
      /\ Deleted(s, Nil, {}) /\ Inherits(s, Nil)
      /\ Done(h) /\ UNCHANGED <<origin, mixed, seen, compared>>
  BY <1>2 DEF Erase
<1>4. Live(s) /\ Sees(ctx, rec[s]) /\ rec[s].kind = "contact" /\ s # Nil
  BY <1>1, <1>2, <1>3, LiveIsRecord DEF Aims, Found, DirTyped
<1>5. /\ RecordsOK' /\ Stays /\ rec'[s] = Gone
      /\ \A q \in Records : q # s => (Live(q) <=> Live(q)')
  BY <1>3, <1>4, RowDeleted DEF DirTyped
<1>6. Turns(h, Idle)
  BY <1>3, DoneTurns DEF DirTyped
<1>7. /\ deal' \in [Deals -> Deal \cup {Nil}]
      /\ \A d \in Deals : deal'[d] = IF deal[d] = Nil \/ ~Sees(ctx, deal[d]) THEN deal[d]
                                     ELSE Moved(deal[d], "contact", s, Nil)
      /\ heir' \in [Records -> Records \cup {Nil}]
      /\ \A r \in Records : heir'[r] = IF heir[r] = s THEN Nil ELSE heir[r]
  BY <1>3, AbsorbedTypes DEF Kind
<1>8. DirTyped'
  BY <1>3, <1>5, <1>6, <1>7, TurnIsRequest, IdleIsRequest DEF DirTyped, HistoryTyped
<1>9. Aims'
  BY <1>5, <1>6, <1>8, AimsStay DEF Idle
<1>10. Absorbs("contact", ctx, s, Nil)
  BY <1>3, <1>4, <1>5, <1>7 DEF Absorbs
<1> QED
  BY <1>5, <1>6, <1>8, <1>9, <1>10

-----------------------------------------------------------------------------
(* Deals follow their contacts and companies. *)

(* A column of a deal of tenant tn, which pointed to first and points to now:
   it follows, or it was left behind at a record that is gone and mixed.  What
   it points to was there, is of the right kind and, unless mixed, of tn. *)
Column(now, first, k, tn) ==
  /\ now # Nil => /\ rec[now] # Nil
                  /\ Live(now) => rec[now].kind = k /\ (now \in mixed \/ rec[now].tenant = tn)
  /\ first # Nil => now = heir[first] \/ (now \in mixed /\ rec[now] = Gone)

DealInv ==
  /\ \A d \in Deals : deal[d] # Nil =>
       /\ origin[d] # Nil
       /\ Column(deal[d].contact, origin[d].contact, "contact", deal[d].tenant)
       /\ Column(deal[d].company, origin[d].company, "company", deal[d].tenant)
  /\ \A r \in Records : rec[r] = Nil => heir[r] = r

LEMMA DealShape ==
  ASSUME NEW x \in Deal
  PROVE  /\ x.tenant \in Contexts /\ x.contact \in Records \cup {Nil}
         /\ x.company \in Records \cup {Nil} /\ x # Nil
  BY NilAssumption DEF Deal

LEMMA ColumnStays ==
  ASSUME RecordsOK, RecordsOK', Stays, heir' = heir, mixed' = mixed, mixed \subseteq Records,
         NEW now \in Records \cup {Nil}, NEW first, NEW k, NEW tn, Column(now, first, k, tn)
  PROVE  Column(now, first, k, tn)'
<1>1. now # Nil => /\ rec'[now] # Nil
                   /\ Live(now)' => rec'[now].kind = k /\ (now \in mixed \/ rec'[now].tenant = tn)
  BY StaysOf DEF Column
<1>2. first # Nil => now = heir[first] \/ (now \in mixed /\ rec'[now] = Gone)
  BY DEF Column, Stays
<1> QED
  BY <1>1, <1>2 DEF Column

LEMMA ColumnAbsorbed ==
  ASSUME DirTyped, RecordsOK', Stays,
         NEW j \in Kind, NEW ctx \in Contexts, NEW s \in Records, NEW t \in Records \cup {Nil},
         Absorbs(j, ctx, s, t),
         NEW now \in Records \cup {Nil}, NEW first \in Records \cup {Nil}, NEW k \in Kind, NEW tn,
         Column(now, first, k, tn),
         NEW after, after = IF j = k /\ (ctx = Nil \/ tn = ctx) THEN MovedTo(now, s, t) ELSE now
  PROVE  Column(after, first, k, tn)'
<1>1. CASE j = k /\ (ctx = Nil \/ tn = ctx) /\ now = s
  <2>1. after = t
    BY <1>1 DEF MovedTo
  <2>2. s # Nil /\ rec[s] # Gone
    BY LiveIsRecord DEF Absorbs, DirTyped, Live
  <2>3. ASSUME t # Nil PROVE rec'[t] # Nil
    BY <2>3, StaysOf DEF Absorbs, DirTyped
  <2>4. ASSUME t # Nil, Live(t)' PROVE rec'[t].kind = k /\ (t \in mixed' \/ rec'[t].tenant = tn)
    <3>1. Live(t) /\ rec'[t].kind = rec[t].kind /\ rec'[t].tenant = rec[t].tenant /\ rec[t].kind = k
      BY <1>1, <2>4, StaysOf DEF Absorbs, DirTyped
    <3>2. s \in mixed \/ rec[s].tenant = tn
      BY <1>1, <2>2 DEF Absorbs, Column
    <3> QED
      BY <2>4, <3>1, <3>2 DEF Absorbs
  <2>5. first # Nil => t = heir'[first]
    BY <1>1, <2>2 DEF Column, Absorbs
  <2> QED
    BY <2>1, <2>3, <2>4, <2>5 DEF Column
<1>2. CASE now # s
  <2>1. after = now
    BY <1>2 DEF MovedTo
  <2>2. now # Nil => /\ rec'[now] # Nil
                     /\ Live(now)' => /\ rec'[now].kind = k
                                      /\ now \in mixed' \/ rec'[now].tenant = tn
    BY StaysOf DEF Column, DirTyped, Absorbs
  <2>3. now \in mixed /\ rec[now] = Gone => now \in mixed' /\ rec'[now] = Gone
    BY DEF Stays, Absorbs, DirTyped
  <2>4. first # Nil /\ now = heir[first] => now = heir'[first]
    BY <1>2 DEF Absorbs
  <2> QED
    BY <2>1, <2>2, <2>3, <2>4 DEF Column
<1>3. CASE ~(j = k /\ (ctx = Nil \/ tn = ctx)) /\ now = s
  <2>1. after = s
    BY <1>3
  <2>2. s # Nil /\ rec'[s] = Gone /\ Gone # Nil
    BY LiveIsRecord, NilAssumption DEF Absorbs, DirTyped
  <2>3. rec[s].kind = k /\ (s \in mixed \/ rec[s].tenant = tn)
    BY <1>3, <2>2 DEF Absorbs, Column
  <2>4. s \in mixed
    BY <1>3, <2>3 DEF Absorbs, Sees
  <2>5. s \in mixed' /\ ~Live(s)'
    BY <2>2, <2>4 DEF Absorbs, Live
  <2> QED
    BY <2>1, <2>2, <2>5 DEF Column
<1> QED
  BY <1>1, <1>2, <1>3

LEMMA InitDeals == DInit => DealInv
<1> SUFFICES ASSUME DInit PROVE DealInv
  OBVIOUS
<1>1. DirTyped
  BY InitDir
<1>2. ASSUME NEW d \in Deals, deal[d] # Nil
      PROVE  /\ deal[d] = InitialDeals[d] /\ d \in DOMAIN InitialDeals
             /\ origin[d] = deal[d] /\ deal[d] \in Deal
  BY <1>1, <1>2 DEF DInit, DirTyped
<1>3. ASSUME NEW d \in DOMAIN InitialDeals, NEW k \in Kind, NEW r \in Records \cup {Nil},
             r = IF k = "contact" THEN InitialDeals[d].contact ELSE InitialDeals[d].company
      PROVE  Column(r, r, k, InitialDeals[d].tenant)
  <2>1. ASSUME r # Nil
        PROVE  /\ r \in DOMAIN InitialRecords /\ InitialRecords[r].kind = k
               /\ InitialRecords[r].tenant = InitialDeals[d].tenant
    BY <1>3, <2>1, InitialAssumption
  <2>2. ASSUME r # Nil PROVE rec[r] = InitialRecords[r] /\ rec[r] # Nil /\ heir[r] = r
    <3>1. rec[r] = InitialRecords[r] /\ heir[r] = r
      BY <2>1, <2>2 DEF DInit
    <3>2. InitialRecords[r] \in Record
      BY <2>1, <2>2, InitialAssumption
    <3> QED
      BY <3>1, <3>2, RecordShape
  <2> QED
    BY <2>1, <2>2 DEF Column
<1>4. ASSUME NEW d \in Deals, deal[d] # Nil
      PROVE  /\ Column(deal[d].contact, origin[d].contact, "contact", deal[d].tenant)
             /\ Column(deal[d].company, origin[d].company, "company", deal[d].tenant)
  BY <1>2, <1>3, <1>4, DealShape DEF Kind
<1>5. \A r \in Records : heir[r] = r
  BY DEF DInit
<1> QED
  BY <1>2, <1>4, <1>5 DEF DealInv

(* The deals stay, while rows come and go. *)
LEMMA DealsStay ==
  ASSUME DirTyped, DirTyped', DealInv, Stays, UNCHANGED <<deal, origin, heir, mixed>>
  PROVE  DealInv'
<1>1. ASSUME NEW d \in Deals, deal[d] # Nil
      PROVE  /\ Column(deal[d].contact, origin[d].contact, "contact", deal[d].tenant)'
             /\ Column(deal[d].company, origin[d].company, "company", deal[d].tenant)'
  <2> PICK x : x = deal[d]
    OBVIOUS
  <2> PICK y : y = origin[d]
    OBVIOUS
  <2>1. x.contact \in Records \cup {Nil} /\ x.company \in Records \cup {Nil}
    BY <1>1, DealShape DEF DirTyped
  <2>2. /\ Column(x.contact, y.contact, "contact", x.tenant)
        /\ Column(x.company, y.company, "company", x.tenant)
    BY <1>1 DEF DealInv
  <2>3. /\ Column(x.contact, y.contact, "contact", x.tenant)'
        /\ Column(x.company, y.company, "company", x.tenant)'
    BY <2>1, <2>2, ColumnStays DEF DirTyped
  <2>4. x = deal'[d] /\ y = origin'[d]
    OBVIOUS
  <2> QED
    BY <2>3, <2>4 DEF Column
<1>2. \A r \in Records : rec'[r] = Nil => heir'[r] = r
  BY DEF DealInv, Stays
<1> QED
  BY <1>1, <1>2 DEF DealInv

LEMMA DealsAbsorbed ==
  ASSUME DirTyped, DirTyped', DealInv, Stays,
         NEW j \in Kind, NEW ctx \in Contexts, NEW s \in Records, NEW t \in Records \cup {Nil},
         Absorbs(j, ctx, s, t)
  PROVE  DealInv'
<1>1. ASSUME NEW d \in Deals, deal'[d] # Nil
      PROVE  /\ Column(deal[d].contact, origin[d].contact, "contact", deal[d].tenant)'
             /\ Column(deal[d].company, origin[d].company, "company", deal[d].tenant)'
             /\ origin'[d] # Nil
  <2> PICK x : x = deal[d]
    OBVIOUS
  <2> PICK y : y = origin[d]
    OBVIOUS
  <2> PICK z : z = deal'[d]
    OBVIOUS
  <2>1. x # Nil
    BY <1>1 DEF Absorbs
  <2>2. x \in Deal /\ y \in Deal /\ origin'[d] = y /\ y # Nil
    BY <2>1 DEF DirTyped, DealInv, Absorbs
  <2>3. /\ x.contact \in Records \cup {Nil} /\ x.company \in Records \cup {Nil}
        /\ y.contact \in Records \cup {Nil} /\ y.company \in Records \cup {Nil}
    BY <2>2, DealShape
  <2>4. /\ Column(x.contact, y.contact, "contact", x.tenant)
        /\ Column(x.company, y.company, "company", x.tenant)
    BY <2>1 DEF DealInv
  <2>5. z = IF ctx = Nil \/ x.tenant = ctx THEN Moved(x, j, s, t) ELSE x
    BY <2>1 DEF Absorbs, Sees
  <2>6. /\ z.tenant = x.tenant
        /\ z.contact = IF j = "contact" /\ (ctx = Nil \/ x.tenant = ctx)
                       THEN MovedTo(x.contact, s, t) ELSE x.contact
        /\ z.company = IF j = "company" /\ (ctx = Nil \/ x.tenant = ctx)
                       THEN MovedTo(x.company, s, t) ELSE x.company
    BY <2>2, <2>5, MovedShape
  <2> PICK tn : tn = x.tenant
    OBVIOUS
  <2>7. /\ z.contact = IF j = "contact" /\ (ctx = Nil \/ tn = ctx)
                       THEN MovedTo(x.contact, s, t) ELSE x.contact
        /\ z.company = IF j = "company" /\ (ctx = Nil \/ tn = ctx)
                       THEN MovedTo(x.company, s, t) ELSE x.company
        /\ Column(x.contact, y.contact, "contact", tn)
        /\ Column(x.company, y.company, "company", tn)
    BY <2>4, <2>6
  <2>r. RecordsOK'
    BY DEF DirTyped
  <2>8. ASSUME NEW k \in Kind, NEW now \in Records \cup {Nil}, NEW first \in Records \cup {Nil},
               Column(now, first, k, tn),
               NEW after, after = IF j = k /\ (ctx = Nil \/ tn = ctx) THEN MovedTo(now, s, t) ELSE now
        PROVE  Column(after, first, k, tn)'
    BY <2>8, <2>r, ColumnAbsorbed, SMTT(60)
  <2>c. Column(z.contact, y.contact, "contact", tn)'
    BY <2>3, <2>7, <2>8 DEF Kind
  <2>k. Column(z.company, y.company, "company", tn)'
    BY <2>3, <2>7, <2>8 DEF Kind
  <2>9. z = deal'[d] /\ y = origin'[d] /\ tn = z.tenant
    BY <2>2, <2>6
  <2>10. /\ Column(z.contact, y.contact, "contact", z.tenant)'
         /\ Column(z.company, y.company, "company", z.tenant)'
    BY <2>c, <2>k, <2>9
  <2>11. Column(deal[d].contact, origin[d].contact, "contact", deal[d].tenant)'
    BY <2>9, <2>10
  <2>12. Column(deal[d].company, origin[d].company, "company", deal[d].tenant)'
    BY <2>9, <2>10
  <2> QED
    BY <2>2, <2>11, <2>12
<1>2. ASSUME NEW r \in Records, rec'[r] = Nil PROVE heir'[r] = r
  <2>1. rec[r] = Nil /\ heir[r] = r
    BY <1>2 DEF DealInv, Stays
  <2>2. r # s
    BY <2>1 DEF Absorbs, Live
  <2> QED
    BY <2>1, <2>2 DEF Absorbs
<1> QED
  BY <1>1, <1>2 DEF DealInv

(* A deal of a conversion points to rows that are new: nothing has inherited
   from them, and they are of the tenant of the deal. *)
LEMMA NewColumn ==
  ASSUME DealInv, DirTyped, heir' = heir, NEW c \in Records, NEW j, NEW tn, rec[c] = Nil,
         rec'[c] # Nil, rec'[c].kind = j, rec'[c].tenant = tn
  PROVE  Column(c, c, j, tn)'
<1>1. heir'[c] = c
  BY DEF DealInv
<1> QED
  BY <1>1 DEF Column

LEMMA ConvertDeals ==
  ASSUME DirTyped, DealInv, NEW h \in Handlers, NEW ctx \in Contexts, Convert(h, ctx)
  PROVE  DealInv'
<1>0. DirTyped' /\ Stays /\ UNCHANGED <<heir, mixed>>
  BY ConvertTyped
<1>1. PICK r, c \in Records : \E k \in {c, Nil}, d \in Deals : Converts(ctx, r, c, k, d)
  BY ConvertTyped
<1>2. PICK k \in {c, Nil}, d \in Deals : Converts(ctx, r, c, k, d)
  BY <1>1
<1>3. /\ deal[d] = Nil /\ deal'[d] = [tenant |-> ctx, contact |-> r, company |-> k]
      /\ origin'[d] = deal'[d]
      /\ \A e \in Deals \ {d} : deal'[e] = deal[e] /\ origin'[e] = origin[e]
      /\ rec[r] = Nil /\ rec[c] = Nil /\ Live(r)' /\ Live(c)'
      /\ rec'[r].kind = "contact" /\ rec'[r].tenant = ctx
      /\ k # Nil => rec'[c].kind = "company" /\ rec'[c].tenant = ctx
  BY <1>2 DEF Converts
<1>4. PICK x : x = deal'[d]
  OBVIOUS
<1>5. x.contact = r /\ x.company = k /\ x.tenant = ctx /\ x \in Deal
  <2>1. x.contact = r /\ x.company = k /\ x.tenant = ctx
    BY <1>3, <1>4
  <2>2. x # Nil
    BY <1>3, <1>4, NilAssumption DEF Deal
  <2> QED
    BY <1>0, <1>4, <2>1, <2>2 DEF DirTyped
<1>6. Column(r, r, "contact", ctx)'
  BY <1>0, <1>3, NewColumn DEF Live
<1>7. Column(k, k, "company", ctx)'
  <2>1. CASE k = Nil
    BY <2>1 DEF Column
  <2>2. CASE k # Nil
    BY <1>0, <1>3, <2>2, NewColumn DEF Live
  <2> QED
    BY <2>1, <2>2
<1>8. ASSUME NEW e \in Deals, deal'[e] # Nil
      PROVE  /\ origin'[e] # Nil
             /\ Column(deal[e].contact, origin[e].contact, "contact", deal[e].tenant)'
             /\ Column(deal[e].company, origin[e].company, "company", deal[e].tenant)'
  <2>1. CASE e = d
    <3>1. deal'[e] = x /\ origin'[e] = x
      BY <1>3, <1>4, <2>1
    <3>2. /\ Column(x.contact, x.contact, "contact", x.tenant)'
          /\ Column(x.company, x.company, "company", x.tenant)'
      BY <1>5, <1>6, <1>7
    <3> QED
      BY <1>8, <3>1, <3>2
  <2>2. CASE e # d
    <3> PICK y : y = deal[e]
      OBVIOUS
    <3> PICK z : z = origin[e]
      OBVIOUS
    <3>1. deal'[e] = y /\ origin'[e] = z /\ y # Nil
      BY <1>3, <1>8, <2>2
    <3>2. y.contact \in Records \cup {Nil} /\ y.company \in Records \cup {Nil}
      BY <3>1, DealShape DEF DirTyped
    <3>3. /\ z # Nil
          /\ Column(y.contact, z.contact, "contact", y.tenant)
          /\ Column(y.company, z.company, "company", y.tenant)
      BY <3>1 DEF DealInv
    <3>4. /\ Column(y.contact, z.contact, "contact", y.tenant)'
          /\ Column(y.company, z.company, "company", y.tenant)'
      BY <1>0, <3>2, <3>3, ColumnStays DEF DirTyped
    <3> QED
      BY <3>1, <3>3, <3>4
  <2> QED
    BY <2>1, <2>2
<1>9. \A q \in Records : rec'[q] = Nil => heir'[q] = q
  BY <1>0 DEF DealInv, Stays
<1> QED
  BY <1>8, <1>9 DEF DealInv

-----------------------------------------------------------------------------
(* Every step of the Directory but the creation of an imported row *)

Kept == DirTyped' /\ Stays /\ Aims' /\ DealInv'

(* An import has met the rows met and found none like the row that it is about
   to create; neither would it now. *)
Sought(x, met) ==
  \A r \in met :
    /\ rec[r] # Nil
    /\ Live(r) /\ rec[r].kind = x.kind /\ rec[r].tenant = x.tenant
       => Head(x.rest) = Nil \/ rec[r].subject # Head(x.rest)

DirTurned(h) ==
  \E x : /\ Turns(h, x) /\ (x = Idle \/ x \in DirRequest)
         /\ x.op = "importRow" => Sought(x, seen[h])'

LEMMA RowsKept ==
  ASSUME DirTyped, Aims, DealInv, NEW h \in Handlers, NEW x, Turns(h, x), IsRequest(x),
         x.op \notin {"merge", "erase"}, UNCHANGED <<rec, deal, origin, heir, mixed, compared>>,
         seen' = seen \/ Meets(h)
  PROVE  Kept /\ Quiet(h)
<1>1. DirTyped' /\ Stays
  BY RowsStay
<1>2. Quiet(h)
  BY DEF DirTyped, HistoryTyped, Meets, Quiet
<1> QED
  BY <1>1, <1>2, AimsStay, DealsStay DEF Kept

LEMMA StartKept ==
  ASSUME DirTyped, Aims, DealInv, NEW h \in Handlers, NEW ctx \in Contexts, StartOn(h, ctx)
  PROVE  Kept /\ Quiet(h) /\ DirTurned(h)
<1>1. ASSUME NEW k \in Kind, StartCreate(h, ctx, k) PROVE Kept /\ Quiet(h) /\ DirTurned(h)
  <2>1. PICK x \in Creates : Turns(h, x)
    BY <1>1, StartCreateTyped
  <2>2. IsRequest(x) /\ x.op = "create" /\ x \in DirRequest
    BY DEF Creates, IsRequest, DirRequest
  <2>3. UNCHANGED <<rec, deal, origin, heir, mixed, seen, compared>>
    BY <1>1 DEF StartCreate
  <2> QED
    BY <2>1, <2>2, <2>3, RowsKept DEF DirTurned
<1>2. ASSUME NEW k \in Kind, StartImport(h, ctx, k) PROVE Kept /\ Quiet(h) /\ DirTurned(h)
  <2>1. PICK x : Turns(h, x) /\ IsRequest(x) /\ (x = Idle \/ x \in Imports)
    BY <1>2, StartImportTyped
  <2>2. x.op \in {"idle", "import"} /\ (x = Idle \/ x \in DirRequest)
    BY <2>1 DEF Imports, DirRequest, Idle
  <2>3. UNCHANGED <<rec, deal, origin, heir, mixed, seen, compared>>
    BY <1>2 DEF StartImport
  <2> QED
    BY <2>1, <2>2, <2>3, RowsKept DEF DirTurned
<1>3. ASSUME NEW r \in Records, StartUpdate(h, ctx, r) PROVE Kept /\ Quiet(h) /\ DirTurned(h)
  <2>1. PICK x \in Updates : Turns(h, x)
    BY <1>3, StartUpdateTyped
  <2>2. IsRequest(x) /\ x.op = "update" /\ x \in DirRequest
    BY DEF Updates, IsRequest, DirRequest
  <2>3. UNCHANGED <<rec, deal, origin, heir, mixed, seen, compared>>
    BY <1>3 DEF StartUpdate
  <2> QED
    BY <2>1, <2>2, <2>3, RowsKept DEF DirTurned
<1>4. ASSUME NEW r \in Records, Remove(h, ctx, r) PROVE Kept /\ Quiet(h) /\ DirTurned(h)
  <2>1. DirTyped' /\ Stays /\ Turns(h, Idle)
    BY <1>4, RemoveTyped
  <2>2. UNCHANGED <<deal, origin, heir, mixed, seen, compared>>
    BY <1>4 DEF Remove
  <2>3. Aims' /\ DealInv'
    BY <2>1, <2>2, AimsStay, DealsStay DEF Idle
  <2> QED
    BY <2>1, <2>2, <2>3 DEF Kept, Quiet, DirTurned, Idle
<1>5. ASSUME NEW r \in Records, StartErase(h, ctx, r) PROVE Kept /\ Quiet(h) /\ DirTurned(h)
  <2>1. DirTyped' /\ Stays /\ Aims' /\ \E x \in Erases : Turns(h, x)
    BY <1>5, StartEraseAims
  <2>2. PICK x \in Erases : Turns(h, x)
    BY <2>1
  <2>3. x \in DirRequest /\ x.op = "erase"
    BY DEF Erases, DirRequest
  <2>4. UNCHANGED <<rec, deal, origin, heir, mixed, seen, compared>>
    BY <1>5 DEF StartErase
  <2> QED
    BY <2>1, <2>2, <2>3, <2>4, DealsStay DEF Kept, Quiet, DirTurned
<1>6. ASSUME NEW s \in Records, NEW t \in Records, StartMerge(h, ctx, s, t)
      PROVE  Kept /\ Quiet(h) /\ DirTurned(h)
  <2>1. DirTyped' /\ Stays /\ Aims' /\ \E x \in Merges : Turns(h, x)
    BY <1>6, StartMergeAims
  <2>2. PICK x \in Merges : Turns(h, x)
    BY <2>1
  <2>3. x \in DirRequest /\ x.op = "merge"
    BY DEF Merges, DirRequest
  <2>4. UNCHANGED <<rec, deal, origin, heir, mixed, seen, compared>>
    BY <1>6 DEF StartMerge
  <2> QED
    BY <2>1, <2>2, <2>3, <2>4, DealsStay DEF Kept, Quiet, DirTurned
<1>7. CASE Convert(h, ctx)
  <2>1. /\ DirTyped' /\ Stays /\ Turns(h, Idle)
        /\ \E r, c \in Records : \E k \in {c, Nil}, d \in Deals : Converts(ctx, r, c, k, d)
    BY <1>7, ConvertTyped
  <2>2. Aims' /\ DealInv'
    BY <1>7, <2>1, AimsStay, ConvertDeals DEF Idle
  <2>3. Quiet(h)
    BY <1>7 DEF Convert, Quiet
  <2> QED
    BY <2>1, <2>2, <2>3 DEF Kept, DirTurned, Idle
<1> QED
  BY <1>1, <1>2, <1>3, <1>4, <1>5, <1>6, <1>7 DEF StartOn

LEMMA StepKept ==
  ASSUME DirTyped, Aims, DealInv, NEW h \in Handlers, Step(h), ~ImportCreates(h)
  PROVE  Kept /\ Quiet(h) /\ DirTurned(h)
<1>1. CASE Create(h)
  <2>1. /\ DirTyped' /\ Stays /\ Turns(h, Idle)
    BY <1>1, CreateTyped
  <2>2. UNCHANGED <<deal, origin, heir, mixed>>
    BY <1>1 DEF Create
  <2>3. Quiet(h)
    BY <1>1 DEF Create, Quiet
  <2> QED
    BY <2>1, <2>2, <2>3, AimsStay, DealsStay DEF Kept, DirTurned, Idle
<1>2. CASE Update(h)
  <2>1. /\ DirTyped' /\ Stays /\ Turns(h, Idle)
        /\ Quiet(h)
    BY <1>2, UpdateTyped
  <2>2. UNCHANGED <<deal, origin, heir, mixed>>
    BY <1>2 DEF Update
  <2> QED
    BY <2>1, <2>2, AimsStay, DealsStay DEF Kept, DirTurned, Idle
<1>3. CASE ImportLooksUp(h)
  <2>1. PICK x : /\ Turns(h, x) /\ IsRequest(x)
                 /\ \/ x = Idle \/ x \in Imports
                    \/ x \in ImportRow /\ ~Exists(x.tenant, x.kind, Head(x.rest))
    BY <1>3, ImportLooksUpTyped
  <2>2. /\ x.op \in {"idle", "import", "importRow"} /\ (x = Idle \/ x \in DirRequest)
        /\ x.op = "importRow" => ~Exists(x.tenant, x.kind, Head(x.rest))
    BY <2>1 DEF Imports, ImportRow, DirRequest, Idle
  <2>3. UNCHANGED <<rec, deal, origin, heir, mixed, compared>>
    BY <1>3 DEF ImportLooksUp
  <2>4. PICK met \in SUBSET {r \in Records : Live(r)} : seen' = [seen EXCEPT ![h] = met]
    BY <1>3, ImportLooksUpTyped
  <2>5. Meets(h) /\ seen'[h] = met
    BY <2>4 DEF Meets, DirTyped, HistoryTyped
  <2>6. ASSUME x.op = "importRow" PROVE Sought(x, seen[h])'
    <3>1. \A r \in Records : Live(r) /\ rec[r].kind = x.kind /\ rec[r].tenant = x.tenant
            => Head(x.rest) = Nil \/ rec[r].subject # Head(x.rest)
      BY <2>2, <2>6 DEF Exists, OfKind, Found, Sees
    <3> QED
      BY <2>3, <2>4, <2>5, <3>1 DEF Sought, Live
  <2> QED
    BY <2>1, <2>2, <2>3, <2>5, <2>6, RowsKept DEF DirTurned
<1>4. CASE Merge(h)
  <2>1. DirTyped' /\ Stays /\ Aims' /\ Turns(h, Idle)
    BY <1>4, MergeAbsorbs
  <2>2. PICK k \in Kind, ctx \in Contexts, s \in Records, t \in Records : Absorbs(k, ctx, s, t)
    BY <1>4, MergeAbsorbs
  <2>3. DealInv'
    BY <2>1, <2>2, DealsAbsorbed
  <2>4. Quiet(h)
    BY <2>2 DEF Quiet, Absorbs
  <2> QED
    BY <2>1, <2>3, <2>4 DEF Kept, DirTurned, Idle
<1>5. CASE Erase(h)
  <2>1. DirTyped' /\ Stays /\ Aims' /\ Turns(h, Idle)
    BY <1>5, EraseAbsorbs
  <2>2. PICK ctx \in Contexts, s \in Records : Absorbs("contact", ctx, s, Nil)
    BY <1>5, EraseAbsorbs
  <2>3. DealInv'
    BY <2>1, <2>2, DealsAbsorbed DEF Kind
  <2>4. Quiet(h)
    BY <2>2 DEF Quiet, Absorbs
  <2> QED
    BY <2>1, <2>3, <2>4 DEF Kept, DirTurned, Idle
<1>6. CASE Fails(h)
  <2>1. Turns(h, Idle) /\ UNCHANGED <<rec, deal, origin, heir, mixed, compared>>
    BY <1>6, DoneTurns DEF Fails, DirTyped
  <2>2. Meets(h)
    BY <1>6 DEF Fails, Meets
  <2> QED
    BY <2>1, <2>2, IdleIsRequest, RowsKept DEF DirTurned, Idle
<1> QED
  BY <1>1, <1>2, <1>3, <1>4, <1>5, <1>6 DEF Step

-----------------------------------------------------------------------------
(* Imports add no duplicates. *)

ImportInv ==
  /\ ImportAddsNoDuplicate
  /\ \A q \in Records : \A r \in compared[q] : rec[q] # Nil /\ rec[r] # Nil
  /\ \A h \in Handlers : req[h].op = "importRow" => Sought(req[h], seen[h])

(* A row that was there and has not been renamed looks as it did. *)
LEMMA LooksTheSame ==
  ASSUME DirTyped, DirTyped', Stays, NEW r \in Records, rec[r] # Nil, Live(r)', ~Renamed(r)
  PROVE  /\ Live(r) /\ rec'[r].kind = rec[r].kind
         /\ rec'[r].tenant = rec[r].tenant /\ rec'[r].subject = rec[r].subject
  BY StaysOf DEF DirTyped

LEMMA SoughtStays ==
  ASSUME DirTyped, DirTyped', Stays, NEW x, NEW g \in Handlers, Sought(x, seen[g]),
         seen'[g] \subseteq seen[g]
  PROVE  Sought(x, seen[g])'
<1> SUFFICES ASSUME NEW r \in seen'[g]
             PROVE  /\ rec'[r] # Nil
                    /\ Live(r)' /\ rec'[r].kind = x.kind /\ rec'[r].tenant = x.tenant
                       => Head(x.rest) = Nil \/ rec'[r].subject # Head(x.rest)
  BY DEF Sought
<1>1. r \in seen[g] /\ r \in Records /\ rec[r] # Nil
  BY DEF DirTyped, HistoryTyped, Sought
<1>2. ~Renamed(r)
  BY <1>1, RenamedQuiet DEF DirTyped
<1>3. rec'[r] # Nil
  BY <1>1 DEF Stays
<1> QED
  BY <1>1, <1>2, <1>3, LooksTheSame DEF Sought

LEMMA ComparedStays ==
  ASSUME DirTyped, DirTyped', Stays, ImportInv, NEW q \in Records, NEW r \in compared'[q],
         r \in compared[q]
  PROVE  /\ rec'[q] # Nil /\ rec'[r] # Nil
         /\ Live(r)' /\ Live(q)' /\ rec'[r].kind = rec'[q].kind /\ rec'[r].tenant = rec'[q].tenant
            => rec'[r].subject = Nil \/ rec'[r].subject # rec'[q].subject
<1>1. r \in Records /\ rec[q] # Nil /\ rec[r] # Nil
  BY DEF DirTyped, HistoryTyped, ImportInv
<1>2. ~Renamed(r) /\ ~Renamed(q)
  BY <1>1, RenamedQuiet DEF DirTyped
<1>3. rec'[q] # Nil /\ rec'[r] # Nil
  BY <1>1 DEF Stays
<1>4. Live(r) /\ Live(q) /\ rec[r].kind = rec[q].kind /\ rec[r].tenant = rec[q].tenant
        => rec[r].subject = Nil \/ rec[r].subject # rec[q].subject
  BY DEF ImportInv, ImportAddsNoDuplicate
<1> QED
  BY <1>1, <1>2, <1>3, <1>4, LooksTheSame

LEMMA ImportStays ==
  ASSUME DirTyped, DirTyped', Stays, ImportInv, NEW h \in Handlers, Quiet(h), NEW x, Turns(h, x),
         x.op = "importRow" => Sought(x, seen[h])'
  PROVE  ImportInv'
<1>1. \A q \in Records : \A r \in compared'[q] : r \in compared[q]
  BY DEF Quiet
<1>2. ImportAddsNoDuplicate' /\ \A q \in Records : \A r \in compared'[q] : rec'[q] # Nil /\ rec'[r] # Nil
  BY <1>1, ComparedStays DEF ImportAddsNoDuplicate
<1>3. ASSUME NEW g \in Handlers, NEW y, y = req'[g], y.op = "importRow" PROVE Sought(y, seen[g])'
  <2>1. CASE g = h
    BY <1>3, <2>1 DEF Turns
  <2>2. CASE g # h
    <3>1. y = req[g] /\ seen'[g] \subseteq seen[g]
      BY <1>3, <2>2 DEF Turns, Quiet
    <3>2. Sought(y, seen[g])
      BY <1>3, <3>1 DEF ImportInv
    <3> QED
      BY <3>1, <3>2, SoughtStays
  <2> QED
    BY <2>1, <2>2
<1> QED
  BY <1>2, <1>3 DEF ImportInv

LEMMA ImportAdds ==
  ASSUME DirTyped, Aims, DealInv, ImportInv, NEW h \in Handlers, ImportCreates(h)
  PROVE  Kept /\ DirTurned(h) /\ ImportInv'
<1>1. /\ req[h] \in ImportRow /\ DirTyped' /\ Stays
      /\ \E x : Turns(h, x) /\ (x = Idle \/ x \in Imports)
  BY ImportCreatesTyped
<1>2. PICK x : Turns(h, x) /\ (x = Idle \/ x \in Imports)
  BY <1>1
<1>3. x.op \in {"idle", "import"} /\ (x = Idle \/ x \in DirRequest)
  BY <1>2 DEF Imports, DirRequest, Idle
<1>4. UNCHANGED <<deal, origin, heir, mixed>>
  BY DEF ImportCreates
<1>5. Kept /\ DirTurned(h)
  BY <1>1, <1>2, <1>3, <1>4, AimsStay, DealsStay DEF Kept, DirTurned
<1> PICK q : q = req[h]
  OBVIOUS
<1> PICK s : s = Head(q.rest)
  OBVIOUS
<1>6. PICK r \in Records :
        /\ rec[r] = Nil /\ rec'[r] = NewRow(q.kind, q.tenant, s, Nil)
        /\ compared' = [compared EXCEPT ![r] = seen[h]]
        /\ \A z \in Records \ {r} : rec'[z] = rec[z]
  BY ImportCreatesTyped
<1>7. rec'[r].kind = q.kind /\ rec'[r].tenant = q.tenant /\ rec'[r].subject = s
  BY <1>6 DEF NewRow
<1>8. /\ compared'[r] = seen[h] /\ seen[h] \subseteq Records
      /\ \A z \in Records \ {r} : compared'[z] = compared[z]
      /\ \A g \in Handlers \ {h} : seen'[g] = seen[g]
  BY <1>6 DEF DirTyped, HistoryTyped, ImportCreates
<1>9. Sought(q, seen[h])
  BY DEF ImportInv, ImportCreates
<1>10. ASSUME NEW z \in seen[h]
       PROVE  /\ rec'[z] # Nil /\ rec'[r] # Nil
              /\ Live(z)' /\ rec'[z].kind = rec'[r].kind /\ rec'[z].tenant = rec'[r].tenant
                 => rec'[z].subject = Nil \/ rec'[z].subject # rec'[r].subject
  <2>1. z \in Records /\ rec[z] # Nil /\ z # r
    BY <1>6, <1>8, <1>9 DEF Sought
  <2>2. rec'[z] = rec[z] /\ (Live(z)' <=> Live(z))
    BY <1>6, <2>1 DEF Live
  <2>3. rec'[r] # Nil
    <3>1. NewRow(q.kind, q.tenant, s, Nil) \in Record
      <4>1. q.kind \in Kind /\ q.tenant \in Contexts /\ q.rest \in Seq(Subject) \ {<<>>}
        BY <1>1 DEF ImportRow
      <4>2. s \in Subject
        BY <4>1
      <4> QED
        BY <4>1, <4>2, NewRowIsRecord
    <3> QED
      BY <1>6, <3>1, RecordShape
  <2>4. CASE s = Nil
    BY <1>7, <2>1, <2>2, <2>3, <2>4
  <2>5. CASE s # Nil
    BY <1>7, <1>9, <2>1, <2>2, <2>3, <2>5 DEF Sought
  <2> QED
    BY <2>4, <2>5
<1>11. ASSUME NEW y \in Records, NEW z \in compared'[y]
       PROVE  /\ rec'[y] # Nil /\ rec'[z] # Nil
              /\ Live(z)' /\ Live(y)' /\ rec'[z].kind = rec'[y].kind /\ rec'[z].tenant = rec'[y].tenant
                 => rec'[z].subject = Nil \/ rec'[z].subject # rec'[y].subject
  <2>1. CASE y = r
    BY <1>8, <1>10, <1>11, <2>1
  <2>2. CASE y # r
    BY <1>1, <1>8, <1>11, <2>2, ComparedStays
  <2> QED
    BY <2>1, <2>2
<1>12. ImportAddsNoDuplicate' /\ \A y \in Records : \A z \in compared'[y] : rec'[y] # Nil /\ rec'[z] # Nil
  BY <1>11 DEF ImportAddsNoDuplicate
<1>13. ASSUME NEW g \in Handlers, NEW y, y = req'[g], y.op = "importRow" PROVE Sought(y, seen[g])'
  <2>1. g # h /\ y = req[g] /\ seen'[g] = seen[g]
    BY <1>2, <1>3, <1>8, <1>13 DEF Turns
  <2>2. Sought(y, seen[g])
    BY <1>13, <2>1 DEF ImportInv
  <2> QED
    BY <1>1, <2>1, <2>2, SoughtStays
<1> QED
  BY <1>5, <1>12, <1>13 DEF ImportInv

-----------------------------------------------------------------------------
(* Messages and rules keep their types. *)

MsgTyped ==
  /\ rule \in [Rules -> Rule \cup {Nil, Gone}]
  /\ message \in Seq(Message)
  /\ activity \in [Deals -> Nat] /\ mail \in [{"SENT", "FAILED"} -> Nat]
  /\ delivered \in [Payloads -> Nat] /\ \A p \in Payloads : delivered[p] <= requests
  /\ acked \subseteq Payloads

(* Of a row or a request of tenant tn that points to c: c was there, and is of
   tn, if tn is a tenant. *)
LinkedTo(tn, c) ==
  tn # Nil /\ c # Nil => rec[c] # Nil /\ (Live(c) => rec[c].tenant = tn)

(* A link that the service looked up is one of the sender's tenant. *)
Confined(m) == m.found => LinkedTo(m.tenant, m.contact)

LEMMA NewestTyped ==
  ASSUME DirTyped, NEW ctx \in Contexts \cup {Nil}, NEW phone
  PROVE  Newest(ctx, phone) \in Records \cup {Nil} /\ LinkedTo(ctx, Newest(ctx, phone))
<1> PICK found : found = {r \in OfKind("contact") : Found(ctx, r) /\ rec[r].subject = phone}
  OBVIOUS
<1>1. CASE found = {}
  <2>1. Newest(ctx, phone) = Nil
    BY <1>1 DEF Newest
  <2> QED
    BY <2>1 DEF LinkedTo
<1>2. CASE found # {}
  <2>1. PICK n \in Nat : \A r \in Records : rec[r] # Nil => r <= n
    BY DEF DirTyped, RecordsOK, TakenInOrder
  <2>2. found \subseteq Nat /\ found \subseteq Records /\ \A r \in found : Live(r) /\ Sees(ctx, rec[r])
    BY IdsAssumption DEF OfKind, Found
  <2>3. \A r \in found : r <= n
    BY <2>1, <2>2 DEF Live
  <2>4. \E m \in found : \A r \in found : r <= m
    BY <1>2, <2>2, <2>3, MaxExists
  <2>5. Newest(ctx, phone) = CHOOSE r \in found : \A q \in found : q <= r
    BY <1>2 DEF Newest
  <2>6. Newest(ctx, phone) \in found
    BY <2>4, <2>5
  <2> QED
    BY <2>2, <2>6 DEF LinkedTo, Sees, Live
<1> QED
  BY <1>1, <1>2

LEMMA OutTyped ==
  ASSUME DirTyped, NEW ctx \in Contexts, NEW phone \in Subjects, NEW given \in BOOLEAN,
         NEW named \in Records \cup {Nil}
  PROVE  /\ Out(ctx, phone, given, named) \in Message
         /\ Out(ctx, phone, given, named).of = Nil
         /\ Confined(Out(ctx, phone, given, named))
<1> PICK c : c = Link(ctx, phone, given, named)
  OBVIOUS
<1>1. c \in Records \cup {Nil} /\ (~given => LinkedTo(ctx, c))
  BY NewestTyped DEF Link
<1> PICK x : x = Out(ctx, phone, given, named)
  OBVIOUS
<1>2. x = [direction |-> "OUT", phone |-> phone, tenant |-> ctx,
           contact |-> c, found |-> ~given, of |-> Nil]
  BY DEF Out
<1>3. x \in Message /\ x.of = Nil /\ x.tenant = ctx /\ x.contact = c /\ x.found = ~given
  BY <1>1, <1>2 DEF Message
<1> QED
  BY <1>1, <1>3 DEF Confined

-----------------------------------------------------------------------------
(* What a delivery in progress has done, and what it owes *)

Stored(id) == RowsOf(id) # {}

(* Of p, the messages before the rest have been stored; the last one of these
   is about to be, at "inboundRow". *)
Passed(q) == Len(q.payload) - Len(q.rest)

Progress(q) ==
  /\ Passed(q) \in Nat
  /\ \A j \in 1..Len(q.rest) : q.rest[j] = q.payload[Passed(q) + j]
  /\ \A i \in DOMAIN q.payload :
       i < Passed(q) \/ (i = Passed(q) /\ q.op = "inbound") =>
         (q.payload[i].phone # Nil => Stored(q.payload[i].id))
  /\ q.op = "inboundRow" => Passed(q) \in DOMAIN q.payload /\ q.row.of = q.payload[Passed(q)].id

Delivers(q) == q.op \in {"inbound", "inboundRow"}

Owes(q, p, i) ==
  /\ Delivers(q) /\ q.payload = p
  /\ Passed(q) < i \/ (Passed(q) = i /\ q.op = "inboundRow")

(* A link that was looked up is within the tenant of its request, and what is
   sent is no answer to a delivery. *)
Good(q) ==
  /\ q.op \in {"sent", "inboundRow", "runRow"} => Confined(q.row)
  /\ q.op \in {"sent", "runRow"} => q.row.of = Nil
  /\ Delivers(q) => Progress(q)

Owing(p, i)   == {h \in Handlers : Owes(req[h], p, i)}
Counted(p, i) == Cardinality(RowsOf(p[i].id)) + Cardinality(Owing(p, i)) <= delivered[p]

MessagesInv ==
  /\ \A i \in DOMAIN message : Confined(message[i])
  /\ \A h \in Handlers : Good(req[h])
  /\ \A p \in acked : \A i \in DOMAIN p : p[i].phone # Nil => Stored(p[i].id)
  /\ \A p \in Payloads : \A i \in DOMAIN p : Counted(p, i)

LEMMA LinkedStays ==
  ASSUME DirTyped, DirTyped', Stays, NEW tn, NEW c \in Records \cup {Nil}, LinkedTo(tn, c)
  PROVE  LinkedTo(tn, c)'
<1>1. CASE tn = Nil \/ c = Nil
  BY <1>1 DEF LinkedTo
<1>2. CASE tn # Nil /\ c # Nil
  <2>1. c \in Records /\ rec[c] # Nil /\ (Live(c) => rec[c].tenant = tn)
    BY <1>2 DEF LinkedTo
  <2>2. rec'[c] # Nil /\ (Live(c)' => Live(c) /\ rec'[c].tenant = rec[c].tenant)
    BY <2>1, StaysOf DEF DirTyped
  <2> QED
    BY <2>1, <2>2 DEF LinkedTo
<1> QED
  BY <1>1, <1>2

LEMMA MessageShape ==
  ASSUME NEW m \in Message
  PROVE  m.contact \in Records \cup {Nil} /\ m.of \in Nat \cup {Nil}
  BY DEF Message

LEMMA ConfinedStays ==
  ASSUME DirTyped, DirTyped', Stays, NEW m \in Message, Confined(m)
  PROVE  Confined(m)'
<1>1. CASE ~m.found
  BY <1>1 DEF Confined
<1>2. CASE m.found
  <2>1. LinkedTo(m.tenant, m.contact)'
    BY <1>2, MessageShape, LinkedStays DEF Confined
  <2> QED
    BY <2>1 DEF Confined
<1> QED
  BY <1>1, <1>2

(* What a request carries is typed. *)
LEMMA Carries ==
  ASSUME NEW q, IsRequest(q)
  PROVE  /\ q.op \in {"sent", "inboundRow", "runRow"} => q.row \in Message
         /\ Delivers(q) => q.payload \in Payloads /\ q.rest \in Seq(Incoming)
<1>2. q.op = "sent" => q.row \in Message
  BY RequestShape DEF Sents
<1>3. q.op = "inboundRow" =>
        q.row \in Message /\ q.payload \in Payloads /\ q.rest \in Seq(Incoming)
  BY RequestShape DEF InboundRow
<1>4. q.op = "inbound" => q.payload \in Payloads /\ q.rest \in Seq(Incoming)
  BY RequestShape DEF Inbounds
<1>5. q.op = "runRow" => q.row \in Message
  <2>1. q.op = "runRow" => IsRunRow(q)
    BY RequestShape
  <2>2. IsRunRow(q) => q.row \in Message
    BY DEF IsRunRow
  <2> QED
    BY <2>1, <2>2
<1> QED
  BY <1>2, <1>3, <1>4, <1>5 DEF Delivers

LEMMA PayloadShape ==
  ASSUME NEW p \in Payloads
  PROVE  /\ p \in Seq(Incoming) /\ DOMAIN p = 1..Len(p) /\ Len(p) \in Nat
         /\ \A i \in DOMAIN p : p[i].id \in Nat /\ p[i].phone \in Subject
<1>1. p \in Seq(Incoming)
  BY PayloadsAssumption
<1>2. \A i \in DOMAIN p : p[i] \in Incoming
  BY <1>1
<1> QED
  BY <1>1, <1>2 DEF Incoming, Subject

LEMMA GoodStays ==
  ASSUME DirTyped, DirTyped', Stays, \A id : Stored(id) => Stored(id)',
         NEW q, IsRequest(q), Good(q)
  PROVE  Good(q)'
<1>2. ASSUME q.op \in {"sent", "inboundRow", "runRow"} PROVE Confined(q.row)'
  BY <1>2, Carries, ConfinedStays DEF Good
<1>3. ASSUME Delivers(q) PROVE Progress(q)'
  <2>1. Progress(q)
    BY <1>3 DEF Good
  <2> QED
    BY <2>1 DEF Progress, Passed
<1> QED
  BY <1>2, <1>3 DEF Good, Delivers

(* The rows that answer a message, when one more row is stored *)
LEMMA RowsAppended ==
  ASSUME message \in Seq(Message), NEW m \in Message, message' = Append(message, m), NEW id
  PROVE  /\ m.of = id => RowsOf(id)' = RowsOf(id) \cup {Len(message) + 1}
         /\ m.of # id => RowsOf(id)' = RowsOf(id)
         /\ Stored(id) => Stored(id)'
         /\ Len(message) + 1 \notin RowsOf(id)
<1>1. /\ DOMAIN message = 1..Len(message) /\ DOMAIN message' = 1..(Len(message) + 1)
      /\ message'[Len(message) + 1] = m /\ Len(message) \in Nat
      /\ \A i \in 1..Len(message) : message'[i] = message[i]
  OBVIOUS
<1>2. m.of = id => RowsOf(id)' = RowsOf(id) \cup {Len(message) + 1}
  BY <1>1 DEF RowsOf
<1>3. m.of # id => RowsOf(id)' = RowsOf(id)
  BY <1>1 DEF RowsOf
<1>4. Len(message) + 1 \notin RowsOf(id)
  BY <1>1 DEF RowsOf
<1> QED
  BY <1>2, <1>3, <1>4 DEF Stored

LEMMA RowsFinite ==
  ASSUME message \in Seq(Message), NEW id
  PROVE  IsFiniteSet(RowsOf(id)) /\ Cardinality(RowsOf(id)) \in Nat
<1>1. RowsOf(id) \subseteq 1..Len(message) /\ IsFiniteSet(1..Len(message))
  BY FS_Interval DEF RowsOf
<1> QED
  BY <1>1, FS_Subset, FS_CardinalityType

LEMMA OwingFinite ==
  ASSUME NEW p, NEW i
  PROVE  /\ IsFiniteSet(Owing(p, i)) /\ Cardinality(Owing(p, i)) \in Nat
         /\ \A S : S \subseteq Owing(p, i) =>
              IsFiniteSet(S) /\ Cardinality(S) \in Nat /\ Cardinality(S) <= Cardinality(Owing(p, i))
<1>1. IsFiniteSet(Owing(p, i))
  BY BoundsAssumption, FS_Subset DEF Owing
<1> QED
  BY <1>1, FS_Subset, FS_CardinalityType

LEMMA OwingTurns ==
  ASSUME NEW h \in Handlers, NEW x, Turns(h, x), NEW p, NEW i
  PROVE  /\ \A g \in Handlers \ {h} : g \in Owing(p, i)' <=> g \in Owing(p, i)
         /\ h \in Owing(p, i)' <=> Owes(x, p, i)
         /\ h \in Owing(p, i) <=> Owes(req[h], p, i)
         /\ Owing(p, i)' \subseteq Handlers /\ Owing(p, i) \subseteq Handlers
  BY DEF Owing, Turns

(* Nothing more is owed, and no answer is stored. *)
LEMMA CountStays ==
  ASSUME message \in Seq(Message), NEW h \in Handlers, NEW x, Turns(h, x), NEW p, NEW i, Counted(p, i),
         Owes(x, p, i) => Owes(req[h], p, i), RowsOf(p[i].id)' = RowsOf(p[i].id),
         delivered' = delivered, delivered[p] \in Nat
  PROVE  Counted(p, i)'
<1>1. Owing(p, i)' \subseteq Owing(p, i)
  BY OwingTurns
<1> PICK a : a = Cardinality(Owing(p, i))
  OBVIOUS
<1> PICK b : b = Cardinality(Owing(p, i)')
  OBVIOUS
<1> PICK c : c = Cardinality(RowsOf(p[i].id))
  OBVIOUS
<1>2. a \in Nat /\ b \in Nat /\ b <= a
  BY <1>1, OwingFinite
<1>3. c \in Nat /\ c = Cardinality(RowsOf(p[i].id)')
  BY RowsFinite
<1>4. c + a <= delivered[p]
  BY DEF Counted
<1>5. c + b <= delivered'[p]
  BY <1>2, <1>3, <1>4
<1> QED
  BY <1>3, <1>5 DEF Counted

(* The requests stay good, as long as what is stored stays so. *)
LEMMA RequestsStayGood ==
  ASSUME DirTyped, MessagesInv, DirTyped', Stays, NEW h \in Handlers, NEW x, Turns(h, x), Good(x)',
         \A id : Stored(id) => Stored(id)'
  PROVE  \A g \in Handlers : Good(req[g])'
<1>1. ASSUME NEW g \in Handlers, NEW y, y = req'[g] PROVE Good(y)'
  <2>1. CASE g = h
    BY <1>1, <2>1 DEF Turns
  <2>2. CASE g # h
    <3>1. y = req[g] /\ IsRequest(y) /\ Good(y)
      BY <1>1, <2>2 DEF Turns, DirTyped, Requesting, MessagesInv
    <3> QED
      BY <3>1, GoodStays
  <2> QED
    BY <2>1, <2>2
<1> QED
  BY <1>1

(* The rows stay linked, and so is one that was, when it is stored. *)
LEMMA RowsStayLinked ==
  ASSUME DirTyped, MsgTyped, MessagesInv, DirTyped', Stays,
         \/ message' = message
         \/ \E m \in Message : Confined(m) /\ message' = Append(message, m)
  PROVE  \A i \in DOMAIN message' : Confined(message[i])'
<1>1. ASSUME NEW i \in DOMAIN message', NEW y, y = message'[i] PROVE Confined(y)'
  <2>1. y \in Message /\ Confined(y)
    <3>1. CASE message' = message
      BY <1>1, <3>1 DEF MsgTyped, MessagesInv
    <3>2. ASSUME NEW m \in Message, Confined(m), message' = Append(message, m)
          PROVE  y \in Message /\ Confined(y)
      <4>1. y = m \/ (i \in DOMAIN message /\ y = message[i])
        BY <1>1, <3>2 DEF MsgTyped
      <4> QED
        BY <3>2, <4>1 DEF MsgTyped, MessagesInv
    <3> QED
      BY <3>1, <3>2
  <2> QED
    BY <2>1, ConfinedStays
<1> QED
  BY <1>1

(* A step that leaves messages and deliveries as they are *)
LEMMA MessagesStay ==
  ASSUME DirTyped, MsgTyped, MessagesInv, DirTyped', Stays, NEW h \in Handlers, NEW x,
         Turns(h, x), Good(x)', \A p \in Payloads : \A i \in DOMAIN p : Owes(x, p, i) => Owes(req[h], p, i),
         message' = message, delivered' = delivered, acked' = acked
  PROVE  MessagesInv'
<1>1. \A id : RowsOf(id)' = RowsOf(id) /\ (Stored(id) => Stored(id)')
  BY DEF RowsOf, Stored
<1>2. \A i \in DOMAIN message' : Confined(message[i])'
  BY RowsStayLinked
<1>3. \A g \in Handlers : Good(req[g])'
  BY <1>1, RequestsStayGood
<1>4. \A p \in acked' : \A i \in DOMAIN p : p[i].phone # Nil => Stored(p[i].id)'
  BY <1>1 DEF MessagesInv
<1>5. \A p \in Payloads : \A i \in DOMAIN p : Counted(p, i)'
  BY <1>1, CountStays DEF MessagesInv, MsgTyped
<1> QED
  BY <1>2, <1>3, <1>4, <1>5 DEF MessagesInv

(* A step that stores a text that was sent *)
LEMMA SentStored ==
  ASSUME DirTyped, MsgTyped, MessagesInv, DirTyped', Stays, NEW h \in Handlers, NEW x,
         Turns(h, x), Good(x)', ~Delivers(x), NEW m \in Message, m.of = Nil,
         Confined(m), message' = Append(message, m),
         delivered' = delivered, acked' = acked
  PROVE  MessagesInv'
<1>1. \A id : id \in Nat => RowsOf(id)' = RowsOf(id)
  BY RowsAppended, NilAssumption DEF MsgTyped
<1>2. \A id : Stored(id) => Stored(id)'
  BY RowsAppended DEF MsgTyped
<1>3. \A i \in DOMAIN message' : Confined(message[i])'
  BY RowsStayLinked
<1>4. \A g \in Handlers : Good(req[g])'
  BY <1>2, RequestsStayGood
<1>5. \A p \in acked' : \A i \in DOMAIN p : p[i].phone # Nil => Stored(p[i].id)'
  BY <1>2 DEF MessagesInv
<1>6. ASSUME NEW p \in Payloads, NEW i \in DOMAIN p PROVE Counted(p, i)'
  <2>1. RowsOf(p[i].id)' = RowsOf(p[i].id)
    BY <1>1, PayloadShape
  <2>2. ~Owes(x, p, i) /\ Counted(p, i) /\ delivered[p] \in Nat
    BY DEF Owes, MessagesInv, MsgTyped
  <2> QED
    BY <2>1, <2>2, CountStays DEF MsgTyped
<1> QED
  BY <1>3, <1>4, <1>5, <1>6 DEF MessagesInv

-----------------------------------------------------------------------------
(* A delivery, message after message *)

(* The delivery q of p has passed k messages. *)
At(q, k, p, rest) ==
  /\ q.payload = p /\ q.rest = rest /\ k = Len(p) - Len(rest) /\ k = Passed(q)
  /\ \A j \in 1..Len(rest) : rest[j] = p[k + j]
  /\ \A i \in DOMAIN p : i < k \/ (i = k /\ q.op = "inbound") =>
       (p[i].phone # Nil => Stored(p[i].id))
  /\ q.op = "inboundRow" => k \in DOMAIN p /\ q.row.of = p[k].id

LEMMA ProgressShape ==
  ASSUME MessagesInv, DirTyped, NEW h \in Handlers, NEW q, q = req[h], Delivers(q)
  PROVE  \E k \in Nat, p \in Payloads, rest \in Seq(Incoming) : At(q, k, p, rest)
<1>1. Progress(q) /\ IsRequest(q)
  BY DEF MessagesInv, Good, DirTyped, Requesting
<1>2. PICK p \in Payloads, rest \in Seq(Incoming) : q.payload = p /\ q.rest = rest
  BY <1>1, Carries
<1>3. PICK k \in Nat : k = Passed(q)
  BY <1>1 DEF Progress
<1>4. k = Len(p) - Len(rest)
  BY <1>2, <1>3 DEF Passed
<1>5. At(q, k, p, rest)
  BY <1>1, <1>2, <1>3, <1>4 DEF Progress, At
<1> QED
  BY <1>5

LEMMA AtProgress ==
  ASSUME NEW q, NEW k \in Nat, NEW p, NEW rest, At(q, k, p, rest)'
  PROVE  Progress(q)'
  BY DEF At, Progress

(* The message at the head of the rest is the next one of the payload. *)
LEMMA NextOfRest ==
  ASSUME NEW p \in Payloads, NEW rest \in Seq(Incoming), rest # <<>>, NEW k \in Nat,
         k = Len(p) - Len(rest), \A j \in 1..Len(rest) : rest[j] = p[k + j]
  PROVE  /\ Head(rest) = p[k + 1] /\ k + 1 \in DOMAIN p /\ Tail(rest) \in Seq(Incoming)
         /\ k + 1 = Len(p) - Len(Tail(rest))
         /\ \A j \in 1..Len(Tail(rest)) : Tail(rest)[j] = p[(k + 1) + j]
<1>1. Len(rest) \in Nat /\ Len(rest) > 0 /\ Len(p) \in Nat
  BY PayloadShape
<1>2. Head(rest) = rest[1] /\ Tail(rest) \in Seq(Incoming) /\ Len(Tail(rest)) = Len(rest) - 1
      /\ \A j \in 1..Len(Tail(rest)) : Tail(rest)[j] = rest[j + 1]
  BY <1>1
<1>3. k + 1 \in DOMAIN p
  BY <1>1, PayloadShape
<1>4. \A j \in 1..Len(Tail(rest)) : Tail(rest)[j] = p[(k + 1) + j]
  BY <1>1, <1>2
<1> QED
  BY <1>1, <1>2, <1>3, <1>4

LEMMA InboundLinked ==
  ASSUME DirTyped, MsgTyped, MessagesInv, NEW h \in Handlers, InboundLinks(h)
  PROVE  \E x : /\ Turns(h, x) /\ IsMsgRequest(x) /\ Good(x)'
                /\ \A p \in Payloads : \A i \in DOMAIN p : Owes(x, p, i) => Owes(req[h], p, i)
<1> PICK q : q = req[h]
  OBVIOUS
<1>1. q.op = "inbound" /\ Delivers(q) /\ q \in Inbounds
  BY RequestShape DEF InboundLinks, Held1, Delivers, DirTyped, Requesting
<1>0. PICK k \in Nat, p \in Payloads, rest \in Seq(Incoming) : At(q, k, p, rest)
  BY <1>1, ProgressShape
<1>2. /\ q.payload = p /\ q.rest = rest /\ k = Len(p) - Len(rest) /\ k = Passed(q)
      /\ \A j \in 1..Len(rest) : rest[j] = p[k + j]
      /\ \A i \in DOMAIN p : i <= k => (p[i].phone # Nil => Stored(p[i].id))
  <2>1. \A i \in DOMAIN p : i <= k => i < k \/ i = k
    BY PayloadShape
  <2> QED
    BY <1>0, <1>1, <2>1 DEF At
<1>3. rest # <<>>
  BY <1>2 DEF InboundLinks
<1> PICK m : m = Head(rest)
  OBVIOUS
<1> PICK tail : tail = Tail(rest)
  OBVIOUS
<1>4. /\ m = p[k + 1] /\ k + 1 \in DOMAIN p /\ tail \in Seq(Incoming)
      /\ k + 1 = Len(p) - Len(tail)
      /\ \A j \in 1..Len(tail) : tail[j] = p[(k + 1) + j]
  BY <1>2, <1>3, NextOfRest
<1>5. m.id \in Nat /\ m.phone \in Subject /\ DOMAIN p \subseteq Nat
  BY <1>4, PayloadShape
<1>6. UNCHANGED <<rec, message>>
  BY DEF InboundLinks, directoryOnly, msgVars
<1>n. k + 1 \in Nat
  OBVIOUS
<1>7. CASE m.phone = Nil
  <2> PICK x : x = [q EXCEPT !.rest = tail]
    OBVIOUS
  <2>1. Turns(h, x)
    BY <1>2, <1>7, GoesTurns DEF InboundLinks, SkipSenderless, DirTyped
  <2>2. x \in Inbounds /\ x.op = "inbound" /\ x.payload = p /\ x.rest = tail
    BY <1>1, <1>2, <1>4 DEF Inbounds
  <2>3. Passed(x) = k + 1
    BY <1>4, <2>2 DEF Passed
  <2>4. ASSUME NEW i \in DOMAIN p, i <= k + 1, p[i].phone # Nil PROVE Stored(p[i].id)'
    <3>1. i # k + 1
      BY <1>4, <1>7, <2>4
    <3>2. i <= k
      BY <1>5, <2>4, <3>1
    <3>3. Stored(p[i].id)
      BY <1>1, <1>2, <1>5, <2>4, <3>2
    <3> QED
      BY <1>6, <3>3 DEF Stored, RowsOf
  <2>s. At(x, k + 1, p, tail)'
    BY <1>4, <1>5, <2>2, <2>3, <2>4 DEF At
  <2>5. Progress(x)'
    BY <1>n, <2>s, AtProgress
  <2>6. Good(x)'
    BY <2>2, <2>5 DEF Good
  <2>7. \A o \in Payloads : \A i \in DOMAIN o : Owes(x, o, i) => Owes(q, o, i)
    BY <1>1, <1>2, <2>2, <2>3, PayloadShape DEF Owes
  <2> QED
    BY <2>1, <2>2, <2>6, <2>7 DEF IsMsgRequest
<1>8. CASE m.phone # Nil
  <2> PICK c : c = Newest(Nil, m.phone)
    OBVIOUS
  <2> PICK row : row = [direction |-> "IN", phone |-> m.phone, tenant |-> Nil,
                        contact |-> c, found |-> TRUE, of |-> m.id]
    OBVIOUS
  <2> PICK x : x = [op |-> "inboundRow", payload |-> p, rest |-> tail, row |-> row]
    OBVIOUS
  <2>1. Turns(h, x)
    BY <1>2, <1>8, GoesTurns DEF InboundLinks, DirTyped
  <2>2. c \in Records \cup {Nil}
    BY NewestTyped
  <2>3. row \in Message /\ row.tenant = Nil /\ row.of = m.id
    BY <1>5, <1>8, <2>2 DEF Message, Subject
  <2>4. x \in InboundRow /\ x.op = "inboundRow" /\ x.payload = p /\ x.rest = tail /\ x.row = row
    BY <1>4, <2>3 DEF InboundRow
  <2>5. Passed(x) = k + 1
    BY <1>4, <2>4 DEF Passed
  <2>6. ASSUME NEW i \in DOMAIN p, i < k + 1, p[i].phone # Nil PROVE Stored(p[i].id)'
    <3>1. Stored(p[i].id)
      BY <1>1, <1>2, <1>5, <2>6
    <3> QED
      BY <1>6, <3>1 DEF Stored, RowsOf
  <2>s. At(x, k + 1, p, tail)'
    BY <1>4, <1>5, <2>3, <2>4, <2>5, <2>6 DEF At
  <2>7. Progress(x)'
    BY <1>n, <2>s, AtProgress
  <2>8. Good(x)'
    BY <2>3, <2>4, <2>7 DEF Good, Confined, LinkedTo
  <2>9. \A o \in Payloads : \A i \in DOMAIN o : Owes(x, o, i) => Owes(q, o, i)
    BY <1>1, <1>2, <2>4, <2>5, PayloadShape DEF Owes
  <2> QED
    BY <2>1, <2>4, <2>8, <2>9 DEF IsMsgRequest
<1> QED
  BY <1>7, <1>8

(* The message that was linked is stored: what h owed it owes no more. *)
LEMMA InboundStored ==
  ASSUME DirTyped, MsgTyped, MessagesInv, DirTyped', Stays, NEW h \in Handlers, InboundStores(h)
  PROVE  /\ MessagesInv'
         /\ \E x : Turns(h, x) /\ IsMsgRequest(x)
         /\ \E m \in Message : message' = Append(message, m)
<1> PICK q : q = req[h]
  OBVIOUS
<1>1. q.op = "inboundRow" /\ Delivers(q) /\ q \in InboundRow
  BY RequestShape DEF InboundStores, Held1, Delivers, DirTyped, Requesting
<1>0. PICK k \in Nat, p \in Payloads, rest \in Seq(Incoming) : At(q, k, p, rest)
  BY <1>1, ProgressShape
<1>2. /\ q.payload = p /\ q.rest = rest /\ k = Len(p) - Len(rest) /\ k = Passed(q)
      /\ \A j \in 1..Len(rest) : rest[j] = p[k + j]
      /\ \A i \in DOMAIN p : i < k => (p[i].phone # Nil => Stored(p[i].id))
      /\ k \in DOMAIN p /\ q.row.of = p[k].id
  BY <1>0, <1>1 DEF At
<1>3. PICK m \in Message : m = q.row /\ m.of = p[k].id /\ Confined(m)
  BY <1>1, <1>2 DEF InboundRow, MessagesInv, Good
<1> PICK x : x = [op |-> "inbound", payload |-> p, rest |-> rest]
  OBVIOUS
<1>4. /\ Turns(h, x) /\ message' = Append(message, m)
      /\ delivered' = delivered /\ acked' = acked
  BY <1>2, <1>3, GoesTurns DEF InboundStores, DirTyped
<1>5. x \in Inbounds /\ x.op = "inbound" /\ x.payload = p /\ x.rest = rest /\ Passed(x) = k
  BY <1>2 DEF Inbounds, Passed
<1>6. \A id : Stored(id) => Stored(id)'
  BY <1>4, RowsAppended DEF MsgTyped
<1>7. Stored(p[k].id)'
  BY <1>3, <1>4, RowsAppended DEF MsgTyped, Stored
<1>8. At(x, k, p, rest)'
  <2>1. \A i \in DOMAIN p : i < k \/ i = k => (p[i].phone # Nil => Stored(p[i].id)')
    BY <1>2, <1>6, <1>7
  <2> QED
    BY <1>2, <1>5, <2>1 DEF At
<1>9. Good(x)'
  BY <1>5, <1>8, AtProgress DEF Good
<1>10. \A i \in DOMAIN message' : Confined(message[i])'
  BY <1>3, <1>4, RowsStayLinked
<1>11. \A g \in Handlers : Good(req[g])'
  BY <1>4, <1>6, <1>9, RequestsStayGood
<1>12. \A o \in acked' : \A i \in DOMAIN o : o[i].phone # Nil => Stored(o[i].id)'
  BY <1>4, <1>6 DEF MessagesInv
<1>13. ASSUME NEW o \in Payloads, NEW i \in DOMAIN o PROVE Counted(o, i)'
  <2>1. CASE o = p /\ i = k
    <3>1. Owing(p, k)' = Owing(p, k) \ {h} /\ h \in Owing(p, k)
      <4>1. ~Owes(x, p, k)
        BY <1>5 DEF Owes
      <4>2. Owes(q, p, k)
        BY <1>1, <1>2 DEF Owes
      <4> QED
        BY <1>4, <4>1, <4>2, OwingTurns
    <3>2. IsFiniteSet(Owing(p, k)) /\ Cardinality(Owing(p, k)) \in Nat
      BY OwingFinite
    <3>3. Cardinality(Owing(p, k)') = Cardinality(Owing(p, k)) - 1
      BY <3>1, <3>2, FS_RemoveElement
    <3>4. RowsOf(p[k].id)' = RowsOf(p[k].id) \cup {Len(message) + 1}
          /\ Len(message) + 1 \notin RowsOf(p[k].id)
      BY <1>3, <1>4, RowsAppended DEF MsgTyped
    <3>5. IsFiniteSet(RowsOf(p[k].id)) /\ Cardinality(RowsOf(p[k].id)) \in Nat
      BY RowsFinite DEF MsgTyped
    <3>6. Cardinality(RowsOf(p[k].id)') = Cardinality(RowsOf(p[k].id)) + 1
      BY <3>4, <3>5, FS_AddElement
    <3>7. Counted(p, k) /\ delivered[p] \in Nat
      BY <1>2 DEF MessagesInv, MsgTyped
    <3>8. Cardinality(RowsOf(p[k].id)') + Cardinality(Owing(p, k)') <= delivered'[p]
      BY <1>4, <3>2, <3>3, <3>5, <3>6, <3>7 DEF Counted
    <3> QED
      BY <2>1, <3>8 DEF Counted
  <2>2. CASE ~(o = p /\ i = k)
    <3>1. m.of # o[i].id
      BY <1>2, <1>3, <2>2, PayloadsAssumption
    <3>2. RowsOf(o[i].id)' = RowsOf(o[i].id)
      BY <1>4, <3>1, RowsAppended DEF MsgTyped
    <3>3. Owes(x, o, i) => Owes(q, o, i)
      BY <1>1, <1>2, <1>5 DEF Owes, Delivers
    <3>4. Counted(o, i) /\ delivered[o] \in Nat
      BY DEF MessagesInv, MsgTyped
    <3> QED
      BY <1>4, <3>2, <3>3, <3>4, CountStays DEF MsgTyped
  <2> QED
    BY <2>1, <2>2
<1> QED
  BY <1>4, <1>5, <1>10, <1>11, <1>12, <1>13 DEF MessagesInv, IsMsgRequest

LEMMA Delivered ==
  ASSUME DirTyped, MsgTyped, MessagesInv, DirTyped', Stays,
         NEW h \in Handlers, NEW p \in Payloads, Deliver(h, p)
  PROVE  MessagesInv'
<1> PICK x : x = [op |-> "inbound", payload |-> p, rest |-> p]
  OBVIOUS
<1>1. /\ Turns(h, x) /\ req[h] = Idle /\ message' = message /\ acked' = acked
      /\ delivered' = [delivered EXCEPT ![p] = @ + 1]
  BY BeginTurns DEF Deliver, DirTyped
<1>2. x.op = "inbound" /\ x.payload = p /\ x.rest = p /\ Passed(x) = 0
  BY PayloadShape DEF Passed
<1>3. At(x, 0, p, p)'
  <2>1. \A i \in DOMAIN p : ~(i < 0) /\ i # 0
    BY PayloadShape
  <2>2. \A j \in 1..Len(p) : p[j] = p[0 + j]
    BY PayloadShape
  <2>3. 0 = Len(p) - Len(p)
    BY PayloadShape
  <2> QED
    BY <1>2, <2>1, <2>2, <2>3 DEF At
<1>4. Good(x)'
  BY <1>2, <1>3, AtProgress DEF Good
<1>5. \A id : RowsOf(id)' = RowsOf(id) /\ (Stored(id) => Stored(id)')
  BY <1>1 DEF RowsOf, Stored
<1>6. \A i \in DOMAIN message' : Confined(message[i])'
  BY <1>1, RowsStayLinked
<1>7. \A g \in Handlers : Good(req[g])'
  BY <1>1, <1>4, <1>5, RequestsStayGood
<1>8. \A o \in acked' : \A i \in DOMAIN o : o[i].phone # Nil => Stored(o[i].id)'
  BY <1>1, <1>5 DEF MessagesInv
<1>9. ASSUME NEW o \in Payloads, NEW i \in DOMAIN o PROVE Counted(o, i)'
  <2>1. /\ Counted(o, i) /\ delivered[o] \in Nat
        /\ delivered'[o] = IF o = p THEN delivered[o] + 1 ELSE delivered[o]
    BY <1>1 DEF MessagesInv, MsgTyped
  <2>2. IsFiniteSet(Owing(o, i)) /\ Cardinality(Owing(o, i)) \in Nat
    BY OwingFinite
  <2>3. Cardinality(RowsOf(o[i].id)) \in Nat
    BY RowsFinite DEF MsgTyped
  <2>4. ~Owes(req[h], o, i)
    BY <1>1 DEF Owes, Delivers, Idle
  <2>5. CASE o = p
    <3>1. Owing(o, i)' \subseteq Owing(o, i) \cup {h}
      BY <1>1, OwingTurns
    <3>2. h \notin Owing(o, i)
      BY <1>1, <2>4, OwingTurns
    <3>3. /\ IsFiniteSet(Owing(o, i) \cup {h})
          /\ Cardinality(Owing(o, i) \cup {h}) = Cardinality(Owing(o, i)) + 1
      BY <2>2, <3>2, FS_AddElement
    <3>4. Cardinality(Owing(o, i)') <= Cardinality(Owing(o, i)) + 1 /\ Cardinality(Owing(o, i)') \in Nat
      BY <3>1, <3>3, FS_Subset, FS_CardinalityType
    <3>5. Cardinality(RowsOf(o[i].id)') + Cardinality(Owing(o, i)') <= delivered'[o]
      BY <1>5, <2>1, <2>2, <2>3, <2>5, <3>4 DEF Counted
    <3> QED
      BY <3>5 DEF Counted
  <2>6. CASE o # p
    <3>1. Owing(o, i)' = Owing(o, i)
      <4>1. ~Owes(x, o, i)
        BY <1>2, <2>6 DEF Owes
      <4> QED
        BY <1>1, <2>4, <4>1, OwingTurns
    <3> QED
      BY <1>5, <2>1, <2>6, <3>1 DEF Counted
  <2> QED
    BY <2>5, <2>6
<1> QED
  BY <1>6, <1>7, <1>8, <1>9 DEF MessagesInv

LEMMA Acknowledged ==
  ASSUME DirTyped, MsgTyped, MessagesInv, DirTyped', Stays, NEW h \in Handlers, Acknowledge(h)
  PROVE  MessagesInv' /\ \E p \in Payloads : acked' = acked \cup {p}
<1> PICK q : q = req[h]
  OBVIOUS
<1>1. q.op = "inbound" /\ Delivers(q) /\ q \in Inbounds
  BY RequestShape DEF Acknowledge, Held1, Delivers, DirTyped, Requesting
<1>0. PICK k \in Nat, p \in Payloads, rest \in Seq(Incoming) : At(q, k, p, rest)
  BY <1>1, ProgressShape
<1>2. /\ q.payload = p /\ q.rest = rest /\ k = Len(p) - Len(rest) /\ rest = <<>>
      /\ \A i \in DOMAIN p : i < k \/ i = k => (p[i].phone # Nil => Stored(p[i].id))
  BY <1>0, <1>1 DEF At, Acknowledge
<1>3. \A i \in DOMAIN p : p[i].phone # Nil => Stored(p[i].id)
  <2>1. k = Len(p)
    BY <1>2, PayloadShape
  <2>2. \A i \in DOMAIN p : i < k \/ i = k
    BY <2>1, PayloadShape
  <2> QED
    BY <1>2, <2>2
<1>4. /\ Turns(h, Idle) /\ message' = message /\ delivered' = delivered /\ acked' = acked \cup {p}
  BY <1>2, DoneTurns DEF Acknowledge, DirTyped
<1>5. Good(Idle)' /\ \A o, i : ~Owes(Idle, o, i)
  BY DEF Good, Idle, Delivers, Owes
<1>6. \A id : RowsOf(id)' = RowsOf(id) /\ (Stored(id) => Stored(id)')
  BY <1>4 DEF RowsOf, Stored
<1>7. \A i \in DOMAIN message' : Confined(message[i])'
  BY <1>4, RowsStayLinked
<1>8. \A g \in Handlers : Good(req[g])'
  BY <1>4, <1>5, <1>6, RequestsStayGood
<1>9. \A o \in acked' : \A i \in DOMAIN o : o[i].phone # Nil => Stored(o[i].id)'
  BY <1>3, <1>4, <1>6 DEF MessagesInv
<1>10. \A o \in Payloads : \A i \in DOMAIN o : Counted(o, i)'
  BY <1>4, <1>5, <1>6, CountStays DEF MessagesInv, MsgTyped
<1> QED
  BY <1>4, <1>7, <1>8, <1>9, <1>10 DEF MessagesInv

-----------------------------------------------------------------------------
(* The inductive invariant, and the steps of messages and rules *)

DirInv == DirTyped /\ Aims /\ DealInv /\ ImportInv
IInv   == DirInv /\ MsgTyped /\ MessagesInv

(* The Directory does not see what messages and rules do. *)
LEMMA DirectoryStays ==
  ASSUME DirInv, NEW h \in Handlers, NEW x, Turns(h, x), x = Idle \/ IsMsgRequest(x),
         UNCHANGED directoryOnly
  PROVE  DirInv' /\ Stays
<1>1. IsRequest(x) /\ x.op \notin {"merge", "erase", "importRow"}
  BY MsgShape DEF IsRequest, Idle, MsgOps
<1>2. Kept /\ Quiet(h)
  BY <1>1, RowsKept DEF directoryOnly, DirInv
<1>3. ImportInv'
  BY <1>1, <1>2, ImportStays DEF Kept, DirInv
<1> QED
  BY <1>2, <1>3 DEF Kept, DirInv

LEMMA MsgTypes ==
  ASSUME DirTyped, MsgTyped, NEW h \in Handlers, NEW x, Turns(h, x), delivered' = delivered,
         rule' \in [Rules -> Rule \cup {Nil, Gone}], message' \in Seq(Message),
         activity' \in [Deals -> Nat], mail' \in [{"SENT", "FAILED"} -> Nat],
         acked' \subseteq Payloads
  PROVE  MsgTyped'
<1>1. ASSUME NEW p \in Payloads PROVE delivered'[p] <= requests'
  BY DEF MsgTyped, Turns, DirTyped, Requesting
<1> QED
  BY <1>1 DEF MsgTyped

(* A request that carries no message and no link *)
Plain(x) == x = Idle \/ x \in Events \/ IsRun(x)

LEMMA PlainShape ==
  ASSUME NEW x, Plain(x)
  PROVE  (x = Idle \/ IsMsgRequest(x)) /\ Good(x)' /\ \A p, i : ~Owes(x, p, i)
<1>1. x.op \in {"idle", "event", "run"}
  <2>1. IsRun(x) => x.op = "run"
    BY DEF IsRun, Runs
  <2> QED
    BY <2>1 DEF Plain, Idle, Events
<1> QED
  BY <1>1 DEF Plain, IsMsgRequest, Good, Delivers, Owes

LEMMA PlainStep ==
  ASSUME IInv, NEW h \in Handlers, NEW x, Turns(h, x), Plain(x),
         UNCHANGED <<directoryOnly, message, delivered, acked>>,
         rule' \in [Rules -> Rule \cup {Nil, Gone}],
         activity' \in [Deals -> Nat], mail' \in [{"SENT", "FAILED"} -> Nat]
  PROVE  IInv'
<1>1. DirInv' /\ Stays
  BY PlainShape, DirectoryStays DEF IInv
<1>2. MsgTyped'
  <2>1. message' \in Seq(Message) /\ acked' \subseteq Payloads
    BY DEF IInv, MsgTyped
  <2> QED
    BY <2>1, MsgTypes DEF IInv, DirInv
<1>3. MessagesInv'
  BY <1>1, PlainShape, MessagesStay DEF IInv, DirInv
<1> QED
  BY <1>1, <1>2, <1>3 DEF IInv

LEMMA PerformedIsRun ==
  ASSUME NEW q, IsRun(q), NEW ok
  PROVE  IsRun(Performed(q, ok)) /\ Performed(q, ok).event = q.event
<1>1. PICK D, A, T : q \in Runs(D, A, T)
  BY DEF IsRun
<1> PICK u : u = Remaining(q.todo, ok)
  OBVIOUS
<1> PICK v : v = Append(q.done, Head(q.todo))
  OBVIOUS
<1>2. Performed(q, ok) = [q EXCEPT !.todo = u, !.done = v]
  BY DEF Performed
<1>3. [q EXCEPT !.todo = u, !.done = v] \in Runs({v}, A, {u})
      /\ [q EXCEPT !.todo = u, !.done = v].event = q.event
  BY <1>1 DEF Runs
<1> QED
  BY <1>2, <1>3 DEF IsRun

(* The step of a request that carries a message or a link, and stores nothing *)
LEMMA CarryingStep ==
  ASSUME IInv, NEW h \in Handlers, NEW x, Turns(h, x), IsMsgRequest(x), Good(x)',
         \A p \in Payloads : \A i \in DOMAIN p : Owes(x, p, i) => Owes(req[h], p, i),
         UNCHANGED <<directoryOnly, msgVars>>
  PROVE  IInv'
<1>1. DirInv' /\ Stays
  BY DirectoryStays DEF IInv
<1>2. UNCHANGED <<rule, message, activity, mail, delivered, acked>>
  BY DEF msgVars
<1>3. MsgTyped'
  BY <1>2, MsgTypes DEF IInv, DirInv, MsgTyped
<1>4. MessagesInv'
  BY <1>1, <1>2, MessagesStay DEF IInv, DirInv
<1> QED
  BY <1>1, <1>3, <1>4 DEF IInv

(* A text that was sent is stored. *)
LEMMA StoringStep ==
  ASSUME IInv, NEW h \in Handlers, NEW x, Turns(h, x), Plain(x), NEW m \in Message, m.of = Nil,
         Confined(m), message' = Append(message, m),
         UNCHANGED <<directoryOnly, rule, activity, mail, delivered, acked>>
  PROVE  IInv'
<1>1. DirInv' /\ Stays
  BY PlainShape, DirectoryStays DEF IInv
<1>2. message' \in Seq(Message)
  BY DEF IInv, MsgTyped
<1>3. MsgTyped'
  BY <1>2, MsgTypes DEF IInv, DirInv, MsgTyped
<1>4. ~Delivers(x) /\ Good(x)'
  <2>1. IsRun(x) => x.op = "run"
    BY DEF IsRun, Runs
  <2> QED
    BY <2>1, PlainShape DEF Plain, Delivers, Idle, Events
<1>5. MessagesInv'
  BY <1>1, <1>4, SentStored DEF IInv, DirInv
<1> QED
  BY <1>1, <1>3, <1>5 DEF IInv

LEMMA SendSteps ==
  ASSUME IInv, NEW h \in Handlers,
         (\E ctx \in Contexts : StartSend(h, ctx)) \/ Post(h) \/ Store(h)
  PROVE  IInv'
<1>0. DirTyped
  BY DEF IInv, DirInv
<1>1. ASSUME NEW ctx \in Contexts, StartSend(h, ctx) PROVE IInv'
  <2>1. PICK phone \in Subjects, named \in Records \cup {Nil}, given \in BOOLEAN :
          Begin(h, [op |-> "send", tenant |-> ctx, phone |-> phone, given |-> given, named |-> named])
    BY <1>1 DEF StartSend, OfKind
  <2> PICK x : x = [op |-> "send", tenant |-> ctx, phone |-> phone, given |-> given, named |-> named]
    OBVIOUS
  <2>3. Turns(h, x) /\ UNCHANGED <<directoryOnly, msgVars>>
    BY <1>0, <1>1, <2>1, BeginTurns DEF StartSend, DirTyped
  <2>4. x \in Sends /\ x.op = "send"
    BY DEF Sends
  <2>5. Good(x)' /\ \A p, i : ~Owes(x, p, i)
    BY <2>4 DEF Good, Owes, Delivers
  <2> QED
    BY <2>3, <2>4, <2>5, CarryingStep DEF IsMsgRequest
<1>2. CASE Post(h)
  <2>1. req[h].op = "send" /\ req[h] \in Sends
    BY <1>0, <1>2, RequestShape DEF Post, Held1, DirTyped, Requesting
  <2>2. PICK c \in Contexts, phone \in Subjects, given \in BOOLEAN, named \in Records \cup {Nil} :
          c = req[h].tenant /\ phone = req[h].phone /\ given = req[h].given /\ named = req[h].named
    BY <2>1 DEF Sends
  <2> PICK m : m = Out(c, phone, given, named)
    OBVIOUS
  <2>4. Goes(h, [op |-> "sent", row |-> m])
    BY <1>2, <2>2 DEF Post
  <2>5. m \in Message /\ m.of = Nil /\ Confined(m)
    BY <1>0, OutTyped
  <2> PICK x : x = [op |-> "sent", row |-> m]
    OBVIOUS
  <2>6. Turns(h, x) /\ UNCHANGED <<directoryOnly, msgVars>>
    BY <1>0, <1>2, <2>4, GoesTurns DEF Post, DirTyped
  <2>7. x \in Sents /\ x.op = "sent" /\ x.row = m
    BY <2>5 DEF Sents
  <2>8. Good(x)' /\ \A p, i : ~Owes(x, p, i)
    BY <2>5, <2>6, <2>7 DEF Good, Owes, Delivers, Confined, LinkedTo, Live, directoryOnly
  <2> QED
    BY <2>6, <2>7, <2>8, CarryingStep DEF IsMsgRequest
<1>3. CASE Store(h)
  <2>1. req[h].op = "sent" /\ IsRequest(req[h]) /\ Good(req[h])
    BY <1>0, <1>3 DEF Store, Held1, DirTyped, Requesting, IInv, MessagesInv
  <2>2. PICK m \in Message : m = req[h].row /\ m.of = Nil /\ Confined(m)
    BY <2>1, Carries DEF Good
  <2>3. Turns(h, Idle) /\ message' = Append(message, m)
        /\ UNCHANGED <<directoryOnly, rule, activity, mail, delivered, acked>>
    BY <1>0, <1>3, <2>2, DoneTurns DEF Store, DirTyped
  <2> QED
    BY <2>2, <2>3, StoringStep DEF Plain
<1> QED
  BY <1>1, <1>2, <1>3

LEMMA DeliverySteps ==
  ASSUME IInv, NEW h \in Handlers,
         \/ \E p \in Payloads : Deliver(h, p)
         \/ InboundLinks(h) \/ InboundStores(h) \/ Acknowledge(h)
  PROVE  IInv'
<1>0. DirTyped /\ MsgTyped /\ MessagesInv
  BY DEF IInv, DirInv
<1>1. ASSUME NEW p \in Payloads, Deliver(h, p) PROVE IInv'
  <2> PICK x : x = [op |-> "inbound", payload |-> p, rest |-> p]
    OBVIOUS
  <2>1. Turns(h, x) /\ requests' = requests + 1 /\ UNCHANGED directoryOnly
    BY <1>0, <1>1, BeginTurns DEF Deliver, Begin, DirTyped
  <2>2. IsMsgRequest(x)
    BY PayloadShape DEF IsMsgRequest, Inbounds
  <2>3. DirInv' /\ Stays
    BY <2>1, <2>2, DirectoryStays DEF IInv
  <2>4. MsgTyped'
    BY <1>0, <1>1, <2>1 DEF MsgTyped, Deliver, DirTyped, Requesting
  <2>5. MessagesInv'
    BY <1>0, <1>1, <2>3, Delivered DEF DirInv
  <2> QED
    BY <2>3, <2>4, <2>5 DEF IInv
<1>2. CASE InboundLinks(h)
  <2>1. PICK x : /\ Turns(h, x) /\ IsMsgRequest(x) /\ Good(x)'
                 /\ \A p \in Payloads : \A i \in DOMAIN p : Owes(x, p, i) => Owes(req[h], p, i)
    BY <1>0, <1>2, InboundLinked
  <2>2. UNCHANGED <<directoryOnly, msgVars>>
    BY <1>2 DEF InboundLinks
  <2> QED
    BY <2>1, <2>2, CarryingStep
<1>3. CASE InboundStores(h)
  <2>1. UNCHANGED <<directoryOnly, rule, activity, mail, delivered, acked>>
    BY <1>3 DEF InboundStores
  <2>2. req[h] \in InboundRow
    BY <1>0, <1>3, RequestShape DEF InboundStores, Held1, DirTyped, Requesting
  <2>3. PICK p \in Payloads, rest \in Seq(Incoming), m \in Message :
          p = req[h].payload /\ rest = req[h].rest /\ m = req[h].row
    BY <2>2 DEF InboundRow
  <2> PICK x : x = [op |-> "inbound", payload |-> p, rest |-> rest]
    OBVIOUS
  <2>4. Turns(h, x) /\ message' = Append(message, m)
    BY <1>0, <1>3, <2>3, GoesTurns DEF InboundStores, DirTyped
  <2>5. IsMsgRequest(x)
    BY DEF IsMsgRequest, Inbounds
  <2>6. DirInv' /\ Stays
    BY <2>1, <2>4, <2>5, DirectoryStays DEF IInv
  <2>7. message' \in Seq(Message)
    BY <1>0, <2>4 DEF MsgTyped
  <2>8. MsgTyped'
    BY <1>0, <2>1, <2>4, <2>7, MsgTypes DEF MsgTyped
  <2>9. MessagesInv'
    BY <1>0, <1>3, <2>6, InboundStored DEF DirInv
  <2> QED
    BY <2>6, <2>8, <2>9 DEF IInv
<1>4. CASE Acknowledge(h)
  <2>1. Turns(h, Idle) /\ UNCHANGED <<directoryOnly, rule, message, activity, mail, delivered>>
    BY <1>0, <1>4, DoneTurns DEF Acknowledge, DirTyped
  <2>2. DirInv' /\ Stays
    BY <2>1, DirectoryStays DEF IInv
  <2>3. MessagesInv' /\ acked' \subseteq Payloads
    BY <1>0, <1>4, <2>2, Acknowledged DEF DirInv, MsgTyped
  <2>4. MsgTyped'
    BY <1>0, <2>1, <2>3, MsgTypes DEF MsgTyped
  <2> QED
    BY <2>2, <2>3, <2>4 DEF IInv
<1> QED
  BY <1>1, <1>2, <1>3, <1>4

LEMMA RuleSteps ==
  ASSUME IInv, NEW h \in Handlers, NEW ctx \in Contexts, NEW r \in Rules,
         CreateRule(h, ctx, r) \/ UpdateRule(h, ctx, r) \/ RemoveRule(h, ctx, r)
  PROVE  IInv'
<1>1. /\ Turns(h, Idle)
      /\ UNCHANGED <<directoryOnly, message, activity, mail, delivered, acked>>
  BY BeginTurns DEF CreateRule, UpdateRule, RemoveRule, IInv, DirInv, DirTyped
<1>2. rule \in [Rules -> Rule \cup {Nil, Gone}]
  BY DEF IInv, MsgTyped
<1>3. rule' \in [Rules -> Rule \cup {Nil, Gone}]
  <2>1. CASE CreateRule(h, ctx, r)
    <3>1. PICK t \in Triggers, c \in Subjects \cup {Nil}, a \in ActionLists :
            rule' = [rule EXCEPT ![r] = [tenant |-> ctx, trigger |-> t, active |-> TRUE,
                                         equals |-> c, actions |-> a]]
      BY <2>1 DEF CreateRule
    <3>2. [tenant |-> ctx, trigger |-> t, active |-> TRUE, equals |-> c, actions |-> a] \in Rule
      BY ListsAssumption DEF Rule
    <3> QED
      BY <1>2, <3>1, <3>2
  <2>2. CASE UpdateRule(h, ctx, r)
    <3>1. PICK on \in BOOLEAN, c \in {rule[r].equals} \cup Subjects, a \in ActionLists :
            rule' = [rule EXCEPT ![r].active = on, ![r].equals = c, ![r].actions = a]
      BY <2>2 DEF UpdateRule
    <3>2. rule[r] \in Rule
      BY <1>2, <2>2 DEF UpdateRule, RuleSeen
    <3> PICK x : x = [rule[r] EXCEPT !.active = on, !.equals = c, !.actions = a]
      OBVIOUS
    <3>3. x \in Rule
      BY <3>2, ListsAssumption DEF Rule
    <3>4. rule' = [rule EXCEPT ![r] = x]
      BY <1>2, <3>1
    <3> QED
      BY <1>2, <3>3, <3>4
  <2>3. CASE RemoveRule(h, ctx, r)
    BY <1>2, <2>3 DEF RemoveRule
  <2> QED
    BY <2>1, <2>2, <2>3
<1> QED
  BY <1>1, <1>3, PlainStep DEF IInv, MsgTyped, Plain

LEMMA EventSteps ==
  ASSUME IInv, NEW h \in Handlers, (\E ctx \in Contexts : Event(h, ctx)) \/ RunReads(h)
  PROVE  IInv'
<1>0. Requesting
  BY DEF IInv, DirInv, DirTyped
<1>1. UNCHANGED <<directoryOnly, rule, message, activity, mail, delivered, acked>>
  BY DEF Event, RunReads, msgVars
<1>2. ASSUME NEW ctx \in Contexts, Event(h, ctx) PROVE IInv'
  <2>1. PICK t \in Triggers, s \in Subjects \cup {Nil}, d \in {e \in Deals : deal[e] # Nil} \cup {Nil},
             lead \in BOOLEAN :
          Begin(h, [op |-> "event", tenant |-> ctx, trigger |-> t, lead |-> lead,
                    subject |-> s, deal |-> d])
    BY <1>2 DEF Event
  <2>2. [op |-> "event", tenant |-> ctx, trigger |-> t, lead |-> lead, subject |-> s, deal |-> d]
          \in Events
    BY DEF Events, Subject
  <2> QED
    BY <1>0, <1>1, <2>1, <2>2, BeginTurns, PlainStep DEF IInv, MsgTyped, Plain
<1>3. CASE RunReads(h)
  <2>1. req[h].op = "event" /\ req[h] \in Events
    BY <1>0, <1>3, RequestShape DEF RunReads, Held1, Requesting
  <2>2. PICK a, t : Goes(h, [op |-> "run", event |-> req[h], done |-> <<>>, asked |-> a, todo |-> t])
    BY <1>3 DEF RunReads
  <2> PICK x : x = [op |-> "run", event |-> req[h], done |-> <<>>, asked |-> a, todo |-> t]
    OBVIOUS
  <2>3. x \in Runs({<<>>}, {a}, {t})
    BY <2>1 DEF Runs
  <2>4. IsRun(x)
    BY <2>3 DEF IsRun
  <2> QED
    BY <1>0, <1>1, <2>2, <2>4, GoesTurns, PlainStep DEF IInv, MsgTyped, Plain
<1> QED
  BY <1>2, <1>3

LEMMA RunShape ==
  ASSUME NEW q, IsRun(q)
  PROVE  /\ q.event \in Events /\ q.event.tenant \in Contexts
         /\ q.event.lead \in BOOLEAN /\ q.event.deal \in Deals \cup {Nil}
<1>1. q.event \in Events
  BY DEF IsRun, Runs
<1> QED
  BY <1>1 DEF Events

LEMMA ActionSteps ==
  ASSUME IInv, NEW h \in Handlers,
         CreateActivity(h) \/ SendEmail(h) \/ LogOnly(h) \/ RunEnds(h)
  PROVE  IInv'
<1>0. Requesting
  BY DEF IInv, DirInv, DirTyped
<1>1. IsRun(req[h])
  BY <1>0, RequestShape
     DEF CreateActivity, SendEmail, LogOnly, RunEnds, Now, Held1, Requesting
<1>2. /\ UNCHANGED <<directoryOnly, rule, message, delivered, acked>>
      /\ rule \in [Rules -> Rule \cup {Nil, Gone}]
      /\ activity \in [Deals -> Nat] /\ mail \in [{"SENT", "FAILED"} -> Nat]
  BY DEF CreateActivity, SendEmail, LogOnly, RunEnds, msgVars, IInv, MsgTyped
<1>3. ASSUME NEW ok, Goes(h, Performed(req[h], ok))
      PROVE  \E x : Turns(h, x) /\ Plain(x)
  BY <1>0, <1>1, <1>3, GoesTurns, PerformedIsRun DEF Plain
<1>4. CASE CreateActivity(h)
  <2>1. PICK ok \in BOOLEAN :
          /\ activity' = [d \in Deals |->
               activity[d] + (IF ok /\ d = req[h].event.deal THEN 1 ELSE 0)]
          /\ Goes(h, Performed(req[h], ok))
    BY <1>4 DEF CreateActivity
  <2>2. activity' \in [Deals -> Nat]
    BY <1>2, <2>1
  <2>3. mail' = mail
    BY <1>4 DEF CreateActivity
  <2> QED
    BY <1>2, <1>3, <2>1, <2>2, <2>3, PlainStep
<1>5. CASE SendEmail(h)
  <2>1. \E ok : Goes(h, Performed(req[h], ok))
    BY <1>5 DEF SendEmail
  <2>2. mail' \in [{"SENT", "FAILED"} -> Nat]
    BY <1>2, <1>5 DEF SendEmail
  <2>3. activity' = activity
    BY <1>5 DEF SendEmail
  <2> QED
    BY <1>2, <1>3, <2>1, <2>2, <2>3, PlainStep
<1>6. CASE LogOnly(h)
  <2>1. Goes(h, Performed(req[h], TRUE)) /\ activity' = activity /\ mail' = mail
    BY <1>6 DEF LogOnly, msgVars
  <2> QED
    BY <1>2, <1>3, <2>1, PlainStep
<1>7. CASE RunEnds(h)
  <2>1. Done(h) /\ activity' = activity /\ mail' = mail
    BY <1>7 DEF RunEnds
  <2> QED
    BY <1>0, <1>2, <2>1, DoneTurns, PlainStep DEF Plain
<1> QED
  BY <1>4, <1>5, <1>6, <1>7

LEMMA RunPostSteps ==
  ASSUME IInv, NEW h \in Handlers, RunPosts(h)
  PROVE  IInv'
<1>0. Requesting /\ DirTyped
  BY DEF IInv, DirInv, DirTyped
<1> PICK q : q = req[h]
  OBVIOUS
<1>1. IsRun(q)
  BY <1>0, RequestShape DEF RunPosts, Now, Held1, Requesting
<1>2. UNCHANGED <<directoryOnly, msgVars>>
  BY DEF RunPosts
<1>3. ASSUME NEW ok, Goes(h, Performed(q, ok)) PROVE IInv'
  <2>1. \E x : Turns(h, x) /\ Plain(x)
    BY <1>0, <1>1, <1>3, GoesTurns, PerformedIsRun DEF Plain
  <2> QED
    BY <1>2, <2>1, PlainStep DEF msgVars, IInv, MsgTyped
<1>4. ASSUME NEW to \in Subjects,
             Goes(h, [op |-> "runRow", run |-> q,
                      row |-> Out(q.event.tenant, to, q.event.lead, Nil)])
      PROVE  IInv'
  <2>1. PICK c \in Contexts, lead \in BOOLEAN : c = q.event.tenant /\ lead = q.event.lead
    BY <1>1, RunShape
  <2> PICK m : m = Out(c, to, lead, Nil)
    OBVIOUS
  <2>3. m \in Message /\ m.of = Nil /\ Confined(m)
    BY <1>0, OutTyped
  <2> PICK x : x = [op |-> "runRow", run |-> q, row |-> m]
    OBVIOUS
  <2>4. Turns(h, x)
    BY <1>0, <1>4, <2>1, GoesTurns
  <2>5. IsMsgRequest(x) /\ x.op = "runRow" /\ x.row = m
    BY <1>1, <2>3 DEF IsMsgRequest, IsRunRow
  <2>6. Good(x)' /\ \A p, i : ~Owes(x, p, i)
    BY <1>2, <2>3, <2>5 DEF Good, Owes, Delivers, Confined, LinkedTo, Live, directoryOnly
  <2> QED
    BY <1>2, <2>4, <2>5, <2>6, CarryingStep
<1> QED
  BY <1>3, <1>4 DEF RunPosts

LEMMA RunStoreSteps ==
  ASSUME IInv, NEW h \in Handlers, RunStores(h)
  PROVE  IInv'
<1>0. Requesting /\ DirTyped
  BY DEF IInv, DirInv, DirTyped
<1> PICK q : q = req[h]
  OBVIOUS
<1>1. q.op = "runRow" /\ IsRunRow(q) /\ IsRequest(q) /\ Good(q)
  BY <1>0, RequestShape DEF RunStores, Held1, Requesting, IInv, MessagesInv
<1>2. PICK m \in Message : m = q.row /\ m.of = Nil /\ Confined(m)
  BY <1>1, Carries DEF Good
<1>3. IsRun(q.run)
  BY <1>1 DEF IsRunRow
<1>4. PICK ok \in BOOLEAN : /\ message' = IF ok THEN Append(message, m) ELSE message
                            /\ Goes(h, Performed(q.run, ok))
  BY <1>2 DEF RunStores
<1>5. UNCHANGED <<directoryOnly, rule, activity, mail, delivered, acked>>
  BY DEF RunStores
<1>6. PICK x : Turns(h, x) /\ Plain(x)
  BY <1>0, <1>3, <1>4, GoesTurns, PerformedIsRun DEF Plain
<1>7. CASE ok
  BY <1>2, <1>4, <1>5, <1>6, <1>7, StoringStep
<1>8. CASE ~ok
  BY <1>4, <1>5, <1>6, <1>8, PlainStep DEF IInv, MsgTyped
<1> QED
  BY <1>7, <1>8

-----------------------------------------------------------------------------
LEMMA DirectorySteps ==
  ASSUME IInv, DNext, UNCHANGED msgVars
  PROVE  IInv'
<1>1. PICK h \in Handlers : (\E ctx \in Contexts : StartOn(h, ctx)) \/ Step(h)
  BY DEF DNext
<1>2. Kept /\ DirTurned(h) /\ ImportInv'
  <2>1. CASE ImportCreates(h)
    BY <2>1, ImportAdds DEF IInv, DirInv
  <2>2. CASE ~ImportCreates(h)
    <3>1. Kept /\ Quiet(h) /\ DirTurned(h)
      BY <1>1, <2>2, StartKept, StepKept DEF IInv, DirInv
    <3>2. PICK x : Turns(h, x) /\ (x.op = "importRow" => Sought(x, seen[h])')
      BY <3>1 DEF DirTurned
    <3>3. ImportInv'
      BY <3>1, <3>2, ImportStays DEF IInv, DirInv, Kept
    <3> QED
      BY <3>1, <3>3
  <2> QED
    BY <2>1, <2>2
<1>3. PICK x : Turns(h, x) /\ (x = Idle \/ x \in DirRequest)
  BY <1>2 DEF DirTurned
<1>4. x.op \in DirOps \cup {"idle"}
  BY <1>3, DirShape DEF Idle
<1>5. Good(x)' /\ \A p, i : ~Owes(x, p, i)
  BY <1>4 DEF Good, Owes, Delivers, DirOps
<1>6. MsgTyped'
  BY <1>3, MsgTypes DEF IInv, DirInv, MsgTyped, msgVars
<1>7. MessagesInv'
  BY <1>2, <1>3, <1>5, MessagesStay DEF IInv, DirInv, Kept, msgVars
<1> QED
  BY <1>2, <1>6, <1>7 DEF IInv, DirInv, Kept

LEMMA InitInv == Init => IInv
<1> SUFFICES ASSUME Init PROVE IInv
  OBVIOUS
<1>1. DInit /\ DirTyped /\ DealInv
  BY InitDir, InitDeals DEF Init
<1>2. \A h \in Handlers : req[h] = Idle
  BY <1>1 DEF DInit
<1>3. Aims
  BY <1>2 DEF Aims, Idle
<1>4. ImportInv
  <2>1. \A r \in Records : compared[r] = {}
    BY <1>1 DEF DInit
  <2> QED
    BY <1>2, <2>1 DEF ImportInv, ImportAddsNoDuplicate, Idle
<1>5. MsgTyped
  BY <1>1, RulesAssumption DEF Init, MsgTyped, DInit
<1>6. MessagesInv
  <2>1. \A p, i : Owing(p, i) = {}
    BY <1>2 DEF Owing, Owes, Delivers, Idle
  <2>2. \A id : RowsOf(id) = {}
    BY DEF Init, RowsOf
  <2>3. \A h \in Handlers : Good(req[h])
    BY <1>2 DEF Good, Idle, Delivers
  <2>4. \A p \in Payloads : \A i \in DOMAIN p : Counted(p, i)
    <3>1. Cardinality({}) = 0
      BY FS_EmptySet
    <3>2. \A p \in Payloads : delivered[p] = 0
      BY DEF Init
    <3> QED
      BY <2>1, <2>2, <3>1, <3>2 DEF Counted
  <2>5. \A i \in DOMAIN message : Confined(message[i])
    BY DEF Init
  <2>6. acked = {}
    BY DEF Init
  <2> QED
    BY <2>3, <2>4, <2>5, <2>6 DEF MessagesInv
<1> QED
  BY <1>1, <1>3, <1>4, <1>5, <1>6 DEF IInv, DirInv

LEMMA NextInv == IInv /\ [Next]_vars => IInv'
<1> SUFFICES ASSUME IInv, [Next]_vars PROVE IInv'
  OBVIOUS
<1>1. CASE DNext /\ UNCHANGED msgVars
  BY <1>1, DirectorySteps
<1>2. ASSUME NEW h \in Handlers, NEW ctx \in Contexts, Messages(h, ctx) PROVE IInv'
  BY <1>2, SendSteps, EventSteps, RuleSteps DEF Messages
<1>3. ASSUME NEW h \in Handlers, NEW p \in Payloads, Deliver(h, p) PROVE IInv'
  BY <1>3, DeliverySteps
<1>4. ASSUME NEW h \in Handlers, Works(h) PROVE IInv'
  <2>1. CASE Post(h) \/ Store(h)
    BY <2>1, SendSteps
  <2>2. CASE InboundLinks(h) \/ InboundStores(h) \/ Acknowledge(h)
    BY <2>2, DeliverySteps
  <2>3. CASE RunReads(h)
    BY <2>3, EventSteps
  <2>4. CASE CreateActivity(h) \/ SendEmail(h) \/ LogOnly(h) \/ RunEnds(h)
    BY <2>4, ActionSteps
  <2>5. CASE RunPosts(h)
    BY <2>5, RunPostSteps
  <2>6. CASE RunStores(h)
    BY <2>6, RunStoreSteps
  <2> QED
    BY <1>4, <2>1, <2>2, <2>3, <2>4, <2>5, <2>6 DEF Works
<1>5. CASE UNCHANGED vars
  <2>1. /\ UNCHANGED <<rec, deal, req, requests, origin, heir, mixed, seen, compared>>
        /\ UNCHANGED <<rule, message, activity, mail, delivered, acked>>
    BY <1>5 DEF vars, dirVars, msgVars
  <2>2. DirTyped'
    BY <2>1 DEF IInv, DirInv, DirTyped, HistoryTyped, RecordsOK, TakenInOrder, Requesting, Live
  <2>3. Aims' /\ DealInv'
    BY <2>1 DEF IInv, DirInv, Aims, DealInv, Column, Live
  <2>4. ImportInv'
    BY <2>1 DEF IInv, DirInv, ImportInv, ImportAddsNoDuplicate, Sought, Live
  <2>5. MsgTyped'
    BY <2>1 DEF IInv, MsgTyped
  <2>6. MessagesInv'
    BY <2>1 DEF IInv, MessagesInv, Confined, LinkedTo, Live, Good, Progress, Stored, RowsOf, Counted, Owing
  <2> QED
    BY <2>2, <2>3, <2>4, <2>5, <2>6 DEF IInv, DirInv
<1> QED
  BY <1>1, <1>2, <1>3, <1>4, <1>5 DEF Next

-----------------------------------------------------------------------------
(* Lists of actions *)

Flattens(f, s, m) == f = [i \in 1..m |-> IF i = 1 THEN s[i] ELSE f[i - 1] \o s[i]]

LEMMA FlattenIs ==
  ASSUME NEW s, Len(s) # 0
  PROVE  Seqs!FlattenSeq(s) = (CHOOSE f : Flattens(f, s, Len(s)))[Len(s)]
  BY DEF Seqs!FlattenSeq, Flattens

LEMMA FlattenExists ==
  ASSUME NEW s, Len(s) \in Nat
  PROVE  \E f : Flattens(f, s, Len(s))
<1> DEFINE Without == {m \in Nat : ~\E f : Flattens(f, s, m)}
<1>1. Without = {}
  <2> SUFFICES ASSUME Without # {} PROVE FALSE
    OBVIOUS
  <2>1. PICK m \in Without : \A x \in Without : m <= x
    BY LeastExists
  <2>2. m \in Nat /\ ~\E f : Flattens(f, s, m)
    OBVIOUS
  <2>3. CASE m = 0
    <3> PICK f : f = [i \in {} |-> s]
      OBVIOUS
    <3>1. f = [i \in 1..0 |-> IF i = 1 THEN s[i] ELSE f[i - 1] \o s[i]]
      OBVIOUS
    <3> QED
      BY <2>2, <2>3, <3>1 DEF Flattens
  <2>4. CASE m # 0
    <3>1. m - 1 \in Nat /\ m - 1 \notin Without
      BY <2>1, <2>2, <2>4
    <3>2. PICK f : Flattens(f, s, m - 1)
      BY <3>1
    <3> PICK last : last = IF m = 1 THEN s[m] ELSE f[m - 1] \o s[m]
      OBVIOUS
    <3> PICK g : g = [i \in 1..m |-> IF i = m THEN last ELSE f[i]]
      OBVIOUS
    <3>3. \A i \in 1..(m - 1) : f[i] = IF i = 1 THEN s[i] ELSE f[i - 1] \o s[i]
      BY <3>2 DEF Flattens
    <3>4. \A i \in 1..(m - 1) : g[i] = f[i]
      BY <2>2
    <3>5. \A i \in 1..m : g[i] = IF i = 1 THEN s[i] ELSE g[i - 1] \o s[i]
      <4> SUFFICES ASSUME NEW i \in 1..m
                   PROVE  g[i] = IF i = 1 THEN s[i] ELSE g[i - 1] \o s[i]
        OBVIOUS
      <4>1. CASE i = m
        <5>1. g[i] = last
          BY <4>1
        <5>2. m # 1 => g[m - 1] = f[m - 1]
          BY <2>2, <2>4, <3>4
        <5> QED
          BY <4>1, <5>1, <5>2
      <4>2. CASE i # m
        <5>1. i \in 1..(m - 1) /\ (i # 1 => i - 1 \in 1..(m - 1))
          BY <2>2, <4>2
        <5>2. g[i] = f[i] /\ (i # 1 => g[i - 1] = f[i - 1])
          BY <3>4, <5>1
        <5> QED
          BY <3>3, <5>1, <5>2
      <4> QED
        BY <4>1, <4>2
    <3>6. g = [i \in 1..m |-> IF i = 1 THEN s[i] ELSE g[i - 1] \o s[i]]
      BY <3>5
    <3>7. Flattens(g, s, m)
      BY <3>6 DEF Flattens
    <3> QED
      BY <2>2, <3>7
  <2> QED
    BY <2>3, <2>4
<1> QED
  BY <1>1

LEMMA ConcatTyped ==
  ASSUME NEW T, NEW a \in Seq(T), NEW b \in Seq(T)
  PROVE  a \o b \in Seq(T)
  OBVIOUS

(* The actions of several rules, one after the other, are a list of actions. *)
LEMMA FlattenTyped ==
  ASSUME NEW T, NEW s \in Seq(Seq(T))
  PROVE  Seqs!FlattenSeq(s) \in Seq(T)
<1>1. Len(s) \in Nat /\ \A i \in 1..Len(s) : s[i] \in Seq(T)
  OBVIOUS
<1>2. CASE Len(s) = 0
  <2>1. Seqs!FlattenSeq(s) = s /\ s = <<>>
    BY <1>2 DEF Seqs!FlattenSeq
  <2> QED
    BY <2>1
<1>3. CASE Len(s) # 0
  <2> PICK f : f = CHOOSE g : Flattens(g, s, Len(s))
    OBVIOUS
  <2>1. Flattens(f, s, Len(s))
    BY <1>1, FlattenExists
  <2>2. \A i \in 1..Len(s) : f[i] = IF i = 1 THEN s[i] ELSE f[i - 1] \o s[i]
    BY <2>1 DEF Flattens
  <2> DEFINE Bad == {i \in 1..Len(s) : f[i] \notin Seq(T)}
  <2>3. Bad = {}
    <3> SUFFICES ASSUME Bad # {} PROVE FALSE
      OBVIOUS
    <3>1. PICK m \in Bad : \A x \in Bad : m <= x
      <4>1. Bad \subseteq Nat
        OBVIOUS
      <4> QED
        BY <4>1, LeastExists
    <3>2. m \in 1..Len(s) /\ f[m] \notin Seq(T) /\ s[m] \in Seq(T)
      BY <1>1
    <3>3. m # 1 => m - 1 \in 1..Len(s) /\ m - 1 \notin Bad
      BY <1>1, <3>1, <3>2
    <3>4. m # 1 => f[m - 1] \in Seq(T)
      BY <3>3
    <3>5. m = 1
      <4>1. ASSUME m # 1 PROVE FALSE
        <5>1. PICK a \in Seq(T), b \in Seq(T) : a = f[m - 1] /\ b = s[m]
          BY <3>2, <3>4, <4>1
        <5>2. f[m] = a \o b
          BY <2>2, <3>2, <4>1, <5>1
        <5> QED
          BY <3>2, <5>2, ConcatTyped
      <4> QED
        BY <4>1
    <3>6. f[m] = s[m]
      BY <2>2, <3>2, <3>5
    <3> QED
      BY <3>2, <3>6
  <2>4. f[Len(s)] \in Seq(T)
    BY <1>1, <1>3, <2>3
  <2> QED
    BY <1>3, <2>4, FlattenIs
<1> QED
  BY <1>2, <1>3

(* The first of what remains is moved to what is done. *)
LEMMA MovedOver ==
  ASSUME NEW T, NEW a \in Seq(T), NEW b \in Seq(T), b # <<>>
  PROVE  /\ Tail(b) \in Seq(T) /\ Append(a, Head(b)) \in Seq(T)
         /\ Append(a, Head(b)) \o Tail(b) = a \o b
<1>1. b[1] \in T /\ Head(b) = b[1] /\ Len(b) > 0 /\ Len(b) \in Nat /\ Len(a) \in Nat
  OBVIOUS
<1> PICK u : u = Tail(b)
  OBVIOUS
<1>2. u \in Seq(T) /\ Len(u) = Len(b) - 1 /\ \A i \in 1..Len(u) : u[i] = b[i + 1]
  BY <1>1
<1> PICK c \in T : c = Head(b)
  BY <1>1
<1> PICK v : v = Append(a, c)
  OBVIOUS
<1>3. v \in Seq(T) /\ Len(v) = Len(a) + 1 /\ v[Len(a) + 1] = b[1]
                          /\ \A i \in 1..Len(a) : v[i] = a[i]
  BY <1>1
<1> PICK x : x = v \o u
  OBVIOUS
<1> PICK y : y = a \o b
  OBVIOUS
<1>4. x \in Seq(T) /\ Len(x) = Len(v) + Len(u)
      /\ \A i \in 1..Len(x) : x[i] = IF i <= Len(v) THEN v[i] ELSE u[i - Len(v)]
  OBVIOUS
<1>5. y \in Seq(T) /\ Len(y) = Len(a) + Len(b)
      /\ \A i \in 1..Len(y) : y[i] = IF i <= Len(a) THEN a[i] ELSE b[i - Len(a)]
  OBVIOUS
<1>6. Len(x) = Len(y)
  BY <1>1, <1>2, <1>3, <1>4, <1>5
<1>7. \A i \in 1..Len(x) : x[i] = y[i]
  BY <1>1, <1>2, <1>3, <1>4, <1>5
<1>8. x = y
  BY <1>4, <1>5, <1>6, <1>7
<1> QED
  BY <1>2, <1>3, <1>8

-----------------------------------------------------------------------------
(* What a run has done and has yet to do is what its rules list. *)

Listed(q) ==
  /\ q.done \in Seq(Action) /\ q.todo \in Seq(Action)
  /\ \E order \in Seqs!SetToSeqs(Wanted(q)) :
       q.done \o q.todo = Seqs!FlattenSeq([i \in DOMAIN order |-> q.asked[order[i]].actions])

Lists(x) == /\ x.op = "run" => Listed(x)
            /\ x.op = "runRow" => Listed(x.run) /\ x.run.todo # <<>>

RunInv == NoActionSkipped /\ \A h \in Handlers : Lists(req[h])

LEMMA RunsStay ==
  ASSUME RunInv, NEW h \in Handlers, NEW x, Turns(h, x), Lists(x), finished' = finished
  PROVE  RunInv'
<1>1. NoActionSkipped'
  BY DEF RunInv, NoActionSkipped
<1>2. \A g \in Handlers : Lists(req'[g])
  BY DEF RunInv, Turns
<1> QED
  BY <1>1, <1>2 DEF RunInv

LEMMA PerformedListed ==
  ASSUME NEW q, IsRun(q), Listed(q), q.todo # <<>>, NEW ok
  PROVE  Lists(Performed(q, ok))
<1> PICK x : x = Performed(q, ok)
  OBVIOUS
<1>1. PICK D, A, T : q \in Runs(D, A, T)
  BY DEF IsRun
<1>2. PICK u : u = Tail(q.todo)
  OBVIOUS
<1>3. PICK v : v = Append(q.done, Head(q.todo))
  OBVIOUS
<1>4. x = [q EXCEPT !.todo = u, !.done = v]
  BY <1>2, <1>3 DEF Performed, Remaining
<1>5. x.op = "run" /\ x.todo = u /\ x.done = v /\ x.asked = q.asked /\ x.event = q.event
  BY <1>1, <1>4 DEF Runs
<1>6. Wanted(x) = Wanted(q)
  BY <1>5 DEF Wanted
<1>7. u \in Seq(Action) /\ v \in Seq(Action) /\ v \o u = q.done \o q.todo
  <2> PICK S : S = Action
    OBVIOUS
  <2>1. PICK a \in Seq(S), b \in Seq(S) : a = q.done /\ b = q.todo
    BY DEF Listed
  <2>2. b # <<>>
    BY <2>1
  <2>3. /\ Tail(b) \in Seq(S) /\ Append(a, Head(b)) \in Seq(S)
        /\ Append(a, Head(b)) \o Tail(b) = a \o b
    BY <2>2, MovedOver
  <2>4. u = Tail(b) /\ v = Append(a, Head(b))
    BY <1>2, <1>3, <2>1
  <2> QED
    BY <2>1, <2>3, <2>4
<1>8. Listed(x)
  BY <1>5, <1>6, <1>7 DEF Listed
<1> QED
  BY <1>5, <1>8 DEF Lists


LEMMA SameCardinality ==
  ASSUME NEW S
  PROVE  Seqs!Cardinality(S) = Cardinality(S)
  BY DEF Seqs!Cardinality, Cardinality

LEMMA OrderIs ==
  ASSUME NEW S, NEW o \in Seqs!SetToSeqs(S)
  PROVE  o \in [1..Cardinality(S) -> S]
<1>1. Seqs!SetToSeqs(S) = {f \in [1..Cardinality(S) -> S] :
                             \A i, j \in 1..Cardinality(S) : i # j => f[i] # f[j]}
  BY SameCardinality DEF Seqs!SetToSeqs
<1> PICK D : D = 1..Cardinality(S)
  OBVIOUS
<1>2. o \in [D -> S]
  BY <1>1
<1> QED
  BY <1>2

LEMMA ListsShape ==
  ASSUME NEW x, x.op \notin {"run", "runRow"}
  PROVE  Lists(x)
  BY DEF Lists

(* The rules that match when the run begins are those that it is asked for. *)
LEMMA RunReadsListed ==
  ASSUME IInv, NEW h \in Handlers, RunReads(h)
  PROVE  \E x : Turns(h, x) /\ Lists(x)
<1> PICK q : q = req[h]
  OBVIOUS
<1> PICK were : were = [r \in {y \in Rules : RuleSeen(q.tenant, y)} |-> rule[r]]
  OBVIOUS
<1>1. PICK order \in Seqs!SetToSeqs(Matching(q)) :
        Goes(h, [op |-> "run", event |-> q, done |-> <<>>, asked |-> were,
                 todo |-> Seqs!FlattenSeq([i \in DOMAIN order |-> rule[order[i]].actions])])
  BY DEF RunReads
<1> PICK s : s = [i \in DOMAIN order |-> rule[order[i]].actions]
  OBVIOUS
<1> PICK todo : todo = Seqs!FlattenSeq(s)
  OBVIOUS
<1> PICK x : x = [op |-> "run", event |-> q, done |-> <<>>, asked |-> were, todo |-> todo]
  OBVIOUS
<1>2. Turns(h, x)
  BY <1>1, GoesTurns DEF IInv, DirInv, DirTyped
<1>3. /\ x.op = "run" /\ x.event = q /\ x.done = <<>> /\ x.asked = were /\ x.todo = todo
  OBVIOUS
<1>4. Matching(q) \subseteq Rules /\ Cardinality(Matching(q)) \in Nat
  <2>1. Matching(q) \subseteq Rules
    BY DEF Matching
  <2> QED
    BY <2>1, RulesAssumption, FS_Subset, FS_CardinalityType
<1>5. /\ DOMAIN order = 1..Cardinality(Matching(q))
      /\ \A i \in DOMAIN order : order[i] \in Matching(q)
  <2> PICK S : S = Matching(q)
    OBVIOUS
  <2> PICK D : D = 1..Cardinality(S)
    OBVIOUS
  <2>1. order \in Seqs!SetToSeqs(S)
    OBVIOUS
  <2>2. order \in [D -> S]
    BY <2>1, OrderIs
  <2> QED
    BY <2>2
<1>6. \A r \in Matching(q) : r \in DOMAIN were /\ were[r] = rule[r] /\ rule[r] \in Rule
  BY DEF Matching, RuleSeen, IInv, MsgTyped
<1>7. Wanted(x) = Matching(q)
  <2>1. \A r : r \in Wanted(x) <=>
          /\ r \in Rules /\ RuleSeen(q.tenant, r)
          /\ rule[r].active /\ rule[r].trigger = q.trigger
          /\ rule[r].equals \in {Nil, q.subject}
    BY <1>3 DEF Wanted
  <2>2. \A r : r \in Matching(q) <=>
          /\ r \in Rules /\ RuleSeen(q.tenant, r)
          /\ rule[r].active /\ rule[r].trigger = q.trigger
          /\ rule[r].equals \in {Nil, q.subject}
    BY DEF Matching, EvaluateConditions
  <2> QED
    BY <2>1, <2>2
<1>8. s = [i \in DOMAIN order |-> x.asked[order[i]].actions]
  BY <1>3, <1>5, <1>6
<1>9. todo \in Seq(Action)
  <2>1. \A i \in DOMAIN order : rule[order[i]].actions \in Seq(Action)
    BY <1>5, <1>6 DEF Rule
  <2>2. s \in Seq(Seq(Action))
    BY <1>4, <1>5, <2>1
  <2> QED
    BY <2>2, FlattenTyped
<1>10. x.done \in Seq(Action) /\ x.todo \in Seq(Action) /\ x.done \o x.todo = todo
  BY <1>3, <1>9
<1>11. Listed(x)
  BY <1>7, <1>8, <1>10 DEF Listed
<1> QED
  BY <1>2, <1>3, <1>11 DEF Lists

LEMMA RunsGoOn ==
  ASSUME IInv, RunInv, NEW h \in Handlers,
         CreateActivity(h) \/ SendEmail(h) \/ RunPosts(h) \/ RunStores(h) \/ LogOnly(h)
  PROVE  \E x : Turns(h, x) /\ Lists(x)
<1>0. Requesting
  BY DEF IInv, DirInv, DirTyped
<1>1. Lists(req[h]) /\ IsRequest(req[h])
  BY <1>0 DEF RunInv, Requesting
<1>2. CASE RunStores(h)
  <2>1. req[h].op = "runRow" /\ IsRunRow(req[h])
    BY <1>1, <1>2, RequestShape DEF RunStores, Held1
  <2>2. IsRun(req[h].run) /\ Listed(req[h].run) /\ req[h].run.todo # <<>>
    BY <1>1, <2>1 DEF IsRunRow, Lists
  <2>3. \E ok : Goes(h, Performed(req[h].run, ok))
    BY <1>2 DEF RunStores
  <2> QED
    BY <1>0, <2>2, <2>3, GoesTurns, PerformedListed
<1>3. CASE CreateActivity(h) \/ SendEmail(h) \/ RunPosts(h) \/ LogOnly(h)
  <2>1. req[h].op = "run" /\ req[h].todo # <<>>
    BY <1>3 DEF CreateActivity, SendEmail, RunPosts, LogOnly, Now, Held1
  <2>2. IsRun(req[h]) /\ Listed(req[h])
    BY <1>1, <2>1, RequestShape DEF Lists
  <2>3. ASSUME NEW ok, Goes(h, Performed(req[h], ok)) PROVE \E x : Turns(h, x) /\ Lists(x)
    BY <1>0, <2>1, <2>2, <2>3, GoesTurns, PerformedListed
  <2>4. ASSUME NEW row, Goes(h, [op |-> "runRow", run |-> req[h], row |-> row])
        PROVE  \E x : Turns(h, x) /\ Lists(x)
    <3> PICK x : x = [op |-> "runRow", run |-> req[h], row |-> row]
      OBVIOUS
    <3>1. x.op = "runRow" /\ x.run = req[h]
      OBVIOUS
    <3>2. Lists(x)
      BY <2>1, <2>2, <3>1 DEF Lists
    <3> QED
      BY <1>0, <2>4, <3>2, GoesTurns
  <2> QED
    BY <1>3, <2>3, <2>4 DEF CreateActivity, SendEmail, RunPosts, LogOnly
<1> QED
  BY <1>2, <1>3

LEMMA RunEndsListed ==
  ASSUME IInv, RunInv, NEW h \in Handlers, RunEnds(h)
  PROVE  RunInv'
<1>0. Requesting
  BY DEF IInv, DirInv, DirTyped
<1> PICK q : q = req[h]
  OBVIOUS
<1>1. q.op = "run" /\ q.todo = <<>> /\ Listed(q)
  BY DEF RunEnds, Held1, RunInv, Lists
<1> PICK f : f = [event |-> q.event, asked |-> q.asked, done |-> q.done]
  OBVIOUS
<1>2. finished' = finished \cup {f} /\ Turns(h, Idle)
  BY <1>0, DoneTurns DEF RunEnds
<1>3. f.asked = q.asked /\ f.done = q.done /\ f.event = q.event
  OBVIOUS
<1>4. Wanted(f) = Wanted(q)
  BY <1>3 DEF Wanted
<1>5. q.done \o q.todo = q.done
  BY <1>1 DEF Listed
<1>6. \E order \in Seqs!SetToSeqs(Wanted(f)) :
        f.done = Seqs!FlattenSeq([i \in DOMAIN order |-> f.asked[order[i]].actions])
  BY <1>1, <1>3, <1>4, <1>5 DEF Listed
<1>7. NoActionSkipped'
  <2> DEFINE Told(g) ==
        \E order \in Seqs!SetToSeqs(Wanted(g)) :
          g.done = Seqs!FlattenSeq([i \in DOMAIN order |-> g.asked[order[i]].actions])
  <2>1. \A g \in finished : Told(g)
    BY DEF RunInv, NoActionSkipped
  <2>2. Told(f)
    BY <1>6
  <2>3. \A g \in finished' : g \in finished \/ g = f
    BY <1>2
  <2>4. \A g \in finished' : Told(g)
    <3> HIDE DEF Told
    <3> QED
      BY <2>1, <2>2, <2>3
  <2> QED
    BY <2>4 DEF NoActionSkipped
<1>8. \A g \in Handlers : Lists(req'[g])
  BY <1>2, ListsShape DEF RunInv, Turns, Idle
<1> QED
  BY <1>7, <1>8 DEF RunInv

(* Every other step leaves the runs alone, or begins something that is none. *)
LEMMA OthersStay ==
  ASSUME RunInv, NEW h \in Handlers, NEW x, Turns(h, x), x.op \notin {"run", "runRow"},
         finished' = finished
  PROVE  RunInv'
  BY ListsShape, RunsStay

LEMMA SendsAreNoRuns ==
  ASSUME IInv, RunInv, NEW h \in Handlers, NEW ctx \in Contexts, Messages(h, ctx)
  PROVE  RunInv'
<1>0. Requesting
  BY DEF IInv, DirInv, DirTyped
<1>1. CASE StartSend(h, ctx)
  <2>1. PICK phone, given, named :
          Begin(h, [op |-> "send", tenant |-> ctx, phone |-> phone, given |-> given, named |-> named])
    BY <1>1 DEF StartSend
  <2> PICK x : x = [op |-> "send", tenant |-> ctx, phone |-> phone, given |-> given, named |-> named]
    OBVIOUS
  <2>2. Turns(h, x) /\ x.op = "send"
    BY <1>0, <2>1, BeginTurns
  <2>3. finished' = finished
    BY <1>1 DEF StartSend, msgVars
  <2> QED
    BY <2>2, <2>3, OthersStay
<1>2. CASE Event(h, ctx)
  <2>1. PICK t, s, d, lead :
          Begin(h, [op |-> "event", tenant |-> ctx, trigger |-> t, lead |-> lead,
                    subject |-> s, deal |-> d])
    BY <1>2 DEF Event
  <2> PICK x : x = [op |-> "event", tenant |-> ctx, trigger |-> t, lead |-> lead,
                    subject |-> s, deal |-> d]
    OBVIOUS
  <2>2. Turns(h, x) /\ x.op = "event"
    BY <1>0, <2>1, BeginTurns
  <2>3. finished' = finished
    BY <1>2 DEF Event, msgVars
  <2> QED
    BY <2>2, <2>3, OthersStay
<1>3. ASSUME NEW r \in Rules,
             CreateRule(h, ctx, r) \/ UpdateRule(h, ctx, r) \/ RemoveRule(h, ctx, r)
      PROVE  RunInv'
  <2>1. Begin(h, Idle) /\ finished' = finished
    BY <1>3 DEF CreateRule, UpdateRule, RemoveRule
  <2>2. Turns(h, Idle) /\ Idle.op = "idle"
    BY <1>0, <2>1, BeginTurns DEF Idle
  <2> QED
    BY <2>1, <2>2, OthersStay
<1> QED
  BY <1>1, <1>2, <1>3 DEF Messages

LEMMA DeliveriesAreNoRuns ==
  ASSUME IInv, RunInv, NEW h \in Handlers,
         \/ \E p \in Payloads : Deliver(h, p)
         \/ Post(h) \/ Store(h) \/ InboundLinks(h) \/ InboundStores(h) \/ Acknowledge(h)
  PROVE  RunInv'
<1>0. Requesting
  BY DEF IInv, DirInv, DirTyped
<1> PICK q : q = req[h]
  OBVIOUS
<1>1. ASSUME NEW p \in Payloads, Deliver(h, p) PROVE RunInv'
  <2> PICK x : x = [op |-> "inbound", payload |-> p, rest |-> p]
    OBVIOUS
  <2>1. Turns(h, x) /\ x.op = "inbound" /\ finished' = finished
    BY <1>0, <1>1, BeginTurns DEF Deliver
  <2> QED
    BY <2>1, OthersStay
<1>2. CASE Post(h)
  <2>1. Goes(h, [op |-> "sent", row |-> Out(q.tenant, q.phone, q.given, q.named)])
    BY <1>2 DEF Post
  <2> PICK x : x = [op |-> "sent", row |-> Out(q.tenant, q.phone, q.given, q.named)]
    OBVIOUS
  <2>2. Turns(h, x) /\ x.op = "sent"
    BY <1>0, <2>1, GoesTurns
  <2>3. finished' = finished
    BY <1>2 DEF Post, msgVars
  <2> QED
    BY <2>2, <2>3, OthersStay
<1>3. CASE Store(h) \/ Acknowledge(h)
  <2>1. Done(h) /\ finished' = finished
    BY <1>3 DEF Store, Acknowledge
  <2>2. Turns(h, Idle) /\ Idle.op = "idle"
    BY <1>0, <2>1, DoneTurns DEF Idle
  <2> QED
    BY <2>1, <2>2, OthersStay
<1>4. CASE InboundLinks(h)
  <2>1. finished' = finished /\ q.op = "inbound"
    BY <1>4 DEF InboundLinks, Held1, msgVars
  <2>2. q \in Inbounds
    BY <1>0, <2>1, RequestShape DEF Requesting
  <2> PICK row : row = [direction |-> "IN", phone |-> Head(q.rest).phone, tenant |-> Nil,
                        contact |-> Newest(Nil, Head(q.rest).phone), found |-> TRUE,
                        of |-> Head(q.rest).id]
    OBVIOUS
  <2> PICK x : x = IF Head(q.rest).phone = Nil THEN [q EXCEPT !.rest = SkipSenderless(@)]
                   ELSE [op |-> "inboundRow", payload |-> q.payload, rest |-> Tail(q.rest),
                         row |-> row]
    OBVIOUS
  <2>3. Goes(h, x)
    BY <1>4 DEF InboundLinks
  <2>4. x.op \in {"inbound", "inboundRow"}
    <3>1. CASE Head(q.rest).phone = Nil
      <4>1. PICK rest : rest = SkipSenderless(q.rest)
        OBVIOUS
      <4>2. x = [q EXCEPT !.rest = rest]
        BY <3>1, <4>1
      <4> QED
        BY <2>2, <4>2 DEF Inbounds
    <3>2. CASE Head(q.rest).phone # Nil
      BY <3>2
    <3> QED
      BY <3>1, <3>2
  <2> QED
    BY <1>0, <2>1, <2>3, <2>4, GoesTurns, OthersStay
<1>5. CASE InboundStores(h)
  <2> PICK x : x = [op |-> "inbound", payload |-> q.payload, rest |-> q.rest]
    OBVIOUS
  <2>1. Turns(h, x) /\ x.op = "inbound" /\ finished' = finished
    BY <1>0, <1>5, GoesTurns DEF InboundStores
  <2> QED
    BY <2>1, OthersStay
<1> QED
  BY <1>1, <1>2, <1>3, <1>4, <1>5

LEMMA DirectoryIsNoRun ==
  ASSUME IInv, RunInv, DNext, UNCHANGED msgVars
  PROVE  RunInv'
<1>1. PICK h \in Handlers : (\E ctx \in Contexts : StartOn(h, ctx)) \/ Step(h)
  BY DEF DNext
<1>2. DirTurned(h)
  <2>1. CASE ImportCreates(h)
    BY <2>1, ImportAdds DEF IInv, DirInv
  <2>2. CASE ~ImportCreates(h)
    BY <1>1, <2>2, StartKept, StepKept DEF IInv, DirInv
  <2> QED
    BY <2>1, <2>2
<1>3. PICK x : Turns(h, x) /\ (x = Idle \/ x \in DirRequest)
  BY <1>2 DEF DirTurned
<1>4. x.op \notin {"run", "runRow"}
  BY <1>3, DirShape DEF Idle, DirOps
<1>5. finished' = finished
  BY DEF msgVars
<1> QED
  BY <1>3, <1>4, <1>5, OthersStay

LEMMA InitRuns == Init => RunInv
<1> SUFFICES ASSUME Init PROVE RunInv
  OBVIOUS
<1>1. \A h \in Handlers : req[h] = Idle
  BY DEF Init, DInit
<1>2. \A h \in Handlers : Lists(req[h])
  BY <1>1, ListsShape DEF Idle
<1>3. NoActionSkipped
  BY DEF Init, NoActionSkipped
<1> QED
  BY <1>2, <1>3 DEF RunInv

LEMMA NextRuns == IInv /\ RunInv /\ [Next]_vars => RunInv'
<1> SUFFICES ASSUME IInv, RunInv, [Next]_vars PROVE RunInv'
  OBVIOUS
<1>1. CASE DNext /\ UNCHANGED msgVars
  BY <1>1, DirectoryIsNoRun
<1>2. ASSUME NEW h \in Handlers, NEW ctx \in Contexts, Messages(h, ctx) PROVE RunInv'
  BY <1>2, SendsAreNoRuns
<1>3. ASSUME NEW h \in Handlers, NEW p \in Payloads, Deliver(h, p) PROVE RunInv'
  BY <1>3, DeliveriesAreNoRuns
<1>4. ASSUME NEW h \in Handlers, Works(h) PROVE RunInv'
  <2>1. CASE Post(h) \/ Store(h) \/ InboundLinks(h) \/ InboundStores(h) \/ Acknowledge(h)
    BY <2>1, DeliveriesAreNoRuns
  <2>2. CASE RunReads(h)
    <3>1. finished' = finished
      BY <2>2 DEF RunReads, msgVars
    <3> QED
      BY <2>2, <3>1, RunReadsListed, RunsStay
  <2>3. CASE CreateActivity(h) \/ SendEmail(h) \/ RunPosts(h) \/ RunStores(h) \/ LogOnly(h)
    <3>1. finished' = finished
      BY <2>3 DEF CreateActivity, SendEmail, RunPosts, RunStores, LogOnly, msgVars
    <3> QED
      BY <2>3, <3>1, RunsGoOn, RunsStay
  <2>4. CASE RunEnds(h)
    BY <2>4, RunEndsListed
  <2> QED
    BY <1>4, <2>1, <2>2, <2>3, <2>4 DEF Works
<1>5. CASE UNCHANGED vars
  <2>1. finished' = finished /\ req' = req
    BY <1>5 DEF vars, dirVars, msgVars
  <2> QED
    BY <2>1 DEF RunInv, NoActionSkipped
<1> QED
  BY <1>1, <1>2, <1>3, <1>4, <1>5 DEF Next

-----------------------------------------------------------------------------
LEMMA Invariant == Spec => []IInv
  BY InitInv, NextInv, PTL DEF Spec

(* Rows, notes and counts keep their types, every message is tagged with the
   tenant of its sender, or none, and no contact points to a company that is
   gone: Prisma's middleware and foreign key, whatever requests overlap. *)
THEOREM TypeCorrect == Spec => []TypeOK
<1>1. IInv => TypeOK
  <2>1. IInv => \A p \in Payloads : delivered[p] \in 0..MaxRequests
    BY BoundsAssumption DEF IInv, DirInv, DirTyped, Requesting, MsgTyped
  <2> QED
    BY <2>1, BoundsAssumption
       DEF IInv, DirInv, DirTyped, RecordsOK, Rows, Requesting, HistoryTyped, MsgTyped, TypeOK, DTypeOK
<1> QED
  BY Invariant, <1>1, PTL

(* DataService.merge and GdprService.eraseContact move or detach the deals of
   the record they delete: after any number of them, and with any requests in
   between, a deal points to where its contact and its company went, unless
   that is a record into which one of another tenant was merged. *)
THEOREM DealsFollowMerges == Spec => []DealsFollow
<1>1. IInv => DealsFollow
  <2> SUFFICES ASSUME IInv, NEW d \in Deals, deal[d] # Nil
               PROVE  /\ Follows(deal[d].contact, origin[d].contact)
                      /\ Follows(deal[d].company, origin[d].company)
    BY DEF DealsFollow
  <2>1. /\ Column(deal[d].contact, origin[d].contact, "contact", deal[d].tenant)
        /\ Column(deal[d].company, origin[d].company, "company", deal[d].tenant)
    BY DEF IInv, DirInv, DealInv
  <2> QED
    BY <2>1 DEF Column, Follows
<1> QED
  BY Invariant, <1>1, PTL

(* DataService.importContacts and importCompanies: a row that an import
   created is like none of its tenant that the import's lookup went over, be
   that an imported one, one written by hand or one of a conversion, however
   imports and other requests overlap, until one of the two is renamed. *)
THEOREM ImportsAddNoDuplicate == Spec => []ImportAddsNoDuplicate
<1>1. IInv => ImportAddsNoDuplicate
  BY DEF IInv, DirInv, ImportInv
<1> QED
  BY Invariant, <1>1, PTL

(* WhatsAppService.resolveLink: the contact that it found for a text of a
   tenant is none of another tenant, whatever is created, merged or deleted
   between the lookup and the write and after it. *)
THEOREM LinksAreConfined == Spec => []LinksStayInTenant
<1>1. IInv => LinksStayInTenant
  BY DEF IInv, MessagesInv, Confined, LinkedTo, LinksStayInTenant
<1> QED
  BY Invariant, <1>1, PTL

(* WhatsAppService.handleInbound: 200 is answered only when every message of
   the payload is stored, and a message is stored at most once per delivery,
   however deliveries fail, are repeated or overlap. *)
THEOREM AnsweredIsStored == Spec => []AckedIsStored
<1>1. IInv => AckedIsStored
  <2> SUFFICES ASSUME IInv, NEW p \in Payloads, NEW i \in DOMAIN p, p[i].phone # Nil
               PROVE  /\ p \in acked => RowsOf(p[i].id) # {}
                      /\ Cardinality(RowsOf(p[i].id)) <= delivered[p]
    BY DEF AckedIsStored
  <2>1. p \in acked => RowsOf(p[i].id) # {}
    BY DEF IInv, MessagesInv, Stored
  <2>2. Cardinality(RowsOf(p[i].id)) \in Nat /\ Cardinality(Owing(p, i)) \in Nat
    BY RowsFinite, OwingFinite DEF IInv, MsgTyped
  <2>3. Counted(p, i) /\ delivered[p] \in Nat
    BY DEF IInv, MessagesInv, MsgTyped
  <2> QED
    BY <2>1, <2>2, <2>3 DEF Counted
<1> QED
  BY Invariant, <1>1, PTL

(* AutomationEngine.run: a run that ended has performed every action of
   every rule that was active and matched when it began, in the order of the
   rule, and nothing else, for any rules and lists of actions, whichever of
   the actions failed and whoever changed or removed the rules meanwhile. *)
THEOREM NothingSkipped == Spec => []NoActionSkipped
<1>1. Init => IInv /\ RunInv
  BY InitInv, InitRuns
<1>2. IInv /\ RunInv /\ [Next]_vars => (IInv /\ RunInv)'
  BY NextInv, NextRuns
<1>3. RunInv => NoActionSkipped
  BY DEF RunInv
<1> QED
  BY <1>1, <1>2, <1>3, PTL DEF Spec
=============================================================================
