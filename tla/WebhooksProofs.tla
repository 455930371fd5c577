--------------------------- MODULE WebhooksProofs ---------------------------
(***************************************************************************)
(* What holds of Webhooks for every number of events, subscriptions,       *)
(* dispatchers and workers, and every backoff table.                       *)
(***************************************************************************)
EXTENDS Webhooks, FiniteSetTheorems, TLAPS

Ops  == {"idle", "next", "wait", "serve", "ok", "fail"}
Send == [op : Ops, todo : SUBSET Item, item : Item \cup {Nil}]

(* What a sender still has to post, and what it has posted *)
Carries(p, x) == x \in send[p].todo \/ (Busy(p) /\ x = send[p].item)

Columns ==
  /\ status   \in [Deliveries -> DeliveryStatus \cup {None, Gone}]
  /\ attempts \in [Deliveries -> 0..MaxAttempts]
  /\ delay    \in [Deliveries -> Nat]
  /\ \A d \in Deliveries :
       /\ status[d] = "DEAD"    => attempts[d] = MaxAttempts
       /\ status[d] = "FAILED"  => attempts[d] \in 1..(MaxAttempts - 1) /\ delay[d] > 0
       /\ status[d] = "SUCCESS" => attempts[d] > 0
       /\ d[1] \notin emitted   => status[d] = None /\ attempts[d] = 0

Sending ==
  /\ send \in [Senders -> Send]
  /\ \A p \in Senders : Busy(p) => send[p].item \in Item
  /\ \A p \in Senders : \A x \in Item : Carries(p, x) => x.d[1] \in emitted

Typed ==
  /\ subs \subseteq Subs /\ emitted \subseteq Events /\ cut \subseteq emitted
  /\ Columns
  /\ Sending
  /\ late \subseteq Item
  /\ posts \in [Deliveries -> Nat]
  /\ unrecorded \in [Deliveries -> Nat]
  /\ processed \in [Deliveries -> Nat]
  /\ due \subseteq Deliveries /\ contended \subseteq Deliveries
  /\ faults \in 0..MaxFaults

-----------------------------------------------------------------------------
(* The receiver has acted once on what it has seen the key of, and an answer
   that counts as a success says that it has. *)
KeyInv ==
  /\ seen \subseteq Deliveries
  /\ \A d \in Deliveries : processed[d] = IF d \in seen THEN 1 ELSE 0
  /\ \A p \in Senders : send[p].op = "ok" => send[p].item.d \in seen
  /\ \A d \in Deliveries : status[d] = "SUCCESS" => d \in seen

-----------------------------------------------------------------------------
(* A sender has each delivery once. *)
CarriedOnce ==
  \A p \in Senders :
    /\ \A x, y \in send[p].todo : x.d = y.d => x = y
    /\ Busy(p) => \A x \in send[p].todo : x.d # send[p].item.d

(* Two senders have the same delivery only if both are workers, and then it
   is known to be contended. *)
OneCarrier ==
  \A p, q \in Senders : \A x, y \in Item :
    Carries(p, x) /\ Carries(q, y) /\ x.d = y.d /\ (p \in Dispatchers \/ x.d \notin contended)
      => p = q

(* A dispatcher's delivery does not wait for a retry. *)
NotYetFailed ==
  \A p \in Dispatchers : \A x \in Item : Carries(p, x) => status[x.d] # "FAILED"

(* A sender's attempt number is still the next one. *)
NextAttempt ==
  \A p \in Senders : \A x \in Item :
    Carries(p, x) /\ x.d \notin contended => x.try = attempts[x.d] + 1

Flying(d) == \E p \in Senders : Busy(p) /\ send[p].item.d = d

Counted ==
  \A d \in Deliveries \ contended :
    posts[d] = attempts[d] + unrecorded[d] + (IF Flying(d) THEN 1 ELSE 0)

PostInv == CarriedOnce /\ OneCarrier /\ NotYetFailed /\ NextAttempt /\ Counted

-----------------------------------------------------------------------------
LEMMA MaxAttemptsIs == MaxAttempts \in Nat /\ MaxAttempts > 1
  BY ScheduleAssumption DEF MaxAttempts

LEMMA BackoffIs ==
  ASSUME NEW k \in 1..MaxAttempts
  PROVE  /\ Backoff(k) \in Nat
         /\ Exhausted(k) => k = MaxAttempts
         /\ ~ Exhausted(k) => Backoff(k) > 0 /\ k \in 1..(MaxAttempts - 1)
<1>1. CASE Exhausted(k)
  BY <1>1, MaxAttemptsIs DEF Backoff, Exhausted
<1>2. CASE ~ Exhausted(k)
  <2>1. k + 1 \in 1..Len(Schedule)
    BY <1>2, ScheduleAssumption DEF Exhausted, MaxAttempts
  <2>2. Schedule[k + 1] \in Nat \ {0}
    BY <2>1, ScheduleAssumption
  <2> QED
    BY <1>2, <2>2, MaxAttemptsIs DEF Backoff, Exhausted
<1> QED
  BY <1>1, <1>2

LEMMA DeliveryShape ==
  /\ \A d \in Deliveries : d[1] \in Events /\ d[2] \in Subs
  /\ \A e \in Events, s \in Subs : <<e, s>> \in Deliveries
  BY DEF Deliveries

LEMMA ItemShape ==
  /\ \A x \in Item : x.d \in Deliveries /\ x.try \in 1..MaxAttempts
  /\ \A d \in Deliveries, k \in 1..MaxAttempts : [d |-> d, try |-> k] \in Item
  BY DEF Item

LEMMA IdleShape == Idle \in Send /\ Idle.op = "idle" /\ Idle.todo = {} /\ Idle.item = Nil
  BY DEF Idle, Send, Ops

(* What a step of a sender leaves it with; the others keep what they have. *)
BusyOps == {"wait", "serve", "ok", "fail"}

Sent(p, op, item, todo) ==
  /\ p \in Senders /\ op \in Ops
  /\ send' \in [Senders -> Send]
  /\ send'[p].op = op /\ send'[p].item = item /\ send'[p].todo = todo
  /\ \A q \in Senders : q # p => send'[q] = send[q]

LEMMA GoSends ==
  ASSUME Sending, NEW p \in Senders, NEW op \in Ops, NEW item \in Item \cup {Nil},
         NEW todo \in SUBSET Item, Go(p, op, item, todo)
  PROVE  Sent(p, op, item, todo)
<1>1. [op |-> op, item |-> item, todo |-> todo] \in Send
  BY DEF Send
<1> QED
  BY <1>1 DEF Go, Sent, Sending

LEMMA StopSends ==
  ASSUME Sending, NEW p \in Senders, Stop(p)
  PROVE  Sent(p, "idle", Nil, {})
  BY IdleShape DEF Stop, Sent, Sending, Ops

LEMMA GoNextSends ==
  ASSUME Sending, NEW p \in Senders, NEW todo \in SUBSET Item, GoNext(p, todo)
  PROVE  \E op \in {"idle", "next"} : Sent(p, op, Nil, todo)
<1>1. CASE todo = {}
  BY <1>1, StopSends DEF GoNext
<1>2. CASE todo # {}
  BY <1>2, GoSends DEF GoNext, Ops
<1> QED
  BY <1>1, <1>2

LEMMA SendingStays ==
  ASSUME Sending, emitted \subseteq emitted', NEW p, NEW op, NEW item, NEW todo,
         Sent(p, op, item, todo), op \in BusyOps => item \in Item,
         \A x \in Item : x \in todo \/ (op \in BusyOps /\ x = item) => x.d[1] \in emitted'
  PROVE  Sending'
  BY DEF Sending, Sent, Busy, BusyOps, Carries

LEMMA InitTyped == Init => Typed
<1> SUFFICES ASSUME Init PROVE Typed
  OBVIOUS
<1>1. Columns
  BY MaxAttemptsIs DEF Init, Columns, None, DeliveryStatus
<1>2. Sending
  BY IdleShape DEF Init, Sending, Busy, Carries
<1> QED
  BY <1>1, <1>2, BoundsAssumption DEF Init, Typed

LEMMA ColumnsStay ==
  ASSUME Columns, emitted \subseteq emitted', UNCHANGED <<status, attempts, delay>>
  PROVE  Columns'
  BY DEF Columns

LEMMA RowWritten ==
  ASSUME Columns, emitted' = emitted, NEW d \in Deliveries, d[1] \in emitted,
         NEW s \in DeliveryStatus, NEW a \in 0..MaxAttempts, NEW t \in Nat,
         s = "DEAD"    => a = MaxAttempts,
         s = "FAILED"  => a \in 1..(MaxAttempts - 1) /\ t > 0,
         s = "SUCCESS" => a > 0,
         status' = [status EXCEPT ![d] = s], attempts' = [attempts EXCEPT ![d] = a],
         delay' = [delay EXCEPT ![d] = t]
  PROVE  Columns'
<1>1. /\ status \in [Deliveries -> DeliveryStatus \cup {None, Gone}]
      /\ attempts \in [Deliveries -> 0..MaxAttempts] /\ delay \in [Deliveries -> Nat]
  BY DEF Columns
<1>2. \A k \in Deliveries : IF k = d THEN status'[k] = s /\ attempts'[k] = a /\ delay'[k] = t
                            ELSE status'[k] = status[k] /\ attempts'[k] = attempts[k] /\ delay'[k] = delay[k]
  BY <1>1
<1>3. /\ status' \in [Deliveries -> DeliveryStatus \cup {None, Gone}]
      /\ attempts' \in [Deliveries -> 0..MaxAttempts] /\ delay' \in [Deliveries -> Nat]
  BY <1>1
<1>4. ASSUME NEW k \in Deliveries
      PROVE  /\ status'[k] = "DEAD"    => attempts'[k] = MaxAttempts
             /\ status'[k] = "FAILED"  => attempts'[k] \in 1..(MaxAttempts - 1) /\ delay'[k] > 0
             /\ status'[k] = "SUCCESS" => attempts'[k] > 0
             /\ k[1] \notin emitted'   => status'[k] = None /\ attempts'[k] = 0
  BY <1>2 DEF Columns
<1> QED
  BY <1>3, <1>4 DEF Columns

(* The item a sender works on: typed, about an event that was emitted. *)
LEMMA ItemAtHand ==
  ASSUME Sending, NEW p \in Senders
  PROVE  /\ Busy(p) => send[p].item \in Item /\ send[p].item.d[1] \in emitted
         /\ \A x \in send[p].todo : x \in Item /\ x.d[1] \in emitted
         /\ send[p].todo \in SUBSET Item /\ send[p].item \in Item \cup {Nil}
         /\ EventOf(p) \subseteq emitted
<1>1. send[p] \in Send
  BY DEF Sending
<1>2. send[p].todo \in SUBSET Item /\ send[p].item \in Item \cup {Nil}
  BY <1>1 DEF Send
<1>3. /\ Busy(p) => send[p].item \in Item /\ send[p].item.d[1] \in emitted
      /\ \A x \in send[p].todo : x \in Item /\ x.d[1] \in emitted
  BY <1>2 DEF Sending, Carries
<1>4. \A d \in Held(p) : d[1] \in emitted
  BY <1>3 DEF Held
<1> QED
  BY <1>2, <1>3, <1>4 DEF EventOf

(* Where a sender stands does not depend on what it has. *)
LEMMA GoesOn ==
  ASSUME Sending, emitted' = emitted, NEW p \in Senders, Busy(p), NEW op \in BusyOps, GoOn(p, op)
  PROVE  Sent(p, op, send[p].item, send[p].todo) /\ Sending'
<1>1. Sent(p, op, send[p].item, send[p].todo)
  BY ItemAtHand, GoSends DEF GoOn, BusyOps, Ops
<1> QED
  BY <1>1, ItemAtHand, SendingStays

LEMMA StartsNext ==
  ASSUME Sending, emitted \subseteq emitted', NEW p \in Senders, NEW todo \in SUBSET Item,
         GoNext(p, todo), \A x \in todo : x.d[1] \in emitted'
  PROVE  Sending' /\ \E op \in {"idle", "next"} : Sent(p, op, Nil, todo)
<1>1. PICK op \in {"idle", "next"} : Sent(p, op, Nil, todo)
  BY GoNextSends
<1> QED
  BY <1>1, SendingStays DEF BusyOps

LEMMA Stops ==
  ASSUME Sending, emitted' = emitted, NEW p \in Senders, Stop(p)
  PROVE  Sending' /\ Sent(p, "idle", Nil, {})
  BY StopSends, SendingStays DEF BusyOps

LEMMA Posts ==
  ASSUME Sending, emitted' = emitted, NEW p \in Senders, NEW x \in send[p].todo,
         Go(p, "wait", x, send[p].todo \ {x})
  PROVE  Sending' /\ Sent(p, "wait", x, send[p].todo \ {x}) /\ x \in Item
<1>1. x \in Item /\ send[p].todo \ {x} \in SUBSET Item
  BY ItemAtHand
<1>2. Sent(p, "wait", x, send[p].todo \ {x})
  BY <1>1, GoSends DEF Ops
<1> QED
  BY <1>1, <1>2, ItemAtHand, SendingStays

LEMMA InsertTyped ==
  ASSUME Typed, NEW x \in Item, Insert(x)
  PROVE  processed' \in [Deliveries -> Nat]
  BY ItemShape DEF Insert, Typed

LEMMA NextTyped == Typed /\ [Next]_vars => Typed'
<1> SUFFICES ASSUME Typed, Next \/ UNCHANGED vars PROVE Typed'
  OBVIOUS
<1> USE DEF rows, receiver
<1>0. /\ subs \subseteq Subs /\ emitted \subseteq Events /\ cut \subseteq emitted
      /\ Columns /\ Sending /\ late \subseteq Item
      /\ posts \in [Deliveries -> Nat] /\ unrecorded \in [Deliveries -> Nat]
      /\ processed \in [Deliveries -> Nat]
      /\ due \subseteq Deliveries /\ contended \subseteq Deliveries /\ faults \in 0..MaxFaults
  BY DEF Typed
<1>1. ASSUME NEW p \in Dispatchers, NEW e \in Events, Publish(p, e) PROVE Typed'
  <2>1. PICK todo : /\ todo = {[d |-> <<e, s>>, try |-> 1] : s \in subs}
                    /\ GoNext(p, todo)
    BY <1>1 DEF Publish
  <2>2. todo \in SUBSET Item /\ \A x \in todo : x.d[1] = e
    BY <1>0, <2>1, DeliveryShape, ItemShape, MaxAttemptsIs
  <2>3. e \in emitted' /\ emitted \subseteq emitted' /\ emitted' \subseteq Events
    BY <1>0, <1>1 DEF Publish
  <2>4. Sending'
    BY <1>0, <2>1, <2>2, <2>3, StartsNext DEF Senders
  <2>5. Columns'
    BY <1>0, <1>1, <2>3, ColumnsStay DEF Publish
  <2> QED
    BY <1>0, <1>1, <2>3, <2>4, <2>5 DEF Publish, Typed
<1>2. ASSUME NEW p \in Workers, TakeBatch(p) PROVE Typed'
  <2>1. PICK batch, todo :
          /\ batch = {d \in Deliveries : status[d] = "FAILED" /\ d \in due /\ posts[d] < MaxPosts}
          /\ todo = {[d |-> d, try |-> NextTry(attempts[d])] : d \in batch}
          /\ GoNext(p, todo)
          /\ contended' = contended \cup (batch \cap UNION {Held(q) : q \in Workers})
    BY <1>2 DEF TakeBatch
  <2>2. \A d \in batch : /\ d[1] \in emitted /\ NextTry(attempts[d]) \in 1..MaxAttempts
                         /\ d \in Deliveries
    BY <1>0, <2>1, MaxAttemptsIs DEF Columns, None, NextTry
  <2>3. todo \in SUBSET Item /\ \A x \in todo : x.d[1] \in emitted
    BY <2>1, <2>2, ItemShape
  <2>4. emitted' = emitted /\ Sending'
    BY <1>0, <1>2, <2>1, <2>3, StartsNext DEF Senders, TakeBatch
  <2>5. contended' \subseteq Deliveries
    BY <1>0, <2>1
  <2>6. Columns'
    BY <1>0, <1>2, ColumnsStay DEF TakeBatch
  <2> QED
    BY <1>0, <1>2, <2>4, <2>5, <2>6 DEF TakeBatch, Typed
<1>3. ASSUME NEW p \in Senders, CreateAndPost(p) PROVE Typed'
  <2>1. PICK x \in send[p].todo :
          IF x.d[2] \in subs
          THEN /\ status' = [status EXCEPT ![x.d] = "PENDING"]
               /\ posts'  = [posts EXCEPT ![x.d] = @ + 1]
               /\ Go(p, "wait", x, send[p].todo \ {x})
               /\ UNCHANGED cut
          ELSE Stop(p) /\ cut' = cut \cup EventOf(p) /\ UNCHANGED <<status, posts>>
    BY <1>3 DEF CreateAndPost
  <2>2. /\ UNCHANGED <<subs, emitted, attempts, delay, due, seen, late, processed, unrecorded,
                       contended, faults>>
        /\ x \in Item /\ x.d \in Deliveries /\ x.d[1] \in emitted
    BY <1>0, <1>3, ItemAtHand, ItemShape DEF CreateAndPost
  <2>3. CASE x.d[2] \in subs
    <3>1. Sending'
      BY <1>0, <2>1, <2>2, <2>3, Posts
    <3>2. attempts' = [attempts EXCEPT ![x.d] = attempts[x.d]] /\ attempts[x.d] \in 0..MaxAttempts
          /\ delay' = [delay EXCEPT ![x.d] = delay[x.d]] /\ delay[x.d] \in Nat
      <4>1. attempts \in [Deliveries -> 0..MaxAttempts] /\ delay \in [Deliveries -> Nat]
        BY <1>0 DEF Columns
      <4>2. attempts = [attempts EXCEPT ![x.d] = attempts[x.d]]
        BY <4>1
      <4>3. delay = [delay EXCEPT ![x.d] = delay[x.d]]
        BY <4>1
      <4> QED
        BY <2>2, <4>1, <4>2, <4>3
    <3>3. Columns'
      <4>1. PICK d \in Deliveries, a \in 0..MaxAttempts, t \in Nat :
              d = x.d /\ a = attempts[d] /\ t = delay[d]
        BY <2>2, <3>2
      <4>2. /\ status' = [status EXCEPT ![d] = "PENDING"] /\ attempts' = [attempts EXCEPT ![d] = a]
            /\ delay' = [delay EXCEPT ![d] = t] /\ d[1] \in emitted /\ emitted' = emitted
        BY <2>1, <2>2, <2>3, <3>2, <4>1
      <4>3. "PENDING" \in DeliveryStatus
        BY DEF DeliveryStatus
      <4> QED
        BY <1>0, <4>1, <4>2, <4>3, RowWritten
    <3>4. posts' \in [Deliveries -> Nat]
      BY <1>0, <2>1, <2>2, <2>3
    <3> QED
      BY <1>0, <2>1, <2>2, <2>3, <3>1, <3>3, <3>4 DEF Typed
  <2>4. CASE x.d[2] \notin subs
    <3>1. Sending' /\ Columns'
      BY <1>0, <2>1, <2>2, <2>4, Stops, ColumnsStay
    <3> QED
      BY <1>0, <2>1, <2>2, <2>4, <3>1, ItemAtHand DEF Typed
  <2> QED
    BY <2>3, <2>4
<1>4. ASSUME NEW p \in Senders, RetryPost(p) PROVE Typed'
  <2>1. PICK x \in send[p].todo :
          posts' = [posts EXCEPT ![x.d] = @ + 1] /\ Go(p, "wait", x, send[p].todo \ {x})
    BY <1>4 DEF RetryPost
  <2>2. Sending' /\ x \in Item
    BY <1>0, <1>4, <2>1, Posts DEF RetryPost
  <2>3. posts' \in [Deliveries -> Nat]
    BY <1>0, <2>1, <2>2, ItemShape
  <2> QED
    BY <1>0, <1>4, <2>2, <2>3, ColumnsStay DEF RetryPost, Typed
<1>5. ASSUME NEW p \in Senders, Unanswered(p) \/ Arrives(p) PROVE Typed'
  <2>1. Busy(p) /\ (\E op \in BusyOps : GoOn(p, op)) /\ UNCHANGED emitted
    BY <1>5 DEF Unanswered, Arrives, Busy, BusyOps, Accepted, Refused
  <2>2. Sending'
    BY <1>0, <2>1, GoesOn
  <2> QED
    BY <1>0, <1>5, <2>2, ColumnsStay DEF Unanswered, Arrives, Typed
<1>6. ASSUME NEW p \in Senders, Served(p) PROVE Typed'
  <2>1. Busy(p) /\ (\E op \in BusyOps : GoOn(p, op)) /\ UNCHANGED emitted /\ Insert(send[p].item)
    BY <1>6 DEF Served, Busy, BusyOps, Accepted, Refused
  <2>2. Sending' /\ processed' \in [Deliveries -> Nat]
    BY <1>0, <2>1, GoesOn, ItemAtHand, InsertTyped
  <2> QED
    BY <1>0, <1>6, <2>2, ColumnsStay DEF Served, Typed
<1>7. ASSUME NEW p \in Senders, TimesOut(p) PROVE Typed'
  <2>1. Busy(p) /\ GoOn(p, "fail") /\ "fail" \in BusyOps /\ UNCHANGED emitted
    BY <1>7 DEF TimesOut, Busy, BusyOps
  <2>2. Sending' /\ late' \subseteq Item
    BY <1>0, <1>7, <2>1, GoesOn, ItemAtHand DEF TimesOut
  <2> QED
    BY <1>0, <1>7, <2>2, ColumnsStay DEF TimesOut, Typed
<1>8. ASSUME ServedLate PROVE Typed'
  <2>1. PICK x \in late : late' = late \ {x} /\ Insert(x)
    BY <1>8 DEF ServedLate
  <2>2. processed' \in [Deliveries -> Nat] /\ late' \subseteq Item
    BY <1>0, <2>1, InsertTyped
  <2>3. Sending' /\ Columns'
    BY <1>0, <1>8, ColumnsStay DEF ServedLate, Sending, Busy, Carries
  <2> QED
    BY <1>0, <1>8, <2>2, <2>3 DEF ServedLate, Typed
<1>9. ASSUME NEW p \in Senders, RecordSuccess(p) \/ RecordFailure(p) PROVE Typed'
  <2>1. PICK x \in Item : x = send[p].item /\ x.d[1] \in emitted
    BY <1>0, <1>9, ItemAtHand DEF RecordSuccess, RecordFailure, Busy
  <2>2. x.d \in Deliveries /\ x.try \in 1..MaxAttempts /\ x.try \in 0..MaxAttempts
    BY <2>1, ItemShape
  <2>3. GoNext(p, send[p].todo) /\ UNCHANGED <<subs, emitted, seen, late, processed, posts,
                                               unrecorded, contended, cut, faults>>
        /\ due' = due \ {x.d}
    BY <1>9, <2>1 DEF RecordSuccess, RecordFailure, GoesOnWith
  <2>4. PICK s \in DeliveryStatus, t \in Nat :
          /\ s = "DEAD"   => x.try = MaxAttempts
          /\ s = "FAILED" => x.try \in 1..(MaxAttempts - 1) /\ t > 0
          /\ status' = [status EXCEPT ![x.d] = s]
          /\ attempts' = [attempts EXCEPT ![x.d] = x.try]
          /\ delay' = [delay EXCEPT ![x.d] = t]
    <3>1. CASE RecordSuccess(p)
      BY <2>1, <3>1 DEF RecordSuccess, DeliveryStatus
    <3>2. CASE RecordFailure(p)
      <4>1. PICK s \in {"DEAD", "FAILED"} : s = IF Exhausted(x.try) THEN "DEAD" ELSE "FAILED"
        OBVIOUS
      <4>2. status' = [status EXCEPT ![x.d] = s]
        BY <2>1, <3>2, <4>1 DEF RecordFailure
      <4> QED
        BY <2>1, <2>2, <3>2, <4>1, <4>2, BackoffIs DEF RecordFailure, DeliveryStatus
    <3> QED
      BY <1>9, <3>1, <3>2
  <2>5. Columns'
    <3>1. PICK d \in Deliveries, a \in 0..MaxAttempts : d = x.d /\ a = x.try
      BY <2>2
    <3>2. /\ status' = [status EXCEPT ![d] = s] /\ attempts' = [attempts EXCEPT ![d] = a]
          /\ delay' = [delay EXCEPT ![d] = t] /\ d[1] \in emitted
      BY <2>1, <2>4, <3>1
    <3>3. /\ s = "DEAD"    => a = MaxAttempts
          /\ s = "FAILED"  => a \in 1..(MaxAttempts - 1) /\ t > 0
          /\ s = "SUCCESS" => a > 0
      BY <2>2, <2>4, <3>1
    <3>4. Columns /\ emitted' = emitted
      BY <1>0, <2>3
    <3> QED
      BY <3>1, <3>2, <3>3, <3>4, RowWritten
  <2>6. Sending'
    BY <1>0, <2>3, ItemAtHand, StartsNext
  <2> QED
    BY <1>0, <2>3, <2>5, <2>6 DEF Typed
<1>10. ASSUME NEW p \in Senders, RecordFails(p) PROVE Typed'
  <2>1. Busy(p) /\ send[p].item \in Item /\ send[p].item.d \in Deliveries
    BY <1>0, <1>10, ItemAtHand, ItemShape DEF RecordFails, Busy
  <2>2. faults' \in 0..MaxFaults
    BY <1>0, <1>10, BoundsAssumption DEF RecordFails
  <2>3. /\ UNCHANGED <<subs, emitted, status, attempts, delay, due, seen, late, processed, posts,
                       contended>>
        /\ \/ GoOn(p, "fail") /\ UNCHANGED <<cut, unrecorded>>
           \/ /\ Stop(p)
              /\ cut' = cut \/ cut' = cut \cup EventOf(p)
              /\ unrecorded' = [unrecorded EXCEPT ![send[p].item.d] = @ + 1]
    BY <1>10 DEF RecordFails
  <2>4. Sending'
    BY <1>0, <2>1, <2>3, GoesOn, Stops DEF BusyOps
  <2>5. unrecorded' \in [Deliveries -> Nat] /\ cut' \subseteq emitted
    BY <1>0, <2>1, <2>3, ItemAtHand
  <2> QED
    BY <1>0, <2>2, <2>3, <2>4, <2>5, ColumnsStay DEF Typed
<1>11. ASSUME Crash PROVE Typed'
  <2>1. send' = [p \in Senders |-> Idle] /\ UNCHANGED emitted
    BY <1>11 DEF Crash
  <2>2. Sending'
    BY <2>1, IdleShape DEF Sending, Busy, Carries
  <2>3. \A d \in Deliveries :
          Cardinality({p \in Senders : Busy(p) /\ send[p].item.d = d}) \in Nat
    <3> TAKE d \in Deliveries
    <3>1. IsFiniteSet({p \in Senders : Busy(p) /\ send[p].item.d = d})
      BY SendersAssumption, FS_Subset DEF Senders
    <3> QED
      BY <3>1, FS_CardinalityType
  <2>4. unrecorded' \in [Deliveries -> Nat]
    BY <1>0, <1>11, <2>3 DEF Crash
  <2>5. cut' \subseteq emitted /\ late' \subseteq Item
    BY <1>0, <1>11, ItemAtHand DEF Crash, Senders, Busy
  <2>6. faults' \in 0..MaxFaults
    BY <1>0, <1>11, BoundsAssumption DEF Crash
  <2> QED
    BY <1>0, <1>11, <2>2, <2>4, <2>5, <2>6, ColumnsStay DEF Crash, Typed
<1>12. ASSUME NEW d \in Deliveries, RetryTimeComes(d) PROVE Typed'
  <2>1. Sending' /\ Columns'
    BY <1>0, <1>12, ColumnsStay DEF RetryTimeComes, Sending, Busy, Carries
  <2> QED
    BY <1>0, <1>12, <2>1 DEF RetryTimeComes, Typed
<1>13. ASSUME NEW s \in Subs, DeleteSubscription(s) PROVE Typed'
  <2>1. status' = [d \in Deliveries |-> IF d[2] = s /\ status[d] # None THEN Gone ELSE status[d]]
        /\ UNCHANGED <<emitted, attempts, delay, send>>
    BY <1>13 DEF DeleteSubscription
  <2>2. Columns'
    BY <1>0, <2>1 DEF Columns, Gone, None
  <2>3. Sending'
    BY <1>0, <2>1 DEF Sending, Busy, Carries
  <2> QED
    BY <1>0, <1>13, <2>2, <2>3 DEF DeleteSubscription, Typed
<1>14. CASE UNCHANGED vars
  BY <1>0, <1>14, ColumnsStay DEF vars, Typed, Sending, Busy, Carries
<1> QED
  BY <1>1, <1>2, <1>3, <1>4, <1>5, <1>6, <1>7, <1>8, <1>9, <1>10, <1>11, <1>12, <1>13, <1>14
  DEF Next, Step

(* Type correctness: the columns of a delivery agree with each other, and no
   attempt number and no index into the backoff table leaves its range. *)
THEOREM TypeCorrect == Spec => []TypeOK
<1>1. Typed => TypeOK
  BY DEF Typed, Columns, Sending, Send, Ops, TypeOK
<1> QED
  BY <1>1, InitTyped, NextTyped, PTL DEF Spec

-----------------------------------------------------------------------------
LEMMA KeyStays ==
  ASSUME KeyInv, seen \subseteq seen', seen' \subseteq Deliveries,
         \A d \in Deliveries : processed'[d] = IF d \in seen' THEN 1 ELSE 0,
         \A p \in Senders : send'[p].op = "ok" => send'[p] = send[p] \/ send'[p].item.d \in seen',
         \A d \in Deliveries : status'[d] = "SUCCESS" => status[d] = "SUCCESS" \/ d \in seen'
  PROVE  KeyInv'
  BY DEF KeyInv

LEMMA KeyInserted ==
  ASSUME Typed, KeyInv, NEW x \in Item, Insert(x)
  PROVE  /\ seen \subseteq seen' /\ seen' \subseteq Deliveries /\ x.d \in seen'
         /\ \A d \in Deliveries : processed'[d] = IF d \in seen' THEN 1 ELSE 0
  BY ItemShape DEF Insert, Key, Typed, KeyInv

LEMMA NextKeys == Typed /\ KeyInv /\ [Next]_vars => KeyInv'
<1> SUFFICES ASSUME Typed, KeyInv, Next \/ UNCHANGED vars PROVE KeyInv'
  OBVIOUS
<1> USE DEF rows, receiver
<1>0. Sending /\ Columns /\ seen \subseteq Deliveries /\ late \subseteq Item
      /\ \A d \in Deliveries : processed[d] = IF d \in seen THEN 1 ELSE 0
  BY DEF Typed, KeyInv
<1>1. ASSUME UNCHANGED <<seen, processed, status>>,
             \A p \in Senders : send'[p].op = "ok" => send'[p] = send[p] \/ send'[p].item.d \in seen
      PROVE  KeyInv'
  BY <1>0, <1>1, KeyStays
<1>2. ASSUME NEW p \in Senders, NEW op, NEW item, NEW todo, Sent(p, op, item, todo), op # "ok"
      PROVE  \A q \in Senders : send'[q].op = "ok" => send'[q] = send[q]
  BY <1>2 DEF Sent
<1>3. ASSUME NEW p \in Dispatchers, NEW e \in Events, Publish(p, e) PROVE KeyInv'
  <2>1. PICK todo : todo = {[d |-> <<e, s>>, try |-> 1] : s \in subs} /\ GoNext(p, todo)
    BY <1>3 DEF Publish
  <2>2. todo \in SUBSET Item
    BY <2>1, DeliveryShape, ItemShape, MaxAttemptsIs DEF Typed
  <2>3. \A q \in Senders : send'[q].op = "ok" => send'[q] = send[q]
    BY <1>0, <1>2, <2>1, <2>2, GoNextSends DEF Senders
  <2> QED
    BY <1>1, <1>3, <2>3 DEF Publish
<1>4. ASSUME NEW p \in Workers, TakeBatch(p) PROVE KeyInv'
  <2>1. PICK batch, todo :
          /\ batch = {d \in Deliveries : status[d] = "FAILED" /\ d \in due /\ posts[d] < MaxPosts}
          /\ todo = {[d |-> d, try |-> NextTry(attempts[d])] : d \in batch}
          /\ GoNext(p, todo)
    BY <1>4 DEF TakeBatch
  <2>2. todo \in SUBSET Item
    BY <1>0, <2>1, ItemShape, MaxAttemptsIs DEF Columns, NextTry
  <2>3. \A q \in Senders : send'[q].op = "ok" => send'[q] = send[q]
    BY <1>0, <1>2, <2>1, <2>2, GoNextSends DEF Senders
  <2> QED
    BY <1>1, <1>4, <2>3 DEF TakeBatch
<1>5. ASSUME NEW p \in Senders, CreateAndPost(p) \/ RetryPost(p) PROVE KeyInv'
  <2>1. PICK x \in send[p].todo : Stop(p) \/ Go(p, "wait", x, send[p].todo \ {x})
    BY <1>5 DEF CreateAndPost, RetryPost
  <2>2. \A q \in Senders : send'[q].op = "ok" => send'[q] = send[q]
    BY <1>0, <1>2, <1>5, <2>1, Posts, Stops DEF CreateAndPost, RetryPost
  <2>3. \A d \in Deliveries : status'[d] = "SUCCESS" => status[d] = "SUCCESS"
    BY <1>0, <1>5 DEF CreateAndPost, RetryPost, Columns
  <2>4. UNCHANGED <<seen, processed>>
    BY <1>5 DEF CreateAndPost, RetryPost
  <2> QED
    BY <1>0, <2>2, <2>3, <2>4, KeyStays
<1>6. ASSUME NEW p \in Senders, Busy(p), NEW op \in BusyOps, GoOn(p, op), UNCHANGED <<emitted, status>>,
             seen \subseteq seen', seen' \subseteq Deliveries,
             \A d \in Deliveries : processed'[d] = IF d \in seen' THEN 1 ELSE 0,
             op = "ok" => send[p].item.d \in seen'
      PROVE  KeyInv'
  <2>1. Sent(p, op, send[p].item, send[p].todo)
    BY <1>0, <1>6, GoesOn
  <2>2. \A q \in Senders : send'[q].op = "ok" => send'[q] = send[q] \/ send'[q].item.d \in seen'
    BY <1>6, <2>1 DEF Sent
  <2> QED
    BY <1>6, <2>2, KeyStays
<1>7. ASSUME NEW p \in Senders, Unanswered(p) \/ Arrives(p) PROVE KeyInv'
  <2>1. PICK op \in BusyOps : GoOn(p, op) /\ (op = "ok" => send[p].item.d \in seen)
    BY <1>7 DEF Unanswered, Arrives, BusyOps, Accepted, Refused, Key
  <2> QED
    BY <1>0, <1>6, <1>7, <2>1 DEF Unanswered, Arrives, Busy
<1>8. ASSUME NEW p \in Senders, Served(p) PROVE KeyInv'
  <2>1. PICK op \in BusyOps : GoOn(p, op)
    BY <1>8 DEF Served, BusyOps, Accepted, Refused
  <2>2. Busy(p) /\ Insert(send[p].item) /\ UNCHANGED <<emitted, status>>
    BY <1>8 DEF Served, Busy
  <2>3. /\ seen \subseteq seen' /\ seen' \subseteq Deliveries /\ send[p].item.d \in seen'
        /\ \A d \in Deliveries : processed'[d] = IF d \in seen' THEN 1 ELSE 0
    BY <1>0, <2>2, ItemAtHand, KeyInserted
  <2> QED
    BY <1>6, <2>1, <2>2, <2>3
<1>9. ASSUME NEW p \in Senders, TimesOut(p) PROVE KeyInv'
  BY <1>0, <1>6, <1>9 DEF TimesOut, Busy, BusyOps
<1>10. ASSUME ServedLate PROVE KeyInv'
  <2>1. PICK x \in late : Insert(x)
    BY <1>10 DEF ServedLate
  <2> QED
    BY <1>0, <1>10, <2>1, KeyInserted, KeyStays DEF ServedLate
<1>11. ASSUME NEW p \in Senders, RecordSuccess(p) \/ RecordFailure(p) PROVE KeyInv'
  <2>1. \A q \in Senders : send'[q].op = "ok" => send'[q] = send[q]
    BY <1>0, <1>2, <1>11, ItemAtHand, GoNextSends DEF RecordSuccess, RecordFailure, GoesOnWith
  <2>2. UNCHANGED <<seen, processed>>
    BY <1>11 DEF RecordSuccess, RecordFailure
  <2>3. \A d \in Deliveries : status'[d] = "SUCCESS" => status[d] = "SUCCESS" \/ d \in seen
    <3>1. PICK x : x = send[p].item.d
      OBVIOUS
    <3>2. CASE RecordSuccess(p)
      <4>1. status' = [status EXCEPT ![x] = "SUCCESS"] /\ x \in seen
        BY <3>1, <3>2 DEF RecordSuccess, KeyInv
      <4> QED
        BY <1>0, <4>1 DEF Columns
    <3>3. CASE RecordFailure(p)
      <4>1. PICK s \in {"DEAD", "FAILED"} : status' = [status EXCEPT ![x] = s]
        BY <3>1, <3>3 DEF RecordFailure
      <4> QED
        BY <1>0, <4>1 DEF Columns
    <3> QED
      BY <1>11, <3>2, <3>3
  <2> QED
    BY <1>0, <2>1, <2>2, <2>3, KeyStays
<1>12. ASSUME NEW p \in Senders, RecordFails(p) PROVE KeyInv'
  <2>1. GoOn(p, "fail") \/ Stop(p)
    BY <1>12 DEF RecordFails
  <2>2. Busy(p) /\ UNCHANGED <<emitted, status, seen, processed>>
    BY <1>12 DEF RecordFails, Busy
  <2>3. \A q \in Senders : send'[q].op = "ok" => send'[q] = send[q]
    BY <1>0, <1>2, <2>1, <2>2, GoesOn, Stops DEF BusyOps
  <2> QED
    BY <1>1, <2>2, <2>3
<1>13. CASE Crash
  BY <1>1, <1>13, IdleShape DEF Crash
<1>14. ASSUME NEW d \in Deliveries, RetryTimeComes(d) PROVE KeyInv'
  BY <1>1, <1>14 DEF RetryTimeComes
<1>15. ASSUME NEW s \in Subs, DeleteSubscription(s) PROVE KeyInv'
  <2>1. \A d \in Deliveries : status'[d] = "SUCCESS" => status[d] = "SUCCESS"
    BY <1>15 DEF DeleteSubscription, Gone
  <2> QED
    BY <1>0, <1>15, <2>1, KeyStays DEF DeleteSubscription
<1>16. CASE UNCHANGED vars
  BY <1>1, <1>16 DEF vars
<1> QED
  BY <1>3, <1>4, <1>5, <1>7, <1>8, <1>9, <1>10, <1>11, <1>12, <1>13, <1>14, <1>15, <1>16
  DEF Next, Step

(* The receiver acts at most once on a delivery, whatever is retried, lost,
   overlaps or is served late, and has acted on each that is a SUCCESS. *)
THEOREM ActsOnce == Spec => []ProcessedOnce
<1>1. KeyInv => ProcessedOnce
  BY DEF KeyInv, ProcessedOnce
<1>2. Init => Typed /\ KeyInv
  BY InitTyped, IdleShape DEF Init, KeyInv, None
<1>3. Typed /\ KeyInv /\ [Next]_vars => (Typed /\ KeyInv)'
  BY NextTyped, NextKeys
<1> QED
  BY <1>1, <1>2, <1>3, PTL DEF Spec

-----------------------------------------------------------------------------
(* What a step of a sender does to its list and to the three counts: it posts
   the next item, waits, records an attempt, loses the record, or ends. *)
Turn(p, op, item, todo) ==
  \/ /\ send[p].op = "next" /\ op = "wait" /\ item \in send[p].todo /\ todo = send[p].todo \ {item}
     /\ posts' = [posts EXCEPT ![item.d] = @ + 1]
     /\ UNCHANGED <<attempts, unrecorded>>
     /\ \A d \in Deliveries : status'[d] = "FAILED" => status[d] = "FAILED"
  \/ /\ Busy(p) /\ op \in BusyOps /\ item = send[p].item /\ todo = send[p].todo
     /\ UNCHANGED <<status, posts, attempts, unrecorded>>
  \/ /\ Busy(p) /\ op \in {"idle", "next"} /\ todo = send[p].todo
     /\ attempts' = [attempts EXCEPT ![send[p].item.d] = send[p].item.try]
     /\ UNCHANGED <<posts, unrecorded>>
     /\ \A d \in Deliveries : d # send[p].item.d => status'[d] = status[d]
  \/ /\ Busy(p) /\ op = "idle" /\ todo = {}
     /\ unrecorded' = [unrecorded EXCEPT ![send[p].item.d] = @ + 1]
     /\ UNCHANGED <<status, posts, attempts>>
  \/ /\ send[p].op = "next" /\ op = "idle" /\ todo = {}
     /\ UNCHANGED <<status, posts, attempts, unrecorded>>

LEMMA StepTurns ==
  ASSUME Typed, NEW p \in Senders, Step(p)
  PROVE  /\ \E op, item, todo : Sent(p, op, item, todo) /\ Turn(p, op, item, todo)
         /\ UNCHANGED contended
<1> USE DEF rows, receiver
<1>0. Sending /\ Columns
  BY DEF Typed
<1>1. CASE CreateAndPost(p) \/ RetryPost(p)
  <2>1. PICK x \in send[p].todo :
          \/ /\ Go(p, "wait", x, send[p].todo \ {x}) /\ posts' = [posts EXCEPT ![x.d] = @ + 1]
             /\ (status' = status \/ status' = [status EXCEPT ![x.d] = "PENDING"])
          \/ Stop(p) /\ UNCHANGED <<status, posts>>
    BY <1>1 DEF CreateAndPost, RetryPost
  <2>2. send[p].op = "next" /\ UNCHANGED <<emitted, attempts, unrecorded, contended>>
    BY <1>1 DEF CreateAndPost, RetryPost
  <2>3. CASE Stop(p) /\ UNCHANGED <<status, posts>>
    BY <1>0, <2>2, <2>3, Stops DEF Turn
  <2>4. CASE /\ Go(p, "wait", x, send[p].todo \ {x}) /\ posts' = [posts EXCEPT ![x.d] = @ + 1]
             /\ (status' = status \/ status' = [status EXCEPT ![x.d] = "PENDING"])
    <3>1. Sent(p, "wait", x, send[p].todo \ {x})
      BY <1>0, <2>2, <2>4, Posts
    <3>2. \A d \in Deliveries : status'[d] = "FAILED" => status[d] = "FAILED"
      BY <1>0, <2>4 DEF Columns
    <3>3. Turn(p, "wait", x, send[p].todo \ {x})
      BY <2>2, <2>4, <3>2 DEF Turn
    <3> QED
      BY <2>2, <3>1, <3>3
  <2> QED
    BY <2>1, <2>3, <2>4
<1>2. CASE Unanswered(p) \/ Arrives(p) \/ Served(p) \/ TimesOut(p)
  <2>1. PICK op \in BusyOps : GoOn(p, op)
    BY <1>2 DEF Unanswered, Arrives, Served, TimesOut, BusyOps, Accepted, Refused
  <2>2. Busy(p) /\ UNCHANGED <<emitted, status, posts, attempts, unrecorded, contended>>
    BY <1>2 DEF Unanswered, Arrives, Served, TimesOut, Busy
  <2> QED
    BY <1>0, <2>1, <2>2, GoesOn DEF Turn
<1>3. CASE RecordSuccess(p) \/ RecordFailure(p)
  <2>1. PICK op \in {"idle", "next"} : Sent(p, op, Nil, send[p].todo)
    BY <1>0, <1>3, ItemAtHand, GoNextSends DEF RecordSuccess, RecordFailure, GoesOnWith
  <2>2. /\ Busy(p) /\ attempts' = [attempts EXCEPT ![send[p].item.d] = send[p].item.try]
        /\ UNCHANGED <<posts, unrecorded, contended>>
    BY <1>3 DEF RecordSuccess, RecordFailure, Busy
  <2>3. \A d \in Deliveries : d # send[p].item.d => status'[d] = status[d]
    <3>1. PICK x, s : x = send[p].item.d /\ status' = [status EXCEPT ![x] = s]
      BY <1>3 DEF RecordSuccess, RecordFailure
    <3> QED
      BY <1>0, <3>1 DEF Columns
  <2>4. Turn(p, op, Nil, send[p].todo)
    BY <2>1, <2>2, <2>3 DEF Turn
  <2> QED
    BY <2>1, <2>2, <2>4
<1>4. CASE RecordFails(p)
  <2>1. /\ Busy(p) /\ UNCHANGED <<emitted, status, posts, attempts, contended>>
        /\ \/ GoOn(p, "fail") /\ UNCHANGED unrecorded
           \/ Stop(p) /\ unrecorded' = [unrecorded EXCEPT ![send[p].item.d] = @ + 1]
    BY <1>4 DEF RecordFails, Busy
  <2> QED
    BY <1>0, <2>1, GoesOn, Stops DEF Turn, BusyOps
<1> QED
  BY <1>1, <1>2, <1>3, <1>4 DEF Step

(* Outside contention the carrier of a delivery, and its item, are unique. *)
LEMMA Unique ==
  ASSUME Sending, OneCarrier, CarriedOnce, NEW p \in Senders, NEW x \in Item, Carries(p, x),
         NEW q \in Senders, NEW y \in Item, Carries(q, y), y.d = x.d,
         q \in Dispatchers \/ y.d \notin contended
  PROVE  p = q /\ x = y
<1>1. p = q
  BY DEF OneCarrier
<1>2. x = y
  BY <1>1 DEF CarriedOnce, Carries
<1> QED
  BY <1>1, <1>2

LEMMA TurnKeepsPosts ==
  ASSUME Typed, PostInv, NEW p \in Senders, NEW op, NEW item, NEW todo, Sent(p, op, item, todo),
         Turn(p, op, item, todo), UNCHANGED contended
  PROVE  PostInv'
<1>0. /\ Sending /\ attempts \in [Deliveries -> 0..MaxAttempts]
      /\ posts \in [Deliveries -> Nat] /\ unrecorded \in [Deliveries -> Nat]
      /\ CarriedOnce /\ OneCarrier /\ NotYetFailed /\ NextAttempt /\ Counted
  BY DEF Typed, Columns, PostInv
<1>1. \A q \in Senders : \A x : Carries(q, x)' => Carries(q, x)
  BY DEF Sent, Turn, Carries, Busy, BusyOps
<1>2. CarriedOnce'
  BY <1>0 DEF Sent, Turn, CarriedOnce, Busy, BusyOps
<1>3. OneCarrier'
  BY <1>0, <1>1 DEF OneCarrier
<1>4. Busy(p) => /\ send[p].item \in Item /\ send[p].item.d \in Deliveries
                 /\ Carries(p, send[p].item) /\ send[p].item.try \in 1..MaxAttempts
  BY <1>0, ItemAtHand, ItemShape DEF Carries
<1>5. ASSUME UNCHANGED attempts, \A d \in Deliveries : status'[d] = "FAILED" => status[d] = "FAILED",
             Counted'
      PROVE  PostInv'
  <2>1. NotYetFailed'
    BY <1>0, <1>1, <1>5, ItemShape DEF NotYetFailed, Senders
  <2>2. NextAttempt'
    BY <1>0, <1>1, <1>5 DEF NextAttempt
  <2> QED
    BY <1>2, <1>3, <1>5, <2>1, <2>2 DEF PostInv
(* Whether a delivery is under way changes for the item of this sender only. *)
<1>6. \A q \in Senders : q # p => (Busy(q)' <=> Busy(q)) /\ send'[q].item = send[q].item
  BY DEF Sent, Busy
<1>7. \A q \in Senders : Busy(q) => send[q].item \in Item /\ Carries(q, send[q].item)
  BY <1>0, ItemAtHand DEF Carries
<1>8. CASE /\ send[p].op = "next" /\ op = "wait" /\ item \in send[p].todo
           /\ posts' = [posts EXCEPT ![item.d] = @ + 1]
           /\ UNCHANGED <<attempts, unrecorded>>
           /\ \A d \in Deliveries : status'[d] = "FAILED" => status[d] = "FAILED"
  <2>1. item \in Item /\ item.d \in Deliveries /\ Carries(p, item)
    BY <1>0, <1>8, ItemAtHand, ItemShape DEF Carries
  <2>2. ~ Busy(p) /\ Busy(p)' /\ send'[p].item = item
    BY <1>8 DEF Sent, Busy
  <2>3. \A d \in Deliveries : d # item.d => (Flying(d)' <=> Flying(d))
    BY <1>6, <2>2 DEF Flying
  <2>4. Flying(item.d)'
    BY <2>2 DEF Flying
  <2>5. item.d \notin contended => ~ Flying(item.d)
    BY <1>0, <1>7, <2>1, <2>2, Unique DEF Flying
  <2>6. Counted'
    BY <1>0, <1>8, <2>1, <2>3, <2>4, <2>5 DEF Counted
  <2> QED
    BY <1>5, <1>8, <2>6
<1>9. CASE /\ Busy(p) /\ op \in BusyOps /\ item = send[p].item
           /\ UNCHANGED <<status, posts, attempts, unrecorded>>
  <2>1. \A d : Flying(d)' <=> Flying(d)
    BY <1>6, <1>9 DEF Flying, Sent, Busy, BusyOps
  <2> QED
    BY <1>0, <1>5, <1>9, <2>1 DEF Counted
<1>10. CASE /\ send[p].op = "next" /\ op = "idle"
            /\ UNCHANGED <<status, posts, attempts, unrecorded>>
  <2>1. \A d : Flying(d)' <=> Flying(d)
    BY <1>6, <1>10 DEF Flying, Sent, Busy
  <2> QED
    BY <1>0, <1>5, <1>10, <2>1 DEF Counted
<1>11. ASSUME Busy(p), op \in {"idle", "next"}, NEW x \in Item, x = send[p].item
       PROVE  /\ \A d \in Deliveries : d # x.d => (Flying(d)' <=> Flying(d))
              /\ Flying(x.d)
              /\ x.d \notin contended => ~ Flying(x.d)'
  <2>1. ~ Busy(p)'
    BY <1>11 DEF Sent, Busy
  <2>2. \A d \in Deliveries : d # x.d => (Flying(d)' <=> Flying(d))
    BY <1>6, <1>11, <2>1 DEF Flying
  <2>3. Flying(x.d)
    BY <1>11 DEF Flying
  <2>4. ASSUME x.d \notin contended, NEW q \in Senders, Busy(q)', send'[q].item.d = x.d
        PROVE  FALSE
    <3>1. q # p /\ Busy(q) /\ send[q].item.d = x.d
      BY <1>6, <2>1, <2>4
    <3> QED
      BY <1>0, <1>4, <1>7, <1>11, <2>4, <3>1, Unique
  <2>5. x.d \notin contended => ~ Flying(x.d)'
    BY <2>4 DEF Flying
  <2> QED
    BY <2>2, <2>3, <2>5
<1>12. CASE /\ Busy(p) /\ op \in {"idle", "next"} /\ todo = send[p].todo
            /\ attempts' = [attempts EXCEPT ![send[p].item.d] = send[p].item.try]
            /\ UNCHANGED <<posts, unrecorded>>
            /\ \A d \in Deliveries : d # send[p].item.d => status'[d] = status[d]
  <2>1. PICK x \in Item : x = send[p].item /\ Carries(p, x)
    BY <1>4, <1>12
  <2>2. \A q \in Senders : \A y \in Item :
          Carries(q, y)' /\ (q \in Dispatchers \/ y.d \notin contended) => y.d # x.d
    <3>1. ASSUME NEW q \in Senders, NEW y \in Item, Carries(q, y)', y.d = x.d,
                 q \in Dispatchers \/ y.d \notin contended
          PROVE  FALSE
      <4>1. q = p /\ y = x
        BY <1>0, <1>1, <2>1, <3>1, Unique
      <4>2. x \in send[p].todo
        BY <1>12, <3>1, <4>1 DEF Carries, Sent, Busy
      <4> QED
        BY <1>0, <1>12, <2>1, <4>2 DEF CarriedOnce
    <3> QED
      BY <3>1
  <2>3. NotYetFailed'
    BY <1>0, <1>1, <1>12, <2>1, <2>2, ItemShape DEF NotYetFailed, Senders
  <2>4. \A d \in Deliveries : attempts'[d] = IF d = x.d THEN x.try ELSE attempts[d]
    BY <1>0, <1>12, <2>1
  <2>5. NextAttempt'
    BY <1>0, <1>1, <2>2, <2>4, ItemShape DEF NextAttempt
  <2>6. x.d \notin contended => x.try = attempts[x.d] + 1
    BY <1>0, <2>1 DEF NextAttempt
  <2>7. /\ \A d \in Deliveries : d # x.d => (Flying(d)' <=> Flying(d))
        /\ Flying(x.d) /\ (x.d \notin contended => ~ Flying(x.d)')
    BY <1>11, <1>12, <2>1
  <2>8. Counted'
    BY <1>0, <1>12, <2>4, <2>6, <2>7, ItemShape DEF Counted
  <2> QED
    BY <1>2, <1>3, <2>3, <2>5, <2>8 DEF PostInv
<1>13. CASE /\ Busy(p) /\ op = "idle"
            /\ unrecorded' = [unrecorded EXCEPT ![send[p].item.d] = @ + 1]
            /\ UNCHANGED <<status, posts, attempts>>
  <2>1. PICK x \in Item : x = send[p].item /\ x.d \in Deliveries
    BY <1>4, <1>13
  <2>2. \A d \in Deliveries : unrecorded'[d] = IF d = x.d THEN unrecorded[d] + 1 ELSE unrecorded[d]
    BY <1>0, <1>13, <2>1
  <2>3. /\ \A d \in Deliveries : d # x.d => (Flying(d)' <=> Flying(d))
        /\ Flying(x.d) /\ (x.d \notin contended => ~ Flying(x.d)')
    BY <1>11, <1>13, <2>1
  <2>4. Counted'
    BY <1>0, <1>13, <2>1, <2>2, <2>3 DEF Counted
  <2> QED
    BY <1>5, <1>13, <2>4
<1> QED
  BY <1>8, <1>9, <1>10, <1>12, <1>13 DEF Turn

(* A sender takes its list: one item for each delivery, with the number of
   its next attempt.  Who else has one of them is known to be contending. *)
LEMMA StartKeepsPosts ==
  ASSUME Typed, PostInv, NEW p \in Senders, send[p] = Idle,
         NEW op \in {"idle", "next"}, NEW todo \in SUBSET Item, Sent(p, op, Nil, todo),
         UNCHANGED <<status, attempts, posts, unrecorded>>, contended \subseteq contended',
         \A x, y \in todo : x.d = y.d => x = y,
         \A x \in todo : x.try = attempts[x.d] + 1,
         p \in Dispatchers => \A x \in todo : status[x.d] # "FAILED",
         \A x \in todo, q \in Senders, y \in Item :
           Carries(q, y) /\ y.d = x.d => {p, q} \subseteq Workers /\ x.d \in contended'
  PROVE  PostInv'
<1>0. CarriedOnce /\ OneCarrier /\ NotYetFailed /\ NextAttempt /\ Counted
  BY DEF PostInv
<1>1. ~ Busy(p) /\ ~ Busy(p)' /\ send'[p].todo = todo
  BY IdleShape DEF Sent, Busy
<1>2. \A q \in Senders : q # p => (Busy(q)' <=> Busy(q)) /\ send'[q] = send[q]
  BY DEF Sent, Busy
<1>3. \A x : Carries(p, x)' <=> x \in todo
  BY <1>1 DEF Carries
<1>4. \A q \in Senders : q # p => \A x : Carries(q, x)' <=> Carries(q, x)
  BY <1>2 DEF Carries
<1>5. CarriedOnce'
  BY <1>0, <1>1, <1>2 DEF CarriedOnce
<1>6. OneCarrier'
  <2> SUFFICES ASSUME NEW q \in Senders, NEW r \in Senders, NEW x \in Item, NEW y \in Item,
                      Carries(q, x)', Carries(r, y)', x.d = y.d,
                      q \in Dispatchers \/ x.d \notin contended', q # r
               PROVE  FALSE
    BY DEF OneCarrier
  <2>1. CASE q = p
    BY <1>3, <1>4, <2>1, SendersAssumption
  <2>2. CASE r = p
    BY <1>3, <1>4, <2>2, SendersAssumption
  <2>3. CASE q # p /\ r # p
    BY <1>0, <1>4, <2>3 DEF OneCarrier
  <2> QED
    BY <2>1, <2>2, <2>3
<1>7. NotYetFailed'
  BY <1>0, <1>3, <1>4 DEF NotYetFailed, Senders
<1>8. NextAttempt'
  BY <1>0, <1>3, <1>4 DEF NextAttempt
<1>9. \A d : Flying(d)' <=> Flying(d)
  BY <1>1, <1>2 DEF Flying
<1>10. Counted'
  BY <1>0, <1>9 DEF Counted
<1> QED
  BY <1>5, <1>6, <1>7, <1>8, <1>10 DEF PostInv

(* Nothing that the counts are about changes. *)
LEMMA PostsStay ==
  ASSUME PostInv, UNCHANGED <<send, attempts, posts, unrecorded, contended>>,
         \A d \in Deliveries : status'[d] = "FAILED" => status[d] = "FAILED"
  PROVE  PostInv'
<1>1. CarriedOnce' /\ OneCarrier' /\ NextAttempt' /\ Counted'
  BY DEF PostInv, CarriedOnce, OneCarrier, NextAttempt, Counted, Carries, Busy, Flying
<1>2. NotYetFailed'
  BY ItemShape DEF PostInv, NotYetFailed, Carries, Busy
<1> QED
  BY <1>1, <1>2 DEF PostInv

(* Outside contention at most one request for a delivery is under way. *)
LEMMA OneInFlight ==
  ASSUME Typed, PostInv, NEW d \in Deliveries \ contended
  PROVE  Cardinality({p \in Senders : Busy(p) /\ send[p].item.d = d})
           = IF Flying(d) THEN 1 ELSE 0
<1>0. Sending /\ CarriedOnce /\ OneCarrier
  BY DEF Typed, PostInv
<1>1. CASE Flying(d)
  <2>1. PICK p \in Senders : Busy(p) /\ send[p].item.d = d
    BY <1>1 DEF Flying
  <2>2. \A q \in Senders : Busy(q) => send[q].item \in Item /\ Carries(q, send[q].item)
    BY <1>0, ItemAtHand DEF Carries
  <2>3. \A q \in Senders : Busy(q) /\ send[q].item.d = d => q = p
    BY <1>0, <2>1, <2>2, Unique
  <2>4. {q \in Senders : Busy(q) /\ send[q].item.d = d} = {p}
    BY <2>1, <2>3
  <2>5. Cardinality({p}) = 1
    BY FS_Singleton, Zenon
  <2> QED
    BY <1>1, <2>4, <2>5
<1>2. CASE ~ Flying(d)
  <2>1. {q \in Senders : Busy(q) /\ send[q].item.d = d} = {}
    BY <1>2 DEF Flying
  <2> QED
    BY <1>2, <2>1, FS_EmptySet
<1> QED
  BY <1>1, <1>2

LEMMA CrashKeepsPosts ==
  ASSUME Typed, PostInv, Crash
  PROVE  PostInv'
<1>0. /\ Sending /\ posts \in [Deliveries -> Nat] /\ unrecorded \in [Deliveries -> Nat]
      /\ attempts \in [Deliveries -> 0..MaxAttempts]
      /\ CarriedOnce /\ OneCarrier /\ Counted
  BY DEF Typed, Columns, PostInv
<1>1. /\ \A p \in Senders : send'[p] = Idle
      /\ UNCHANGED <<status, attempts, posts, contended>>
      /\ \A d \in Deliveries : unrecorded'[d] =
           unrecorded[d] + Cardinality({p \in Senders : Busy(p) /\ send[p].item.d = d})
  BY DEF Crash, rows
<1>2. \A p \in Senders : ~ Busy(p)' /\ send'[p].todo = {}
  BY <1>1, IdleShape DEF Busy
<1>3. CarriedOnce' /\ OneCarrier' /\ NotYetFailed' /\ NextAttempt'
  BY <1>2 DEF CarriedOnce, OneCarrier, NotYetFailed, NextAttempt, Carries, Senders
<1>4. \A d \in Deliveries \ contended :
        Cardinality({p \in Senders : Busy(p) /\ send[p].item.d = d}) = IF Flying(d) THEN 1 ELSE 0
  BY OneInFlight
<1>5. \A d : ~ Flying(d)'
  BY <1>2 DEF Flying
<1>6. ASSUME NEW d \in Deliveries \ contended
      PROVE  posts'[d] = attempts'[d] + unrecorded'[d]
  <2>1. PICK n \in Nat : /\ n = Cardinality({p \in Senders : Busy(p) /\ send[p].item.d = d})
                        /\ n = IF Flying(d) THEN 1 ELSE 0
    BY <1>4
  <2>2. unrecorded'[d] = unrecorded[d] + n
    BY <1>1, <2>1
  <2>3. posts[d] = attempts[d] + unrecorded[d] + n
    BY <1>0, <2>1 DEF Counted
  <2> QED
    BY <1>0, <1>1, <2>2, <2>3
<1>7. Counted'
  BY <1>0, <1>1, <1>5, <1>6 DEF Counted
<1> QED
  BY <1>3, <1>7 DEF PostInv

LEMMA NextPosts == Typed /\ PostInv /\ [Next]_vars => PostInv'
<1> SUFFICES ASSUME Typed, PostInv, Next \/ UNCHANGED vars PROVE PostInv'
  OBVIOUS
<1> USE DEF rows
<1>0. Sending /\ Columns /\ subs \subseteq Subs
  BY DEF Typed
<1>1. ASSUME NEW p \in Dispatchers, NEW e \in Events, Publish(p, e) PROVE PostInv'
  <2>1. PICK todo : todo = {[d |-> <<e, s>>, try |-> 1] : s \in subs} /\ GoNext(p, todo)
    BY <1>1 DEF Publish
  <2>2. \A x \in todo : x \in Item /\ x.d \in Deliveries /\ x.d[1] = e /\ x = [d |-> x.d, try |-> 1]
                        /\ x.try = 1
    BY <1>0, <2>1, DeliveryShape, ItemShape, MaxAttemptsIs
  <2>3. e \notin emitted /\ p \in Senders /\ send[p] = Idle /\ todo \in SUBSET Item
    BY <1>1, <2>2 DEF Publish, Senders
  <2>4. PICK op \in {"idle", "next"} : Sent(p, op, Nil, todo)
    BY <1>0, <2>1, <2>3, GoNextSends
  <2>5. UNCHANGED <<status, attempts, posts, unrecorded, contended>>
    BY <1>1 DEF Publish
  <2>6. \A x \in todo : attempts[x.d] = 0 /\ status[x.d] # "FAILED"
    BY <1>0, <2>2, <2>3 DEF Columns, None
  <2>7. \A x \in todo, q \in Senders, y \in Item : ~ (Carries(q, y) /\ y.d = x.d)
    BY <1>0, <2>2, <2>3 DEF Sending
  <2> QED
    BY <2>2, <2>3, <2>4, <2>5, <2>6, <2>7, StartKeepsPosts
<1>2. ASSUME NEW p \in Workers, TakeBatch(p) PROVE PostInv'
  <2>1. PICK batch, todo :
          /\ batch = {d \in Deliveries : status[d] = "FAILED" /\ d \in due /\ posts[d] < MaxPosts}
          /\ todo = {[d |-> d, try |-> NextTry(attempts[d])] : d \in batch}
          /\ GoNext(p, todo)
          /\ contended' = contended \cup (batch \cap UNION {Held(q) : q \in Workers})
    BY <1>2 DEF TakeBatch
  <2>2. \A x \in todo : /\ x.d \in batch /\ x = [d |-> x.d, try |-> attempts[x.d] + 1]
                        /\ x.try = attempts[x.d] + 1
    BY <2>1 DEF NextTry
  <2>3. \A d \in batch : d \in Deliveries /\ status[d] = "FAILED" /\ NextTry(attempts[d]) \in 1..MaxAttempts
    BY <1>0, <2>1, MaxAttemptsIs DEF Columns, NextTry
  <2>4. todo \in SUBSET Item
    BY <2>1, <2>3, ItemShape
  <2>5. PICK op \in {"idle", "next"} : Sent(p, op, Nil, todo)
    BY <1>0, <2>1, <2>4, GoNextSends DEF Senders
  <2>6. send[p] = Idle /\ UNCHANGED <<status, attempts, posts, unrecorded>>
    BY <1>2 DEF TakeBatch
  <2>7. p \in Senders /\ p \notin Dispatchers
    BY SendersAssumption DEF Senders
  <2>8. ASSUME NEW x \in todo, NEW q \in Senders, NEW y \in Item, Carries(q, y), y.d = x.d
        PROVE  q \in Workers /\ x.d \in contended'
    <3>1. q \in Workers
      BY <2>2, <2>3, <2>8 DEF PostInv, NotYetFailed, Senders
    <3>2. x.d \in Held(q)
      BY <2>8 DEF Carries, Held
    <3> QED
      BY <2>1, <2>2, <3>1, <3>2
  <2>9. \A x, y \in todo : x.d = y.d => x = y
    BY <2>2
  <2> QED
    BY <2>1, <2>2, <2>4, <2>5, <2>6, <2>7, <2>8, <2>9, StartKeepsPosts
<1>3. ASSUME NEW p \in Senders, Step(p) PROVE PostInv'
  BY <1>3, StepTurns, TurnKeepsPosts
<1>4. CASE ServedLate
  BY <1>4, PostsStay DEF ServedLate
<1>5. CASE Crash
  BY <1>5, CrashKeepsPosts
<1>6. ASSUME NEW d \in Deliveries, RetryTimeComes(d) PROVE PostInv'
  BY <1>6, PostsStay DEF RetryTimeComes
<1>7. ASSUME NEW s \in Subs, DeleteSubscription(s) PROVE PostInv'
  BY <1>7, PostsStay DEF DeleteSubscription, Gone
<1>8. CASE UNCHANGED vars
  BY <1>8, PostsStay DEF vars
<1> QED
  BY <1>1, <1>2, <1>3, <1>4, <1>5, <1>6, <1>7, <1>8 DEF Next

LEMMA InitPosts == Init => PostInv
<1> SUFFICES ASSUME Init PROVE PostInv
  OBVIOUS
<1>1. \A p \in Senders : ~ Busy(p) /\ send[p].todo = {}
  BY IdleShape DEF Init, Busy
<1>2. CarriedOnce /\ OneCarrier /\ NotYetFailed /\ NextAttempt
  BY <1>1 DEF CarriedOnce, OneCarrier, NotYetFailed, NextAttempt, Carries, Senders
<1>3. Counted
  BY <1>1 DEF Init, Counted, Flying
<1> QED
  BY <1>2, <1>3 DEF PostInv

(* Every request is accounted for: a delivery that two workers never had at
   once was posted once for each recorded attempt, each lost record, and the
   request under way. *)
THEOREM EveryPostIsCounted == Spec => []PostsAreCounted
<1>1. Typed /\ PostInv => PostsAreCounted
  <2> SUFFICES ASSUME Typed, PostInv, NEW d \in Deliveries \ contended
               PROVE  posts[d] = attempts[d] + InFlight(d) + unrecorded[d]
    BY DEF PostsAreCounted
  <2>1. InFlight(d) = IF Flying(d) THEN 1 ELSE 0
    BY OneInFlight DEF InFlight
  <2> QED
    BY <2>1 DEF PostInv, Counted, Typed, Columns
<1>2. Init => Typed /\ PostInv
  BY InitTyped, InitPosts
<1>3. Typed /\ PostInv /\ [Next]_vars => (Typed /\ PostInv)'
  BY NextTyped, NextPosts
<1> QED
  BY <1>1, <1>2, <1>3, PTL DEF Spec
=============================================================================
