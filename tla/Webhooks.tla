------------------------------ MODULE Webhooks ------------------------------
(***************************************************************************)
(* Outbound webhooks (modules/integrations): an event is posted to every   *)
(* subscription, a failed delivery is retried with backoff until it is     *)
(* DEAD; and, as the receiver, the inbound endpoint of the same code, with *)
(* its signature key table ProcessedWebhook.                               *)
(*                                                                         *)
(* A sender is a dispatcher (WebhookEventHandler.dispatchEvent, one event) *)
(* or a worker (processDuePending, a batch).  It takes its list first and  *)
(* then works through it without reading a delivery again.  The code       *)
(* schedules no worker: whoever calls it may call it at any time, twice at *)
(* once included.  Requests and answers are lost; a request whose sender   *)
(* timed out may still be served later.                                    *)
(***************************************************************************)
EXTENDS Integers, Sequences, FiniteSets

CONSTANTS
  Events,          \* event occurrences, each emitted once
  Subs,            \* webhook subscriptions to them
  Deletable,       \* bound: subscriptions that may be deleted
  Dispatchers,     \* event handlers that run at the same time
  Workers,         \* calls of processDuePending at the same time
  Schedule,        \* BACKOFF_SCHEDULE_SEC
  Nil,
  MaxPosts,        \* bound: a delivery posted this often is not retried
  MaxFaults        \* bound: failed updates and process restarts

ASSUME ScheduleAssumption == Schedule \in Seq(Nat \ {0}) /\ Len(Schedule) > 1
ASSUME SendersAssumption  == Dispatchers \cap Workers = {} /\ IsFiniteSet(Dispatchers \cup Workers)
ASSUME DeletableAssumption == Deletable \subseteq Subs
ASSUME BoundsAssumption   == {MaxPosts, MaxFaults} \subseteq Nat

Deliveries  == Events \X Subs
Senders     == Dispatchers \cup Workers
MaxAttempts == Len(Schedule)

VARIABLES
  subs,            \* subscriptions that exist
  emitted,         \* events that were emitted
  status, attempts, delay,  \* columns of WebhookDelivery (delay: to nextRetryAt)
  due,             \* deliveries whose nextRetryAt has come
  send,            \* what each sender is doing
  seen,            \* ProcessedWebhook.key of the receiver
  late,            \* requests still being served after their sender gave up
  posts,           \* history: requests sent, by delivery
  unrecorded,      \* history: requests whose outcome was never recorded
  processed,       \* history: times the receiver acted on a delivery
  contended,       \* history: deliveries that two workers held at once
  cut,             \* history: events whose dispatch was cut short
  faults

rows     == <<status, attempts, delay, due>>
receiver == <<seen, late, processed>>
vars     == <<subs, emitted, rows, send, receiver, posts, unrecorded, contended, cut, faults>>

Gone == "GONE"                \* deleted with its subscription
None == "NONE"                \* not created yet
DeliveryStatus == {"PENDING", "SUCCESS", "FAILED", "DEAD"}

(* todo: the deliveries still to post, each with the number of the attempt *)
Item == [d : Deliveries, try : 1..MaxAttempts]
Idle == [op |-> "idle", todo |-> {}, item |-> Nil]

-----------------------------------------------------------------------------
(* Slips the properties below must catch; no action uses them. *)

AttemptsAsRead(k)          == k                   \* the retry is not counted
SignatureKey(item)         == <<item.d, item.try>>  \* keyed by signature: new each time
GivesUpEarly(k)            == k + 1 >= MaxAttempts
StopAtFirstFailure(p)      == IF send[p].op = "fail" THEN {} ELSE send[p].todo

-----------------------------------------------------------------------------
NextTry(k)    == k + 1
Exhausted(k)  == k >= MaxAttempts
(* computeNextRetry: the zero-based table is indexed with the attempts made *)
Backoff(k)    == IF Exhausted(k) THEN 0 ELSE Schedule[k + 1]
Key(item)     == item.d                           \* x-crm-delivery

Go(p, op, item, todo) == send' = [send EXCEPT ![p] = [op |-> op, item |-> item, todo |-> todo]]
GoOn(p, op)           == Go(p, op, send[p].item, send[p].todo)
Stop(p)               == send' = [send EXCEPT ![p] = Idle]
GoNext(p, todo)       == IF todo = {} THEN Stop(p) ELSE Go(p, "next", Nil, todo)

Busy(p)   == send[p].op \in {"wait", "serve", "ok", "fail"}
Held(p)   == {x.d : x \in send[p].todo} \cup (IF Busy(p) THEN {send[p].item.d} ELSE {})
EventOf(p) == {d[1] : d \in Held(p)}

-----------------------------------------------------------------------------
(* dispatchEvent: the active subscriptions are read once. *)
Publish(p, e) ==
  /\ send[p] = Idle /\ e \notin emitted
  /\ emitted' = emitted \cup {e}
  /\ GoNext(p, {[d |-> <<e, s>>, try |-> 1] : s \in subs})
  /\ UNCHANGED <<subs, rows, receiver, posts, unrecorded, contended, cut, faults>>

(* createDelivery, then the request.  A subscription deleted in the meantime
   breaks the foreign key, and the exception ends the loop. *)
CreateAndPost(p) ==
  /\ p \in Dispatchers /\ send[p].op = "next"
  /\ \E x \in send[p].todo :
       IF x.d[2] \in subs
       THEN /\ status' = [status EXCEPT ![x.d] = "PENDING"]
            /\ posts'  = [posts EXCEPT ![x.d] = @ + 1]
            /\ Go(p, "wait", x, send[p].todo \ {x})
            /\ UNCHANGED cut
       ELSE Stop(p) /\ cut' = cut \cup EventOf(p) /\ UNCHANGED <<status, posts>>
  /\ UNCHANGED <<subs, emitted, attempts, delay, due, receiver, unrecorded, contended, faults>>

(* processDuePending: one query for what is due; nothing marks it as taken. *)
TakeBatch(p) ==
  LET batch == {d \in Deliveries : status[d] = "FAILED" /\ d \in due /\ posts[d] < MaxPosts}
  IN /\ send[p] = Idle /\ batch # {}
     /\ GoNext(p, {[d |-> d, try |-> NextTry(attempts[d])] : d \in batch})
     /\ contended' = contended \cup (batch \cap UNION {Held(q) : q \in Workers})
     /\ UNCHANGED <<subs, emitted, rows, receiver, posts, unrecorded, cut, faults>>

RetryPost(p) ==
  /\ p \in Workers /\ send[p].op = "next"
  /\ \E x \in send[p].todo :
       /\ posts' = [posts EXCEPT ![x.d] = @ + 1]
       /\ Go(p, "wait", x, send[p].todo \ {x})
  /\ UNCHANGED <<subs, emitted, rows, receiver, unrecorded, contended, cut, faults>>

-----------------------------------------------------------------------------
(* The network and the receiver (handleInbound). *)

(* An answer with status 2xx may get lost; any other one is a failure. *)
Accepted(p) == {"ok", "fail"}
Refused(p)  == {"fail"}

Unanswered(p) ==              \* lost on the way, refused, or an error
  /\ send[p].op = "wait"
  /\ \E op \in Refused(p) : GoOn(p, op)
  /\ UNCHANGED <<subs, emitted, rows, receiver, posts, unrecorded, contended, cut, faults>>

(* findProcessed: a known key is answered at once, a new one is inserted. *)
Arrives(p) ==
  /\ send[p].op = "wait"
  /\ IF Key(send[p].item) \in seen
     THEN \E op \in Accepted(p) : GoOn(p, op)
     ELSE GoOn(p, "serve")
  /\ UNCHANGED <<subs, emitted, rows, receiver, posts, unrecorded, contended, cut, faults>>

(* createProcessed: the key is the primary key, a second insert is an error. *)
Insert(item) ==
  IF Key(item) \in seen THEN UNCHANGED <<seen, processed>>
  ELSE /\ seen' = seen \cup {Key(item)}
       /\ processed' = [processed EXCEPT ![item.d] = @ + 1]

Served(p) ==
  /\ send[p].op = "serve"
  /\ Insert(send[p].item)
  /\ \E op \in (IF Key(send[p].item) \in seen THEN Refused(p) ELSE Accepted(p)) : GoOn(p, op)
  /\ UNCHANGED <<subs, emitted, rows, late, posts, unrecorded, contended, cut, faults>>

TimesOut(p) ==                \* AbortController; the receiver goes on
  /\ send[p].op = "serve"
  /\ late' = late \cup {send[p].item}
  /\ GoOn(p, "fail")
  /\ UNCHANGED <<subs, emitted, rows, seen, processed, posts, unrecorded, contended, cut, faults>>

ServedLate ==
  /\ \E x \in late : late' = late \ {x} /\ Insert(x)
  /\ UNCHANGED <<subs, emitted, rows, send, posts, unrecorded, contended, cut, faults>>

-----------------------------------------------------------------------------
(* updateDelivery, with the attempt number of the list. *)

GoesOnWith(p) == send[p].todo

RecordSuccess(p) ==
  LET x == send[p].item IN
  /\ send[p].op = "ok" /\ status[x.d] # Gone
  /\ status'   = [status EXCEPT ![x.d] = "SUCCESS"]
  /\ attempts' = [attempts EXCEPT ![x.d] = x.try]
  /\ delay'    = [delay EXCEPT ![x.d] = 0]
  /\ due'      = due \ {x.d}
  /\ GoNext(p, GoesOnWith(p))
  /\ UNCHANGED <<subs, emitted, receiver, posts, unrecorded, contended, cut, faults>>

RecordFailure(p) ==           \* fail(): FAILED with a date, or DEAD
  LET x == send[p].item IN
  /\ send[p].op = "fail" /\ status[x.d] # Gone
  /\ status'   = [status EXCEPT ![x.d] = IF Exhausted(x.try) THEN "DEAD" ELSE "FAILED"]
  /\ attempts' = [attempts EXCEPT ![x.d] = x.try]
  /\ delay'    = [delay EXCEPT ![x.d] = Backoff(x.try)]
  /\ due'      = due \ {x.d}
  /\ GoNext(p, GoesOnWith(p))
  /\ UNCHANGED <<subs, emitted, receiver, posts, unrecorded, contended, cut, faults>>

(* updateDelivery throws: the row is gone or the database fails.  The loop of
   a worker catches that once and records a failure instead; otherwise the
   exception ends the sender's loop. *)
RecordFails(p) ==
  LET x == send[p].item IN
  /\ send[p].op \in {"ok", "fail"}
  /\ \/ status[x.d] = Gone /\ UNCHANGED faults
     \/ status[x.d] # Gone /\ faults < MaxFaults /\ faults' = faults + 1
  /\ \/ p \in Workers /\ GoOn(p, "fail") /\ UNCHANGED <<cut, unrecorded>>
     \/ /\ p \in Dispatchers \/ send[p].op = "fail"
        /\ Stop(p)
        /\ cut' = IF p \in Dispatchers THEN cut \cup EventOf(p) ELSE cut
        /\ unrecorded' = [unrecorded EXCEPT ![x.d] = @ + 1]
  /\ UNCHANGED <<subs, emitted, rows, receiver, posts, contended>>

Crash ==
  /\ faults < MaxFaults
  /\ \E p \in Senders : send[p] # Idle
  /\ faults' = faults + 1
  /\ send' = [p \in Senders |-> Idle]
  /\ cut' = cut \cup UNION {EventOf(p) : p \in Dispatchers}
  /\ unrecorded' = [d \in Deliveries |->
       unrecorded[d] + Cardinality({p \in Senders : Busy(p) /\ send[p].item.d = d})]
  /\ late' = late \cup {send[p].item : p \in {q \in Senders : send[q].op = "serve"}}
  /\ UNCHANGED <<subs, emitted, rows, seen, processed, posts, contended>>

RetryTimeComes(d) ==
  /\ status[d] = "FAILED" /\ d \notin due
  /\ due' = due \cup {d}
  /\ UNCHANGED <<subs, emitted, status, attempts, delay, send, receiver, posts, unrecorded,
                 contended, cut, faults>>

DeleteSubscription(s) ==      \* onDelete: Cascade
  /\ s \in subs \cap Deletable
  /\ subs' = subs \ {s}
  /\ status' = [d \in Deliveries |-> IF d[2] = s /\ status[d] # None THEN Gone ELSE status[d]]
  /\ due' = {d \in due : d[2] # s}
  /\ UNCHANGED <<emitted, attempts, delay, send, receiver, posts, unrecorded, contended,
                 cut, faults>>

-----------------------------------------------------------------------------
Init ==
  /\ subs       = Subs
  /\ emitted    = {}
  /\ status     = [d \in Deliveries |-> None]
  /\ attempts   = [d \in Deliveries |-> 0]
  /\ delay      = [d \in Deliveries |-> 0]
  /\ due        = {}
  /\ send       = [p \in Senders |-> Idle]
  /\ seen       = {}
  /\ late       = {}
  /\ posts      = [d \in Deliveries |-> 0]
  /\ unrecorded = [d \in Deliveries |-> 0]
  /\ processed  = [d \in Deliveries |-> 0]
  /\ contended  = {}
  /\ cut        = {}
  /\ faults     = 0

Step(p) ==
  \/ CreateAndPost(p) \/ RetryPost(p)
  \/ Unanswered(p) \/ Arrives(p) \/ Served(p) \/ TimesOut(p)
  \/ RecordSuccess(p) \/ RecordFailure(p) \/ RecordFails(p)

Next ==
  \/ \E p \in Dispatchers, e \in Events : Publish(p, e)
  \/ \E p \in Workers : TakeBatch(p)
  \/ \E p \in Senders : Step(p)
  \/ ServedLate
  \/ Crash
  \/ \E d \in Deliveries : RetryTimeComes(d)
  \/ \E s \in Subs : DeleteSubscription(s)

(* A started sender runs on: queries settle, and the HTTP client gives up
   after TIMEOUT_MS.  Nothing forces processDuePending to be called. *)
Fairness == \A p \in Senders : WF_vars(Step(p))

Spec == Init /\ [][Next]_vars /\ Fairness

-----------------------------------------------------------------------------
(* Columns agree with each other: a delivery is DEAD with its last attempt,
   FAILED and waiting before that, and only SUCCESS after at least one. *)
TypeOK ==
  /\ subs \subseteq Subs /\ emitted \subseteq Events /\ cut \subseteq emitted
  /\ status     \in [Deliveries -> DeliveryStatus \cup {None, Gone}]
  /\ attempts   \in [Deliveries -> 0..MaxAttempts]
  /\ delay      \in [Deliveries -> Nat]
  /\ send       \in [Senders -> [op : {"idle", "next", "wait", "serve", "ok", "fail"},
                                 todo : SUBSET Item, item : Item \cup {Nil}]]
  /\ late \subseteq Item
  /\ {posts, unrecorded, processed} \subseteq [Deliveries -> Nat]
  /\ {due, contended} \subseteq SUBSET Deliveries
  /\ faults \in 0..MaxFaults
  /\ \A d \in Deliveries :
       /\ status[d] = "DEAD"    => attempts[d] = MaxAttempts
       /\ status[d] = "FAILED"  => attempts[d] \in 1..(MaxAttempts - 1) /\ delay[d] > 0
       /\ status[d] = "SUCCESS" => attempts[d] > 0

(* Every request is accounted for: outside overlapping workers a delivery has
   been posted once per recorded attempt, plus the one in flight, plus those
   whose record was lost - so at most MAX_ATTEMPTS times without faults. *)
InFlight(d) == Cardinality({p \in Senders : Busy(p) /\ send[p].item.d = d})
PostsAreCounted ==
  \A d \in Deliveries \ contended :
    posts[d] = attempts[d] + InFlight(d) + unrecorded[d]

(* The idempotency key works end to end: retries, overlapping workers and
   requests served after their timeout make the receiver act once; and once
   it has, for a delivery that is called a SUCCESS. *)
ProcessedOnce ==
  \A d \in Deliveries :
    /\ processed[d] <= 1
    /\ status[d] = "SUCCESS" => processed[d] = 1

(* One subscriber's failure does not cost the others their delivery: everyone
   subscribed when an event is emitted gets a row, unless the dispatch was cut
   short by a database error, a deleted subscription or a restart. *)
EveryoneIsServed ==
  \A e \in Events : \A s \in Subs :
    e \in emitted ~> status[<<e, s>>] # None \/ e \in cut \/ s \notin subs

(* backoff.util.ts: "1m, 5m, 30m, 2h, 6h"; its test: "first backoff (60s) on
   the first failure" - refuted, the table is read one entry too far. *)
FirstRetryAfterAMinute ==
  \A d \in Deliveries : status[d] = "FAILED" /\ attempts[d] = 1 => delay[d] = Schedule[1]
=============================================================================
