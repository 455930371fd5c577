------------------------------- MODULE Kanban -------------------------------
(***************************************************************************)
(* Deals on the kanban board (modules/deals) and the stages they stand in  *)
(* (modules/pipelines).                                                    *)
(*                                                                         *)
(* A position on the board is a rank, not an index: a card that is dropped *)
(* between two others gets the mean of their ranks, one at an end a step   *)
(* more or less.  A move reads the deal and the target stage, later the    *)
(* ranks of the neighbours the client named, and writes later still; the   *)
(* stages may be added, reordered and removed meanwhile.                   *)
(*                                                                         *)
(* Ranks are counted in units of the smallest difference the column        *)
(* Decimal(30, 15) can hold; RankGap units make a step of 1.  The service  *)
(* computes them as doubles, which miss a decimal by up to Precision units.*)
(* Requests that change no column modelled here (titles, notes) are left   *)
(* out.                                                                    *)
(*                                                                         *)
(* What other components have too has a name of its own here (BoardInit,   *)
(* boardVars, Slots, None), so that a module can extend Kanban and them.   *)
(***************************************************************************)
EXTENDS Integers, Sequences, FiniteSets

CONSTANTS
  Slots,           \* for requests in flight at the same time
  Users,
  Managers,        \* users with the role ADMIN or MANAGER
  Deals,           \* numbers standing for deal ids
  Stages,          \* stage rows that can exist
  Pipelines,
  PipelineOf,      \* Stage.pipelineId, which never changes
  None,            \* no row, no neighbour, no owner
  RankGap, MinGap, \* RANK_GAP and MIN_RANK_GAP, in units of the last decimal
  Precision,       \* how far a double is from the number it stands for
  InitialStages,   \* stages of the seed, in board order, by pipeline
  InitialKind,     \* and their flags
  FirstStage,      \* the stage in which deals were created since
  InitialDeals,    \* how many
  Seller,          \* by whom
  MaxRequests      \* bound: requests after that

ASSUME UsersAssumption  == Managers \subseteq Users /\ Seller \in Users
ASSUME DealsAssumption  == Deals \subseteq Nat /\ InitialDeals \in Nat /\ 1..InitialDeals \subseteq Deals
ASSUME StagesAssumption ==
  /\ PipelineOf \in [Stages -> Pipelines]
  /\ InitialKind \in [Stages -> {"open", "won", "lost"}]
  /\ InitialStages \in [Pipelines -> Seq(Stages)]
  /\ \A p \in Pipelines : \A i, j \in DOMAIN InitialStages[p] :
       /\ PipelineOf[InitialStages[p][i]] = p
       /\ InitialStages[p][i] = InitialStages[p][j] => i = j
  /\ \E p \in Pipelines : \E i \in DOMAIN InitialStages[p] : FirstStage = InitialStages[p][i]
ASSUME NoneAssumption   == None \notin Users \cup Stages \cup Deals \cup Int
(* In units of 10^-15, MIN_RANK_GAP is 10^6, and doubles below 2^22 are 2^-31
   apart or less, which makes Precision 232831: true of ranks up to four
   million, which a column reaches after as many cards put at its end. *)
ASSUME RankAssumption   ==
  /\ {RankGap, MinGap, Precision} \subseteq Nat
  /\ 4 * Precision + 1 < MinGap /\ MinGap <= RankGap
ASSUME BoundsAssumption == MaxRequests \in Nat

VARIABLES
  position, kind,  \* Stage rows (position None: no row); isWon and isLost as a
                   \* kind, which "none" says there never was
  card,            \* Deal rows (None: no row)
  log,             \* STAGE_CHANGE activities of a deal, oldest first
  job,             \* what a request holds across its awaits
  requests,        \* how many requests have started
  overlapped,      \* history: deals that two requests held at once
  crowded,         \* history: stages where a rank was computed from neighbours
                   \* that were not the true ones, or too close
  reflagged        \* history: stages whose kind was edited

board     == <<position, kind, card, log>>
history   == <<overlapped, crowded, reflagged>>
boardVars == <<board, job, requests, history>>

Kind       == {"open", "won", "lost"}
DealStatus == {"OPEN", "WON", "LOST"}
NoJob      == [op |-> "idle"]

Row == [stage : Stages, pipeline : Pipelines, rank : Int, status : DealStatus,
        owner : Users \cup {None}, live : BOOLEAN]

ASSUME CardAssumption == None \notin Row

Job == {NoJob}
  \cup [op : {"place"}, by : Users, deal : Deals, from : Stages \cup {None}, to : Stages,
        status : DealStatus]
  \cup [op : {"write"}, by : Users, deal : Deals, from : Stages \cup {None}, to : Stages,
        status : DealStatus, rank : Int]
  \cup [op : {"assign"}, by : Users, deal : Deals, owner : Users \cup {None}]
  \cup [op : {"delete"}, by : Users, deal : Deals]
  \cup [op : {"addStage"}, stage : Stages, position : Nat]
  \cup [op : {"flag"}, stage : Stages, kind : Kind]
  \cup [op : {"reorder"}, pipeline : Pipelines, list : Seq(Stages)]
  \cup [op : {"removeStage"}, stage : Stages]

DealOps == {"place", "write", "assign", "delete"}

Exists(s)   == position[s] # None
StagesIn(p) == {s \in Stages : PipelineOf[s] = p /\ Exists(s)}
Live(d)     == card[d] # None /\ card[d].live
LiveIn(s)   == {d \in Deals : Live(d) /\ card[d].stage = s}

-----------------------------------------------------------------------------
(* Slips the properties below must catch; no action uses them. *)

AnyStageExists(d, s)   == Exists(s)               \* cross-pipeline check dropped
MeanIfAny(b, a)        ==                         \* no step at the ends
  {IF b = None THEN a ELSE IF a = None THEN b ELSE (b + a) \div 2}
FromAsWritten(h)       == job[h].to               \* read after the update

-----------------------------------------------------------------------------
(* Doubles.  What stands for a decimal, or for the result of an operation, is
   some number near it: an operator that computes one yields the set of what
   it may be. *)
Number(n) == (n - Precision)..(n + Precision)

(* A mean that needs one more decimal is rounded half up. *)
HalfOf(n) == IF n > 0 THEN (n + 1) \div 2 ELSE n \div 2

(* rank.util.ts; its needsRebalance is called by nothing. *)
ComputeRank(b, a) ==
  IF b = None THEN Number(a - RankGap)
  ELSE IF a = None THEN Number(b + RankGap)
  ELSE Number(HalfOf(b + a))

NeedsRebalance(b, a) == a - b < MinGap /\ b - a < MinGap

(* maxRankInStage and the step after it: the bottom of the column *)
BottomRank(s) ==
  IF LiveIn(s) = {} THEN {RankGap}
  ELSE LET max == CHOOSE r \in {card[d].rank : d \in LiveIn(s)} :
                    \A d \in LiveIn(s) : card[d].rank <= r
       IN UNION {Number(x + RankGap) : x \in Number(max)}

RankOf(d) == IF d = None THEN {None} ELSE Number(card[d].rank)

(* What the client should have named: b and a are next to each other in
   column s without card d, with the room between them that the code asks for
   where it looks. *)
TrueNeighbours(d, s, b, a) ==
  LET others == LiveIn(s) \ {d} IN
  /\ {b, a} \subseteq others \cup {None}
  /\ \A x \in others :
       \/ b # None /\ card[x].rank <= card[b].rank
       \/ a # None /\ card[a].rank <= card[x].rank
  /\ b # None /\ a # None =>
       card[b].rank < card[a].rank /\ ~NeedsRebalance(card[b].rank, card[a].rank)

-----------------------------------------------------------------------------
StatusIn(s) == IF kind[s] = "won" THEN "WON" ELSE IF kind[s] = "lost" THEN "LOST" ELSE "OPEN"

CanWrite(u, d) == Live(d) /\ (u \in Managers \/ card[d].owner = u)
MayStandIn(d, s) == Exists(s) /\ PipelineOf[s] = card[d].pipeline

Holders(d)  == {h \in Slots : job[h].op \in DealOps /\ job[h].deal = d}
PlacingIn(s) == {h \in Slots : job[h].op = "write" /\ job[h].to = s}

Start(h, r) ==
  /\ job[h] = NoJob
  /\ requests < MaxRequests
  /\ requests' = requests + 1
  /\ job' = [job EXCEPT ![h] = r]
  /\ UNCHANGED board

StartOnDeal(h, d, r) ==
  /\ Start(h, r)
  /\ overlapped' = IF Holders(d) = {} THEN overlapped ELSE overlapped \cup {d}
  /\ UNCHANGED <<crowded, reflagged>>

(* create, and the deal of a lead's conversion *)
StartCreate(h, u, s) ==
  /\ Exists(s)
  /\ \E d \in Deals :
       /\ card[d] = None /\ Holders(d) = {}
       /\ \A e \in Deals : e < d => card[e] # None \/ Holders(e) # {}
       /\ StartOnDeal(h, d, [op |-> "place", by |-> u, deal |-> d, from |-> None, to |-> s,
                             status |-> "OPEN"])

StartMove(h, u, d, s) ==
  /\ CanWrite(u, d) /\ MayStandIn(d, s)
  /\ StartOnDeal(h, d, [op |-> "place", by |-> u, deal |-> d, from |-> card[d].stage, to |-> s,
                        status |-> StatusIn(s)])

StartAssign(h, u, d) ==
  /\ CanWrite(u, d)
  /\ \E o \in Users \cup {None} :
       StartOnDeal(h, d, [op |-> "assign", by |-> u, deal |-> d, owner |-> o])

StartRemove(h, u, d) ==
  /\ CanWrite(u, d)
  /\ StartOnDeal(h, d, [op |-> "delete", by |-> u, deal |-> d])

(* The ranks are read: resolveNeighborRank for each neighbour that the dto
   names, or maxRankInStage when it names none. *)
PlaceAt(h, r, fits) ==
  LET q == job[h] IN
  /\ job' = [job EXCEPT ![h] = [op |-> "write", by |-> q.by, deal |-> q.deal, from |-> q.from,
                                to |-> q.to, status |-> q.status, rank |-> r]]
  /\ crowded' = IF fits /\ PlacingIn(q.to) = {} THEN crowded ELSE crowded \cup {q.to}
  /\ UNCHANGED <<board, requests, overlapped, reflagged>>

PlaceAtBottom(h) ==
  /\ job[h].op = "place"
  /\ \E r \in BottomRank(job[h].to) : PlaceAt(h, r, TRUE)

PlaceBetween(h) ==
  /\ job[h].op = "place" /\ job[h].from # None
  /\ \E b, a \in LiveIn(job[h].to) \cup {None} :
       /\ <<b, a>> # <<None, None>>
       /\ \E x \in RankOf(b), y \in RankOf(a) : \E r \in ComputeRank(x, y) :
            PlaceAt(h, r, TrueNeighbours(job[h].deal, job[h].to, b, a))

-----------------------------------------------------------------------------
Finish(h) == job' = [job EXCEPT ![h] = NoJob] /\ UNCHANGED requests

InsertDeal(h) ==                     \* the stage is a foreign key
  LET q == job[h] IN
  /\ q.op = "write" /\ q.from = None /\ Exists(q.to)
  /\ card' = [card EXCEPT ![q.deal] =
       [stage |-> q.to, pipeline |-> PipelineOf[q.to], rank |-> q.rank,
        status |-> q.status, owner |-> q.by, live |-> TRUE]]
  /\ Finish(h)
  /\ UNCHANGED <<position, kind, log, history>>

LoggedFrom(h) == job[h].from

ApplyMove(h) ==                      \* one transaction with the activity
  LET q == job[h] IN
  /\ q.op = "write" /\ q.from # None /\ Exists(q.to)
  /\ card' = [card EXCEPT ![q.deal].stage = q.to, ![q.deal].rank = q.rank,
                          ![q.deal].status = q.status]
  /\ log'  = [log EXCEPT ![q.deal] = Append(@, [from |-> LoggedFrom(h), to |-> q.to])]
  /\ Finish(h)
  /\ UNCHANGED <<position, kind, history>>

SetOwner(h) ==
  /\ job[h].op = "assign"
  /\ card' = [card EXCEPT ![job[h].deal].owner = job[h].owner]
  /\ Finish(h)
  /\ UNCHANGED <<position, kind, log, history>>

SoftDelete(h) ==
  /\ job[h].op = "delete"
  /\ card' = [card EXCEPT ![job[h].deal].live = FALSE]
  /\ Finish(h)
  /\ UNCHANGED <<position, kind, log, history>>

-----------------------------------------------------------------------------
(* Stages: PipelinesService. *)

LastPosition(p) ==                   \* maxPosition
  IF StagesIn(p) = {} THEN -1
  ELSE CHOOSE n \in {position[s] : s \in StagesIn(p)} : \A s \in StagesIn(p) : position[s] <= n

StartOnStages(h, r) == Start(h, r) /\ UNCHANGED <<overlapped, crowded, reflagged>>

StartAddStage(h, s) ==
  /\ kind[s] = "none" /\ \A g \in Slots : job[g].op = "addStage" => job[g].stage # s
  /\ StartOnStages(h, [op |-> "addStage", stage |-> s,
                       position |-> LastPosition(PipelineOf[s]) + 1])

StartUpdateStage(h, s) ==
  /\ Exists(s)
  /\ \E k \in Kind \ {kind[s]} : StartOnStages(h, [op |-> "flag", stage |-> s, kind |-> k])

(* The list has the right length and only stages of the pipeline: a stage
   named twice passes. *)
StartReorder(h, p) ==
  /\ \E list \in [1..Cardinality(StagesIn(p)) -> StagesIn(p)] :
       StartOnStages(h, [op |-> "reorder", pipeline |-> p, list |-> list])

NotTheLast(s) == Cardinality(StagesIn(PipelineOf[s])) > 1
Empty(s)      == ~\E d \in Deals : card[d] # None /\ card[d].stage = s
Removable(s)  == NotTheLast(s) /\ Empty(s)

StartRemoveStage(h, s) ==
  /\ Exists(s) /\ Removable(s)
  /\ StartOnStages(h, [op |-> "removeStage", stage |-> s])

CreateStage(h) ==                    \* (pipelineId, position) is unique
  LET s == job[h].stage IN
  /\ job[h].op = "addStage"
  /\ \A t \in StagesIn(PipelineOf[s]) : position[t] # job[h].position
  /\ position' = [position EXCEPT ![s] = job[h].position]
  /\ \E k \in Kind : kind' = [kind EXCEPT ![s] = k]
  /\ Finish(h)
  /\ UNCHANGED <<card, log, history>>

UpdateStage(h) ==
  LET s == job[h].stage IN
  /\ job[h].op = "flag" /\ Exists(s)
  /\ kind' = [kind EXCEPT ![s] = job[h].kind]
  /\ reflagged' = reflagged \cup {s}
  /\ Finish(h)
  /\ UNCHANGED <<position, card, log, overlapped, crowded>>

(* One update per entry, the last one counts; an entry that is gone and a
   stage outside the list that already has one of the positions are errors. *)
Reorder(h) ==
  LET list   == job[h].list
      listed == {list[i] : i \in DOMAIN list}
      Place(s) == CHOOSE i \in DOMAIN list :
                    list[i] = s /\ \A j \in DOMAIN list : list[j] = s => j <= i
  IN /\ job[h].op = "reorder"
     /\ \A s \in listed : Exists(s)
     /\ \A s \in StagesIn(job[h].pipeline) \ listed : position[s] >= Len(list)
     /\ position' = [s \in Stages |-> IF s \in listed THEN Place(s) - 1 ELSE position[s]]
     /\ Finish(h)
     /\ UNCHANGED <<kind, card, log, history>>

DeleteStage(h) ==                    \* refused while a deal row points to it
  LET s == job[h].stage IN
  /\ job[h].op = "removeStage" /\ Exists(s) /\ Empty(s)
  /\ position' = [position EXCEPT ![s] = None]
  /\ Finish(h)
  /\ UNCHANGED <<kind, card, log, history>>

(* The request ends in an error, for any reason, and has written nothing. *)
JobFails(h) ==
  /\ job[h] # NoJob
  /\ Finish(h)
  /\ UNCHANGED <<board, history>>

-----------------------------------------------------------------------------
Seeded(s) == {i \in DOMAIN InitialStages[PipelineOf[s]] : InitialStages[PipelineOf[s]][i] = s}

BoardInit ==
  /\ position = [s \in Stages |-> IF Seeded(s) = {} THEN None
                                  ELSE (CHOOSE i \in Seeded(s) : TRUE) - 1]
  /\ kind = [s \in Stages |-> IF Seeded(s) = {} THEN "none" ELSE InitialKind[s]]
  /\ card = [d \in Deals |->
       IF d > InitialDeals THEN None
       ELSE [stage |-> FirstStage, pipeline |-> PipelineOf[FirstStage], rank |-> d * RankGap,
             status |-> "OPEN", owner |-> Seller, live |-> TRUE]]
  /\ log        = [d \in Deals |-> <<>>]
  /\ job        = [h \in Slots |-> NoJob]
  /\ requests   = 0
  /\ overlapped = {}
  /\ crowded    = {}
  /\ reflagged  = {}

StartOn(h) ==
  \/ \E u \in Users, s \in Stages : StartCreate(h, u, s)
  \/ \E u \in Users, d \in Deals :
       StartAssign(h, u, d) \/ StartRemove(h, u, d) \/ \E s \in Stages : StartMove(h, u, d, s)
  \/ \E s \in Stages : StartAddStage(h, s) \/ StartUpdateStage(h, s) \/ StartRemoveStage(h, s)
  \/ \E p \in Pipelines : StartReorder(h, p)

Step(h) ==
  \/ PlaceAtBottom(h) \/ PlaceBetween(h)
  \/ InsertDeal(h) \/ ApplyMove(h) \/ SetOwner(h) \/ SoftDelete(h)
  \/ CreateStage(h) \/ UpdateStage(h) \/ Reorder(h) \/ DeleteStage(h)
  \/ JobFails(h)

BoardNext == \E h \in Slots : StartOn(h) \/ Step(h)

BoardSpec == BoardInit /\ [][BoardNext]_boardVars

-----------------------------------------------------------------------------
(* Every row has its type, and a deal, deleted ones included, stands in an
   existing stage of the pipeline it was created in. *)
BoardTypeOK ==
  /\ position \in [Stages -> Nat \cup {None}]
  /\ kind     \in [Stages -> Kind \cup {"none"}]
  /\ card     \in [Deals -> Row \cup {None}]
  /\ log      \in [Deals -> Seq([from : Stages, to : Stages])]
  /\ job      \in [Slots -> Job]
  /\ requests \in 0..MaxRequests
  /\ overlapped \subseteq Deals
  /\ crowded \subseteq Stages /\ reflagged \subseteq Stages
  /\ \A d \in Deals : card[d] # None =>
       Exists(card[d].stage) /\ PipelineOf[card[d].stage] = card[d].pipeline

(* README's "collision-free" ranking holds as far as it can: cards of a column
   are in a definite order as long as each rank was computed from the true
   neighbours, which were not in need of a rebalance, and by one request at a
   time - although doubles are not what the column holds. *)
OrderIsTotal ==
  \A s \in Stages \ crowded : \A d, e \in LiveIn(s) : card[d].rank = card[e].rank => d = e

(* "atomic stage/order change (single transaction) + activity log": the last
   entry of the log is where the deal is, whatever overlapped, and its status
   is that of this stage, as long as the stage keeps its flags (a deal that was
   never moved is OPEN); without overlapping requests on the deal each entry
   starts where the one before it ended. *)
StatusOf(d) == IF log[d] = <<>> \/ kind[card[d].stage] = "open" THEN "OPEN"
               ELSE IF kind[card[d].stage] = "won" THEN "WON" ELSE "LOST"

LogTellsTheStory ==
  \A d \in Deals : card[d] # None =>
    /\ log[d] # <<>> => log[d][Len(log[d])].to = card[d].stage
    /\ card[d].stage \notin reflagged => card[d].status = StatusOf(d)
    /\ d \notin overlapped =>
         \A i \in 2..Len(log[d]) : log[d][i].from = log[d][i - 1].to
=============================================================================
