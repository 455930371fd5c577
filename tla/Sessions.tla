------------------------------ MODULE Sessions ------------------------------
(***************************************************************************)
(* Refresh-token sessions (modules/auth): login, refresh with rotation and *)
(* reuse detection, logout.                                                *)
(*                                                                         *)
(* The module follows the tokens of one user: every query of the code is   *)
(* by token id or by user id, so users do not share rows.  Each await of   *)
(* the service is a place where other requests run; no two database calls  *)
(* of a request share a transaction.  A refresh is a read of the token     *)
(* row, a read of the user, revokeRefreshToken, createRefreshToken and     *)
(* updateRefreshTokenHash.  Any token that ever left the server may be     *)
(* presented at any time, by anyone, any number of times.  Expiry is left  *)
(* out: an expired token is refused before anything is written, so expiry  *)
(* only removes behaviours from the ones checked here.                     *)
(***************************************************************************)
EXTENDS Integers, FiniteSets

CONSTANTS
  Handlers,        \* requests in flight at the same time
  Tokens,          \* numbers standing for RefreshToken ids; bounds the rows
  Nil,             \* no token
  MaxOverlapped    \* bound: tokens used by overlapping requests

ASSUME TokensAssumption == Tokens \subseteq Nat
ASSUME NilAssumption    == Nil \notin Tokens
ASSUME BoundsAssumption == MaxOverlapped \in Nat

VARIABLES
  hash,            \* RefreshToken.tokenHash: absent, pending, signed
  revoked,         \* RefreshToken.revokedAt is set
  active,          \* User.isActive
  held,            \* tokens some client was given
  req,             \* where each request stands
  parent,          \* history: the token a token replaced (Nil: a login)
  loggedOut,       \* history: tokens revoked by a logout
  condemned,       \* history: tokens that existed when reuse was detected
  muted,           \* history: a revocation of everything was lost to a failure
  overlapped       \* history: tokens used by two requests at the same time

db      == <<hash, revoked, active>>
history == <<parent, loggedOut, condemned, muted, overlapped>>
vars    == <<db, held, req, history>>

Idle     == [op |-> "idle"]
OnToken  == {"rotate", "revoke", "logout"}      \* has read the row it will revoke
Request  == {Idle}
       \cup [op : OnToken, token : Tokens]
       \cup [op : {"create"}, from : Tokens \cup {Nil}]
       \cup [op : {"hash"}, token : Tokens]
       \cup [op : {"revokeAll"}]

-----------------------------------------------------------------------------
(* Slips the properties below must catch; no action uses them. *)

HashCheckOnly(t)      == hash[t] # "signed"       \* revokedAt not looked at
OnlyTheReused(t)      == {}                       \* nothing but t is revoked
PlaceholderKept(n)    == hash                     \* the hash is never written

-----------------------------------------------------------------------------
Live(t)   == hash[t] # "absent" /\ ~revoked[t]
Unused    == {t \in Tokens : hash[t] = "absent"}
Coming    == {h \in Handlers : req[h].op \in {"rotate", "revoke", "create"}}
Users(t)  == {h \in Handlers : req[h].op \in OnToken /\ req[h].token = t}

(* refresh: a token that was revoked, or whose stored hash is not its own *)
Suspicious(t) == revoked[t] \/ hash[t] # "signed"

(* updateMany where revokedAt is null: every token row of the user *)
RevokedWith(t) == Tokens \ Unused

(* the account check of login and refresh *)
MayHaveTokens == active

Go(h, r) == req' = [req EXCEPT ![h] = r]

(* A request arrives; room for the token it may issue is a bound. *)
Arrive(h, r) ==
  /\ req[h] = Idle
  /\ Go(h, r)
  /\ UNCHANGED <<db, held, parent, loggedOut>>

(* A request holds token t; another one that does too overlaps with it. *)
Hold(t) ==
  /\ overlapped' = IF Users(t) = {} THEN overlapped ELSE overlapped \cup {t}
  /\ Cardinality(overlapped') <= MaxOverlapped
  /\ UNCHANGED <<condemned, muted>>

Login(h) ==
  /\ MayHaveTokens
  /\ Cardinality(Unused) > Cardinality(Coming)
  /\ Arrive(h, [op |-> "create", from |-> Nil])
  /\ UNCHANGED <<condemned, muted, overlapped>>

(* refresh, after verifyAsync and findRefreshTokenById *)
Refresh(h, t) ==
  /\ ~Suspicious(t)
  /\ Cardinality(Unused) > Cardinality(Coming)
  /\ Arrive(h, [op |-> "rotate", token |-> t])
  /\ Hold(t)

RefreshReused(h, t) ==
  /\ Suspicious(t)
  /\ Arrive(h, [op |-> "revokeAll"])
  /\ condemned' = condemned \cup {s \in Tokens : Live(s)}
  /\ UNCHANGED <<muted, overlapped>>

Logout(h, t) ==
  /\ ~revoked[t]
  /\ Arrive(h, [op |-> "logout", token |-> t])
  /\ Hold(t)

-----------------------------------------------------------------------------
(* The awaited calls, one step each. *)

FindUser(h) ==                     \* refresh: findById, isActive
  /\ req[h].op = "rotate"
  /\ IF MayHaveTokens THEN Go(h, [op |-> "revoke", token |-> req[h].token])
     ELSE Go(h, Idle)
  /\ UNCHANGED <<db, held, history>>

RevokeRefreshToken(h) ==
  /\ req[h].op \in {"revoke", "logout"}
  /\ revoked' = [revoked EXCEPT ![req[h].token] = TRUE]
  /\ IF req[h].op = "logout"
     THEN Go(h, Idle) /\ loggedOut' = loggedOut \cup {req[h].token}
     ELSE Go(h, [op |-> "create", from |-> req[h].token]) /\ UNCHANGED loggedOut
  /\ UNCHANGED <<hash, active, held, parent, condemned, muted, overlapped>>

RevokeAllForUser(h) ==
  /\ req[h].op = "revokeAll"
  /\ revoked' = [t \in Tokens |-> revoked[t] \/ t \in RevokedWith(t)]
  /\ Go(h, Idle)
  /\ UNCHANGED <<hash, active, held, history>>

CreateRefreshToken(h) ==           \* issueTokens: the row with hash 'pending'
  /\ req[h].op = "create"
  /\ \E n \in Unused :
       /\ \A s \in Unused : n <= s
       /\ hash'   = [hash EXCEPT ![n] = "pending"]
       /\ parent' = [parent EXCEPT ![n] = req[h].from]
       /\ Go(h, [op |-> "hash", token |-> n])
  /\ UNCHANGED <<revoked, active, held, loggedOut, condemned, muted,
                 overlapped>>

Hashed(n) == [hash EXCEPT ![n] = "signed"]

(* The response carries the token, unless the connection is gone. *)
UpdateRefreshTokenHash(h) ==
  /\ req[h].op = "hash"
  /\ hash' = Hashed(req[h].token)
  /\ held' \in {held, held \cup {req[h].token}}
  /\ Go(h, Idle)
  /\ UNCHANGED <<revoked, active, history>>

Step(h) == \/ FindUser(h) \/ RevokeRefreshToken(h) \/ RevokeAllForUser(h)
           \/ CreateRefreshToken(h) \/ UpdateRefreshTokenHash(h)

(* The awaited call throws: the request ends there, with an error. *)
StepFails(h) ==
  /\ req[h] # Idle
  /\ Go(h, Idle)
  /\ muted' = (muted \/ req[h].op = "revokeAll")
  /\ UNCHANGED <<db, held, parent, loggedOut, condemned, overlapped>>

Crash ==
  /\ \E h \in Handlers : req[h] # Idle
  /\ muted' = (muted \/ \E h \in Handlers : req[h].op = "revokeAll")
  /\ req' = [h \in Handlers |-> Idle]
  /\ UNCHANGED <<db, held, parent, loggedOut, condemned, overlapped>>

(* UsersService.setStatus: tokens are left as they are. *)
SetStatus ==
  /\ active' = ~active
  /\ UNCHANGED <<hash, revoked, held, req, history>>

-----------------------------------------------------------------------------
Init ==
  /\ hash       = [t \in Tokens |-> "absent"]
  /\ revoked    = [t \in Tokens |-> FALSE]
  /\ active     = TRUE
  /\ held       = {}
  /\ req        = [h \in Handlers |-> Idle]
  /\ parent     = [t \in Tokens |-> Nil]
  /\ loggedOut  = {}
  /\ condemned  = {}
  /\ muted      = FALSE
  /\ overlapped = {}

Next ==
  \/ \E h \in Handlers : Login(h) \/ Step(h) \/ StepFails(h)
  \/ \E h \in Handlers : \E t \in held :
       Refresh(h, t) \/ RefreshReused(h, t) \/ Logout(h, t)
  \/ Crash
  \/ SetStatus

(* An awaited query settles, well or not. *)
Fairness == \A h \in Handlers : WF_vars(Step(h) \/ StepFails(h))

Spec == Init /\ [][Next]_vars /\ Fairness

-----------------------------------------------------------------------------
Children(t) == {n \in Tokens : hash[n] # "absent" /\ parent[n] = t}

TypeOK ==
  /\ hash    \in [Tokens -> {"absent", "pending", "signed"}]
  /\ revoked \in [Tokens -> BOOLEAN]
  /\ active  \in BOOLEAN
  /\ req     \in [Handlers -> Request]
  /\ parent  \in [Tokens -> Tokens \cup {Nil}]
  /\ {held, loggedOut, condemned, overlapped} \subseteq SUBSET (Tokens \ Unused)
  /\ muted   \in BOOLEAN
  /\ \A t \in held : hash[t] = "signed"

(* Rotation: outside overlapping requests a token is exchanged at most once,
   never after its logout, and whoever exchanged it was left without it. *)
RotatedOnce ==
  \A t \in Tokens \ overlapped :
    /\ Cardinality(Children(t)) <= 1
    /\ t \in loggedOut => Children(t) = {}
    /\ Children(t) # {} => revoked[t]

(* Reuse detection: once the request that met a revoked token is through, no
   session that existed when it noticed is left - other logins included. *)
ReuseRevokesWhatExisted ==
  muted \/ (\E h \in Handlers : req[h].op = "revokeAll")
        \/ \A t \in condemned : revoked[t]

(* A detected reuse is followed by the revocation of everything that existed,
   unless the database call fails or the process dies. *)
ReuseIsPunished ==
  \A t \in Tokens : t \in condemned ~> revoked[t] \/ muted
=============================================================================
