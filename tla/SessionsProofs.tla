--------------------------- MODULE SessionsProofs ---------------------------
(***************************************************************************)
(* What holds of Sessions for every number of requests and tokens, and of  *)
(* the tab that keeps the tokens, Client, for every number of saves in     *)
(* flight and of edits of the user's role.                                 *)
(***************************************************************************)
EXTENDS Sessions, Client, FiniteSetTheorems, TLAPS

Existing == Tokens \ Unused

(* A request names tokens that exist. *)
NamesExist ==
  \A h \in Handlers :
    /\ req[h].op \in OnToken \cup {"hash"} => req[h].token \in Existing
    /\ req[h].op = "create" => req[h].from \in Existing \cup {Nil}

Typed == TypeOK /\ NamesExist

(* The operation of a request fixes which fields it has. *)
LEMMA RequestShape ==
  ASSUME NEW r \in Request
  PROVE  /\ r.op \in OnToken \cup {"hash"} => r.token \in Tokens
         /\ r.op = "create" => r.from \in Tokens \cup {Nil}
         /\ r.op \in OnToken \cup {"create", "hash", "revokeAll", "idle"}
  BY DEF Request, Idle, OnToken

LEMMA RequestMade ==
  /\ Idle \in Request /\ [op |-> "revokeAll"] \in Request
  /\ \A t \in Tokens : /\ \A o \in OnToken \cup {"hash"} : [op |-> o, token |-> t] \in Request
                       /\ [op |-> "create", from |-> t] \in Request
  /\ [op |-> "create", from |-> Nil] \in Request
  BY DEF Request, Idle, OnToken

LEMMA InitTyped == Init => Typed
<1> SUFFICES ASSUME Init PROVE Typed
  OBVIOUS
<1>1. NamesExist
  BY DEF Init, NamesExist, Idle, OnToken
<1>2. req \in [Handlers -> Request]
  BY RequestMade DEF Init
<1> QED
  BY <1>1, <1>2 DEF Init, Typed, TypeOK

(* Tokens only come to exist, and the requests keep naming existing ones. *)
LEMMA FrameTyped ==
  ASSUME Typed, req' \in [Handlers -> Request], UNCHANGED <<hash, parent>>,
         revoked' \in [Tokens -> BOOLEAN], active' \in BOOLEAN, muted' \in BOOLEAN,
         held' \subseteq Existing, loggedOut' \subseteq Existing,
         condemned' \subseteq Existing, overlapped' \subseteq Existing,
         \A t \in held' : hash[t] = "signed",
         \A h \in Handlers :
           \/ req'[h] = req[h]
           \/ /\ req'[h].op \in OnToken \cup {"hash"} => req'[h].token \in Existing
              /\ req'[h].op = "create" => req'[h].from \in Existing \cup {Nil}
  PROVE  Typed'
<1>1. Existing' = Existing
  BY DEF Existing, Unused
<1>2. NamesExist'
  BY <1>1 DEF Typed, NamesExist
<1> QED
  BY <1>1, <1>2 DEF Typed, TypeOK, Existing

LEMMA NextTyped == Typed /\ [Next]_vars => Typed'
<1> SUFFICES ASSUME Typed, [Next]_vars PROVE Typed'
  OBVIOUS
<1>0. /\ req \in [Handlers -> Request] /\ active \in BOOLEAN /\ muted \in BOOLEAN
      /\ revoked \in [Tokens -> BOOLEAN]
      /\ held \subseteq Existing /\ loggedOut \subseteq Existing
      /\ condemned \subseteq Existing /\ overlapped \subseteq Existing
      /\ \A t \in held : hash[t] = "signed"
  BY DEF Typed, TypeOK, Existing
<1>00. \A h \in Handlers :
         /\ req[h].op \in OnToken \cup {"hash"} => req[h].token \in Existing
         /\ req[h].op = "create" => req[h].from \in Existing \cup {Nil}
  BY DEF Typed, NamesExist
<1>1. ASSUME NEW h \in Handlers, Login(h) PROVE Typed'
  BY <1>0, <1>1, FrameTyped, RequestMade DEF Login, Arrive, Go, db, OnToken
<1>2. ASSUME NEW h \in Handlers, NEW t \in held, Refresh(h, t) \/ Logout(h, t) PROVE Typed'
  <2>1. PICK o \in OnToken : req' = [req EXCEPT ![h] = [op |-> o, token |-> t]]
    BY <1>2 DEF Refresh, Logout, Arrive, Go, OnToken
  <2>2. /\ UNCHANGED <<hash, revoked, active, held, parent, loggedOut, condemned, muted>>
        /\ overlapped' \subseteq Existing
    BY <1>0, <1>2 DEF Refresh, Logout, Arrive, Hold, db
  <2>3. t \in Tokens /\ t \in Existing
    BY <1>0 DEF Existing
  <2> QED
    BY <1>0, <2>1, <2>2, <2>3, FrameTyped, RequestMade DEF OnToken
<1>3. ASSUME NEW h \in Handlers, NEW t \in held, RefreshReused(h, t) PROVE Typed'
  <2>1. {s \in Tokens : Live(s)} \subseteq Existing
    BY DEF Live, Existing, Unused
  <2> QED
    BY <1>0, <1>3, <2>1, FrameTyped, RequestMade DEF RefreshReused, Arrive, Go, db, OnToken
<1>4. ASSUME NEW h \in Handlers, FindUser(h) PROVE Typed'
  <2>1. req[h].token \in Existing /\ req[h].token \in Tokens
    BY <1>00, <1>4 DEF FindUser, OnToken, Existing
  <2>2. PICK r \in {Idle, [op |-> "revoke", token |-> req[h].token]} : req' = [req EXCEPT ![h] = r]
    BY <1>4 DEF FindUser, Go
  <2>3. r \in Request /\ r.op # "create" /\ (r.op \in OnToken \cup {"hash"} => r.token \in Existing)
    <3>1. Idle \in Request /\ [op |-> "revoke", token |-> req[h].token] \in Request
      BY <2>1, RequestMade DEF OnToken
    <3>2. CASE r = Idle
      BY <3>1, <3>2 DEF Idle, OnToken
    <3>3. CASE r = [op |-> "revoke", token |-> req[h].token]
      BY <2>1, <3>1, <3>3
    <3> QED
      BY <3>2, <3>3
  <2>4. /\ req' \in [Handlers -> Request]
        /\ \A g \in Handlers :
             \/ req'[g] = req[g]
             \/ /\ req'[g].op \in OnToken \cup {"hash"} => req'[g].token \in Existing
                /\ req'[g].op = "create" => req'[g].from \in Existing \cup {Nil}
    BY <1>0, <2>2, <2>3
  <2>5. UNCHANGED <<db, held, history>>
    BY <1>4 DEF FindUser
  <2> QED
    BY <1>0, <2>3, <2>4, <2>5, FrameTyped DEF db, history
<1>5. ASSUME NEW h \in Handlers, RevokeRefreshToken(h) PROVE Typed'
  <2>1. req[h].token \in Existing /\ req[h].token \in Tokens
    BY <1>00, <1>5 DEF RevokeRefreshToken, OnToken, Existing
  <2>2. PICK r \in {Idle, [op |-> "create", from |-> req[h].token]} : req' = [req EXCEPT ![h] = r]
    BY <1>5 DEF RevokeRefreshToken, Go
  <2>3. /\ r \in Request /\ r.op \notin OnToken \cup {"hash"}
        /\ r.op = "create" => r.from \in Existing
    <3>1. Idle \in Request /\ [op |-> "create", from |-> req[h].token] \in Request
      BY <2>1, RequestMade
    <3>2. CASE r = Idle
      BY <3>1, <3>2 DEF Idle, OnToken
    <3>3. CASE r = [op |-> "create", from |-> req[h].token]
      BY <2>1, <3>1, <3>3 DEF OnToken
    <3> QED
      BY <3>2, <3>3
  <2>4. revoked' \in [Tokens -> BOOLEAN] /\ loggedOut' \subseteq Existing
    BY <1>0, <1>5, <2>1 DEF RevokeRefreshToken
  <2>5. /\ req' \in [Handlers -> Request]
        /\ \A g \in Handlers :
             \/ req'[g] = req[g]
             \/ /\ req'[g].op \in OnToken \cup {"hash"} => req'[g].token \in Existing
                /\ req'[g].op = "create" => req'[g].from \in Existing \cup {Nil}
    BY <1>0, <2>2, <2>3
  <2>6. UNCHANGED <<hash, active, held, parent, condemned, muted, overlapped>>
    BY <1>5 DEF RevokeRefreshToken
  <2> QED
    BY <1>0, <2>3, <2>4, <2>5, <2>6, FrameTyped
<1>6. ASSUME NEW h \in Handlers, RevokeAllForUser(h) PROVE Typed'
  BY <1>0, <1>6, FrameTyped, RequestMade DEF RevokeAllForUser, RevokedWith, Go, history, OnToken, Idle
<1>7. ASSUME NEW h \in Handlers, CreateRefreshToken(h) PROVE Typed'
  <2>1. PICK n \in Unused :
          /\ hash' = [hash EXCEPT ![n] = "pending"]
          /\ parent' = [parent EXCEPT ![n] = req[h].from]
          /\ req' = [req EXCEPT ![h] = [op |-> "hash", token |-> n]]
          /\ UNCHANGED <<revoked, active, held, loggedOut, condemned, muted, overlapped>>
    BY <1>7 DEF CreateRefreshToken, Go
  <2>2. n \in Tokens /\ hash[n] = "absent"
    BY DEF Unused
  <2>3. Existing' = Existing \cup {n}
    BY <2>1, <2>2 DEF Existing, Unused, Typed, TypeOK
  <2>4. req' \in [Handlers -> Request]
    BY <1>0, <2>1, <2>2, RequestMade
  <2>5. req[h].from \in Tokens \cup {Nil}
    BY <1>0, <1>7, RequestShape DEF CreateRefreshToken
  <2>6. NamesExist'
    BY <1>0, <1>00, <2>1, <2>3 DEF NamesExist
  <2>7. \A t \in held' : hash'[t] = "signed"
    BY <1>0, <2>1, <2>2
  <2>8. /\ hash' \in [Tokens -> {"absent", "pending", "signed"}]
        /\ parent' \in [Tokens -> Tokens \cup {Nil}]
    BY <2>1, <2>5 DEF Typed, TypeOK
  <2> QED
    BY <1>0, <2>1, <2>3, <2>4, <2>6, <2>7, <2>8 DEF Typed, TypeOK, Existing
<1>8. ASSUME NEW h \in Handlers, UpdateRefreshTokenHash(h) PROVE Typed'
  <2>1. PICK n \in Existing : req[h].token = n
    BY <1>00, <1>8 DEF UpdateRefreshTokenHash
  <2>2. /\ hash' = [hash EXCEPT ![n] = "signed"] /\ held' \in {held, held \cup {n}}
        /\ req' = [req EXCEPT ![h] = Idle]
        /\ UNCHANGED <<revoked, active, parent, loggedOut, condemned, muted, overlapped>>
    BY <1>8, <2>1 DEF UpdateRefreshTokenHash, Hashed, Go, history
  <2>3. Existing' = Existing /\ n \in Tokens
    BY <2>2 DEF Existing, Unused, Typed, TypeOK
  <2>4. NamesExist'
    BY <1>0, <1>00, <2>2, <2>3 DEF NamesExist, Idle, OnToken
  <2>5. req' \in [Handlers -> Request]
    BY <1>0, <2>2, RequestMade
  <2>6. \A t \in held' : hash'[t] = "signed"
    BY <1>0, <2>2, <2>3 DEF Typed, TypeOK
  <2>7. hash' \in [Tokens -> {"absent", "pending", "signed"}]
    BY <2>2 DEF Typed, TypeOK
  <2>8. held' \subseteq Existing
    BY <1>0, <2>2
  <2> QED
    BY <2>2, <2>3, <2>4, <2>5, <2>6, <2>7, <2>8 DEF Typed, TypeOK, Existing
<1>9. ASSUME NEW h \in Handlers, StepFails(h) PROVE Typed'
  BY <1>0, <1>9, FrameTyped, RequestMade DEF StepFails, Go, db, OnToken, Idle
<1>10. CASE Crash
  BY <1>0, <1>10, FrameTyped, RequestMade DEF Crash, db, OnToken, Idle
<1>11. CASE SetStatus
  BY <1>0, <1>11, FrameTyped DEF SetStatus, history
<1>12. CASE UNCHANGED vars
  BY <1>0, <1>12, FrameTyped DEF vars, db, history
<1> QED
  BY <1>1, <1>2, <1>3, <1>4, <1>5, <1>6, <1>7, <1>8, <1>9, <1>10, <1>11, <1>12 DEF Next, Step

(* Type correctness; with it, every token that left the server has its final
   hash, and every token that a history names has a row. *)
THEOREM TypeCorrect == Spec => []TypeOK
<1>1. Typed => TypeOK
  BY DEF Typed
<1> QED
  BY <1>1, InitTyped, NextTyped, PTL DEF Spec

-----------------------------------------------------------------------------
(***************************************************************************)
(* Rotation.  A request claims the token it will revoke or replace.  The   *)
(* claim is taken while the token is not revoked, so the token was not     *)
(* exchanged or logged out before; and without overlap it is the only one. *)
(***************************************************************************)
Replacing(h, t) == req[h].op = "create" /\ req[h].from = t
Claims(h, t)    == (req[h].op \in OnToken /\ req[h].token = t) \/ Replacing(h, t)

SpentIsRevoked ==
  \A t \in Tokens :
    t \in loggedOut \/ Children(t) # {} \/ (\E h \in Handlers : Replacing(h, t)) => revoked[t]

OneClaim(t)     == \A g, h \in Handlers : Claims(g, t) /\ Claims(h, t) => g = h
ClaimIsFirst(t) == (\E h \in Handlers : Claims(h, t)) => Children(t) = {} /\ t \notin loggedOut
OneChild(t)     == \A m, n \in Children(t) : m = n
LogoutIsLast(t) == t \in loggedOut => Children(t) = {}

RotationInv ==
  /\ SpentIsRevoked
  /\ \A t \in Tokens \ overlapped : OneClaim(t) /\ ClaimIsFirst(t) /\ OneChild(t) /\ LogoutIsLast(t)

LEMMA InitRotation == Init => RotationInv
  BY DEF Init, RotationInv, SpentIsRevoked, OneClaim, ClaimIsFirst, OneChild, LogoutIsLast,
     Claims, Replacing, Children, Idle, OnToken

(* No token is made, logged out, brought back or claimed anew. *)
LEMMA FrameRotation ==
  ASSUME RotationInv, UNCHANGED <<hash, parent, loggedOut>>, overlapped \subseteq overlapped',
         \A t \in Tokens : revoked[t] => revoked'[t],
         \A h \in Handlers, t \in Tokens :
           (Claims(h, t)' => Claims(h, t)) /\ (Replacing(h, t)' => Replacing(h, t))
  PROVE  RotationInv'
<1>1. \A t \in Tokens : Children(t)' = Children(t)
  BY DEF Children
<1>2. SpentIsRevoked'
  BY <1>1 DEF RotationInv, SpentIsRevoked
<1>3. ASSUME NEW t \in Tokens, t \notin overlapped'
      PROVE  OneClaim(t)' /\ ClaimIsFirst(t)' /\ OneChild(t)' /\ LogoutIsLast(t)'
  <2>1. OneClaim(t) /\ ClaimIsFirst(t) /\ OneChild(t) /\ LogoutIsLast(t)
    BY <1>3 DEF RotationInv
  <2> QED
    BY <1>1, <2>1 DEF OneClaim, ClaimIsFirst, OneChild, LogoutIsLast
<1> QED
  BY <1>2, <1>3 DEF RotationInv

(* A request takes token t, found unrevoked. *)
LEMMA ClaimBegins ==
  ASSUME Typed, RotationInv, NEW h \in Handlers, NEW t \in Tokens, ~revoked[t], NEW o \in OnToken,
         req' = [req EXCEPT ![h] = [op |-> o, token |-> t]], Hold(t),
         UNCHANGED <<db, parent, loggedOut>>
  PROVE  RotationInv'
<1>0. req \in [Handlers -> Request]
  BY DEF Typed, TypeOK
<1>1. /\ \A s \in Tokens : Children(s)' = Children(s)
      /\ \A g \in Handlers \ {h}, s \in Tokens :
           (Claims(g, s)' <=> Claims(g, s)) /\ (Replacing(g, s)' <=> Replacing(g, s))
      /\ \A s \in Tokens : ~Replacing(h, s)' /\ (Claims(h, s)' <=> s = t)
  BY <1>0 DEF Children, Claims, Replacing, OnToken, db
<1>2. SpentIsRevoked'
  BY <1>1 DEF RotationInv, SpentIsRevoked, db
<1>3. Children(t) = {} /\ t \notin loggedOut /\ \A g \in Handlers : ~Replacing(g, t)
  BY DEF RotationInv, SpentIsRevoked
<1>4. /\ overlapped \subseteq overlapped'
      /\ t \notin overlapped' => \A g \in Handlers : ~Claims(g, t)
  BY <1>3 DEF Hold, Users, Claims
<1>5. ASSUME NEW s \in Tokens, s \notin overlapped'
      PROVE  OneClaim(s)' /\ ClaimIsFirst(s)' /\ OneChild(s)' /\ LogoutIsLast(s)'
  <2>1. OneClaim(s) /\ ClaimIsFirst(s) /\ OneChild(s) /\ LogoutIsLast(s)
    BY <1>4, <1>5 DEF RotationInv
  <2>2. OneChild(s)' /\ LogoutIsLast(s)'
    BY <1>1, <2>1 DEF OneChild, LogoutIsLast
  <2>3. CASE s = t
    <3>1. OneClaim(s)'
      BY <1>1, <1>4, <1>5, <2>3 DEF OneClaim
    <3>2. ClaimIsFirst(s)'
      BY <1>1, <1>3, <2>3 DEF ClaimIsFirst
    <3> QED
      BY <2>2, <3>1, <3>2
  <2>4. CASE s # t
    <3>1. \A g \in Handlers : Claims(g, s)' => Claims(g, s)
      BY <1>1, <2>4
    <3> QED
      BY <1>1, <2>1, <2>2, <3>1 DEF OneClaim, ClaimIsFirst
  <2> QED
    BY <2>3, <2>4
<1> QED
  BY <1>2, <1>5 DEF RotationInv

(* The claim ends in a logout, or goes on to replace the token. *)
LEMMA ClaimRevokes ==
  ASSUME Typed, RotationInv, NEW h \in Handlers, RevokeRefreshToken(h)
  PROVE  RotationInv'
<1>0. req \in [Handlers -> Request] /\ revoked \in [Tokens -> BOOLEAN]
  BY DEF Typed, TypeOK
<1>1. PICK t \in Tokens : req[h].token = t
  BY <1>0, RequestShape DEF RevokeRefreshToken, OnToken
<1>2. /\ \A s \in Tokens : Children(s)' = Children(s)
      /\ \A g \in Handlers \ {h}, s \in Tokens :
           (Claims(g, s)' <=> Claims(g, s)) /\ (Replacing(g, s)' <=> Replacing(g, s))
      /\ Claims(h, t)
      /\ \A s \in Tokens : Claims(h, s)' => s = t
      /\ UNCHANGED overlapped
  BY <1>0, <1>1 DEF RevokeRefreshToken, Go, Children, Claims, Replacing, OnToken, Idle
<1>3. \/ loggedOut' = loggedOut
      \/ loggedOut' = loggedOut \cup {t} /\ \A s \in Tokens : ~Claims(h, s)'
  BY <1>0, <1>1 DEF RevokeRefreshToken, Go, Claims, Replacing, OnToken, Idle
<1>4. revoked'[t] /\ \A s \in Tokens : revoked[s] => revoked'[s]
  BY <1>0, <1>1 DEF RevokeRefreshToken
<1>5. SpentIsRevoked'
  <2> SUFFICES ASSUME NEW s \in Tokens, s # t,
                      s \in loggedOut' \/ Children(s)' # {} \/ \E g \in Handlers : Replacing(g, s)'
               PROVE  revoked'[s]
    BY <1>4 DEF SpentIsRevoked
  <2>1. s \in loggedOut \/ Children(s) # {} \/ \E g \in Handlers : Replacing(g, s)
    BY <1>2, <1>3 DEF Claims
  <2> QED
    BY <1>4, <2>1 DEF RotationInv, SpentIsRevoked
<1>6. ASSUME NEW s \in Tokens, s \notin overlapped'
      PROVE  OneClaim(s)' /\ ClaimIsFirst(s)' /\ OneChild(s)' /\ LogoutIsLast(s)'
  <2>1. OneClaim(s) /\ ClaimIsFirst(s) /\ OneChild(s) /\ LogoutIsLast(s)
    BY <1>2, <1>6 DEF RotationInv
  <2>2. \A g \in Handlers : Claims(g, s)' => Claims(g, s)
    BY <1>2
  <2>3. OneClaim(s)' /\ OneChild(s)'
    BY <1>2, <2>1, <2>2 DEF OneClaim, OneChild
  <2>4. LogoutIsLast(s)'
    BY <1>2, <1>3, <2>1 DEF LogoutIsLast, ClaimIsFirst
  <2>5. ClaimIsFirst(s)'
    BY <1>2, <1>3, <2>1, <2>2 DEF ClaimIsFirst, OneClaim
  <2> QED
    BY <2>3, <2>4, <2>5
<1> QED
  BY <1>5, <1>6 DEF RotationInv

(* The new token is the child of the one it replaces, and the claim is over. *)
LEMMA ClaimCreates ==
  ASSUME Typed, RotationInv, NEW h \in Handlers, CreateRefreshToken(h)
  PROVE  RotationInv'
<1>0. /\ req \in [Handlers -> Request] /\ hash \in [Tokens -> {"absent", "pending", "signed"}]
      /\ parent \in [Tokens -> Tokens \cup {Nil}]
  BY DEF Typed, TypeOK
<1>1. PICK n \in Unused :
        /\ hash' = [hash EXCEPT ![n] = "pending"]
        /\ parent' = [parent EXCEPT ![n] = req[h].from]
        /\ req' = [req EXCEPT ![h] = [op |-> "hash", token |-> n]]
        /\ UNCHANGED <<revoked, loggedOut, overlapped>>
  BY DEF CreateRefreshToken, Go
<1>2. PICK f \in Tokens \cup {Nil} : req[h].op = "create" /\ req[h].from = f
  BY <1>0, RequestShape DEF CreateRefreshToken
<1>3. /\ \A g \in Handlers \ {h}, s \in Tokens :
           (Claims(g, s)' <=> Claims(g, s)) /\ (Replacing(g, s)' <=> Replacing(g, s))
      /\ \A s \in Tokens : ~Claims(h, s)' /\ ~Replacing(h, s)'
      /\ f \in Tokens => Claims(h, f) /\ Replacing(h, f)
  BY <1>0, <1>1, <1>2 DEF Claims, Replacing, OnToken
<1>4. \A s \in Tokens : Children(s)' = IF s = f THEN Children(s) \cup {n} ELSE Children(s)
  BY <1>0, <1>1, <1>2 DEF Children, Unused
<1>5. SpentIsRevoked'
  <2> SUFFICES ASSUME NEW s \in Tokens,
                      s \in loggedOut' \/ Children(s)' # {} \/ \E g \in Handlers : Replacing(g, s)'
               PROVE  revoked'[s]
    BY DEF SpentIsRevoked
  <2>1. s \in loggedOut \/ Children(s) # {} \/ \E g \in Handlers : Replacing(g, s)
    BY <1>1, <1>3, <1>4
  <2> QED
    BY <1>1, <2>1 DEF RotationInv, SpentIsRevoked
<1>6. ASSUME NEW s \in Tokens, s \notin overlapped'
      PROVE  OneClaim(s)' /\ ClaimIsFirst(s)' /\ OneChild(s)' /\ LogoutIsLast(s)'
  <2>1. OneClaim(s) /\ ClaimIsFirst(s) /\ OneChild(s) /\ LogoutIsLast(s)
    BY <1>1, <1>6 DEF RotationInv
  <2>2. \A g \in Handlers : Claims(g, s)' => Claims(g, s) /\ g # h
    BY <1>3
  <2>3. OneClaim(s)'
    BY <2>1, <2>2 DEF OneClaim
  <2>4. CASE s = f
    <3>1. Children(s) = {} /\ s \notin loggedOut /\ \A g \in Handlers : Claims(g, s) => g = h
      BY <1>3, <2>1, <2>4 DEF ClaimIsFirst, OneClaim
    <3> QED
      BY <1>1, <1>4, <2>2, <2>3, <2>4, <3>1 DEF OneChild, ClaimIsFirst, LogoutIsLast
  <2>5. CASE s # f
    BY <1>1, <1>4, <2>1, <2>2, <2>3, <2>5 DEF OneChild, ClaimIsFirst, LogoutIsLast
  <2> QED
    BY <2>4, <2>5
<1> QED
  BY <1>5, <1>6 DEF RotationInv

LEMMA NextRotation == Typed /\ RotationInv /\ [Next]_vars => RotationInv'
<1> SUFFICES ASSUME Typed, RotationInv, [Next]_vars PROVE RotationInv'
  OBVIOUS
<1>0. /\ req \in [Handlers -> Request] /\ held \subseteq Tokens
      /\ revoked \in [Tokens -> BOOLEAN] /\ hash \in [Tokens -> {"absent", "pending", "signed"}]
  BY DEF Typed, TypeOK
<1>1. ASSUME NEW h \in Handlers, Login(h) PROVE RotationInv'
  <2>1. \A g \in Handlers, s \in Tokens : (Claims(g, s)' => Claims(g, s)) /\ (Replacing(g, s)' => Replacing(g, s))
    BY <1>0, <1>1, NilAssumption DEF Login, Arrive, Go, Claims, Replacing, OnToken
  <2> QED
    BY <1>1, <2>1, FrameRotation DEF Login, Arrive, db
<1>2. ASSUME NEW h \in Handlers, NEW t \in held, Refresh(h, t) \/ Logout(h, t) PROVE RotationInv'
  <2>1. PICK o \in OnToken : req' = [req EXCEPT ![h] = [op |-> o, token |-> t]]
    BY <1>2 DEF Refresh, Logout, Arrive, Go, OnToken
  <2>2. /\ t \in Tokens /\ ~revoked[t] /\ Hold(t)
        /\ UNCHANGED <<db, parent, loggedOut>>
    BY <1>0, <1>2 DEF Refresh, Suspicious, Logout, Arrive
  <2> QED
    BY <2>1, <2>2, ClaimBegins
<1>3. ASSUME NEW h \in Handlers, NEW t \in held, RefreshReused(h, t) PROVE RotationInv'
  <2>1. \A g \in Handlers, s \in Tokens : (Claims(g, s)' => Claims(g, s)) /\ (Replacing(g, s)' => Replacing(g, s))
    BY <1>0, <1>3 DEF RefreshReused, Arrive, Go, Claims, Replacing, OnToken
  <2> QED
    BY <1>3, <2>1, FrameRotation DEF RefreshReused, Arrive, db
<1>4. ASSUME NEW h \in Handlers, FindUser(h) \/ RevokeAllForUser(h) PROVE RotationInv'
  <2>1. \A g \in Handlers, s \in Tokens : (Claims(g, s)' => Claims(g, s)) /\ (Replacing(g, s)' => Replacing(g, s))
    BY <1>0, <1>4 DEF FindUser, RevokeAllForUser, Go, Claims, Replacing, OnToken, Idle
  <2>2. /\ \A s \in Tokens : revoked[s] => revoked'[s]
        /\ UNCHANGED <<hash, parent, loggedOut, overlapped>>
    BY <1>0, <1>4 DEF FindUser, RevokeAllForUser, db, history
  <2> QED
    BY <2>1, <2>2, FrameRotation
<1>5. ASSUME NEW h \in Handlers, UpdateRefreshTokenHash(h) PROVE RotationInv'
  <2>1. PICK n \in Tokens : hash[n] # "absent" /\ hash' = [hash EXCEPT ![n] = "signed"]
    BY <1>5 DEF UpdateRefreshTokenHash, Hashed, Typed, NamesExist, Existing, Unused
  <2>2. \A s \in Tokens : Children(s)' = Children(s)
    BY <1>0, <1>5, <2>1 DEF UpdateRefreshTokenHash, Children, history
  <2>3. \A g \in Handlers, s \in Tokens : (Claims(g, s)' => Claims(g, s)) /\ (Replacing(g, s)' => Replacing(g, s))
    BY <1>0, <1>5 DEF UpdateRefreshTokenHash, Go, Claims, Replacing, OnToken, Idle
  <2>4. UNCHANGED <<revoked, loggedOut, overlapped>>
    BY <1>5 DEF UpdateRefreshTokenHash, history
  <2>5. SpentIsRevoked'
    BY <2>2, <2>3, <2>4 DEF RotationInv, SpentIsRevoked
  <2>6. ASSUME NEW t \in Tokens, t \notin overlapped'
        PROVE  OneClaim(t)' /\ ClaimIsFirst(t)' /\ OneChild(t)' /\ LogoutIsLast(t)'
    <3>1. OneClaim(t) /\ ClaimIsFirst(t) /\ OneChild(t) /\ LogoutIsLast(t)
      BY <2>4, <2>6 DEF RotationInv
    <3> QED
      BY <2>2, <2>3, <2>4, <3>1 DEF OneClaim, ClaimIsFirst, OneChild, LogoutIsLast
  <2> QED
    BY <2>5, <2>6 DEF RotationInv
<1>6. CASE (\E h \in Handlers : StepFails(h)) \/ Crash \/ SetStatus \/ UNCHANGED vars
  <2>1. \A g \in Handlers, s \in Tokens : (Claims(g, s)' => Claims(g, s)) /\ (Replacing(g, s)' => Replacing(g, s))
    BY <1>0, <1>6 DEF StepFails, Crash, SetStatus, vars, Go, Claims, Replacing, OnToken, Idle
  <2>2. UNCHANGED <<hash, parent, revoked, loggedOut, overlapped>>
    BY <1>6 DEF StepFails, Crash, SetStatus, vars, db, history
  <2> QED
    BY <2>1, <2>2, FrameRotation
<1> QED
  BY <1>1, <1>2, <1>3, <1>4, <1>5, <1>6, ClaimRevokes, ClaimCreates DEF Next, Step

(* Rotation, for any number of requests that use, lose, replay and steal
   tokens: outside overlapping requests a token is exchanged at most once,
   never after its logout, and the exchange leaves it revoked - through
   failures between the five database calls of a refresh, and restarts. *)
THEOREM RotatesOnce == Spec => []RotatedOnce
<1>1. RotationInv => RotatedOnce
  <2> SUFFICES ASSUME RotationInv, NEW t \in Tokens \ overlapped
               PROVE  /\ Cardinality(Children(t)) <= 1
                      /\ t \in loggedOut => Children(t) = {}
                      /\ Children(t) # {} => revoked[t]
    BY DEF RotatedOnce
  <2>1. Children(t) = {} \/ \E n : Children(t) = {n}
    BY DEF RotationInv, OneChild
  <2>2. CASE Children(t) = {}
    BY <2>2, FS_EmptySet
  <2>3. ASSUME NEW n, Children(t) = {n} PROVE Cardinality(Children(t)) <= 1
    <3>1. Cardinality({n}) = 1
      BY FS_Singleton, Zenon
    <3> QED
      BY <2>3, <3>1
  <2> QED
    BY <2>1, <2>2, <2>3 DEF RotationInv, LogoutIsLast, SpentIsRevoked
<1> QED
  BY <1>1, InitTyped, NextTyped, InitRotation, NextRotation, PTL DEF Spec

-----------------------------------------------------------------------------
(* A step that detects no reuse and loses no revocation on the way. *)
LEMMA FrameReuse ==
  ASSUME ReuseRevokesWhatExisted, UNCHANGED condemned, muted => muted',
         \A t \in condemned : revoked[t] => revoked'[t],
         \A h \in Handlers : req[h].op = "revokeAll" => req'[h].op = "revokeAll" \/ muted'
  PROVE  ReuseRevokesWhatExisted'
  BY DEF ReuseRevokesWhatExisted

(* Reuse detection: a revoked token that is presented again ends, with the
   answer to it, every session that existed at that moment; only a failed
   database call or a restart in between leaves one.  The invariant is
   inductive with the types: what is condemned exists, and what exists is
   what revokeAllForUser reaches. *)
THEOREM ReuseRevokesAll == Spec => []ReuseRevokesWhatExisted
<1>1. Init => ReuseRevokesWhatExisted
  BY DEF Init, ReuseRevokesWhatExisted
<1>2. Typed /\ ReuseRevokesWhatExisted /\ [Next]_vars => ReuseRevokesWhatExisted'
  <2> SUFFICES ASSUME Typed, ReuseRevokesWhatExisted, [Next]_vars
               PROVE  ReuseRevokesWhatExisted'
    OBVIOUS
  <2>0. /\ req \in [Handlers -> Request] /\ revoked \in [Tokens -> BOOLEAN]
        /\ condemned \subseteq Tokens \ Unused
    BY DEF Typed, TypeOK
  <2>1. ASSUME NEW h \in Handlers, NEW t \in held, RefreshReused(h, t)
        PROVE  ReuseRevokesWhatExisted'
    BY <2>0, <2>1 DEF RefreshReused, Arrive, Go, ReuseRevokesWhatExisted
  <2>2. ASSUME NEW h \in Handlers, RevokeAllForUser(h) PROVE ReuseRevokesWhatExisted'
    BY <2>0, <2>2 DEF RevokeAllForUser, RevokedWith, history, ReuseRevokesWhatExisted
  <2>3. ASSUME NEW h \in Handlers, NEW t \in held, Refresh(h, t) \/ Logout(h, t)
        PROVE  ReuseRevokesWhatExisted'
    BY <2>0, <2>3, FrameReuse DEF Refresh, Logout, Arrive, Hold, Go, db, Idle
  <2>4. ASSUME NEW h \in Handlers, Login(h) PROVE ReuseRevokesWhatExisted'
    BY <2>0, <2>4, FrameReuse DEF Login, Arrive, Go, db, Idle
  <2>5. ASSUME NEW h \in Handlers,
               FindUser(h) \/ CreateRefreshToken(h) \/ UpdateRefreshTokenHash(h)
        PROVE  ReuseRevokesWhatExisted'
    BY <2>0, <2>5, FrameReuse DEF FindUser, CreateRefreshToken, UpdateRefreshTokenHash, Go, db, history
  <2>6. ASSUME NEW h \in Handlers, RevokeRefreshToken(h) PROVE ReuseRevokesWhatExisted'
    <3>1. /\ UNCHANGED <<condemned, muted>> /\ \A t \in condemned : revoked[t] => revoked'[t]
          /\ req[h].op # "revokeAll" /\ \A g \in Handlers \ {h} : req'[g] = req[g]
      BY <2>0, <2>6 DEF RevokeRefreshToken, Go
    <3> QED
      BY <3>1, FrameReuse
  <2>7. ASSUME NEW h \in Handlers, StepFails(h) PROVE ReuseRevokesWhatExisted'
    BY <2>0, <2>7, FrameReuse DEF StepFails, Go, db
  <2>8. CASE Crash
    BY <2>8, FrameReuse DEF Crash, db
  <2>9. CASE SetStatus \/ UNCHANGED vars
    BY <2>9, FrameReuse DEF SetStatus, vars, db, history
  <2> QED
    BY <2>1, <2>2, <2>3, <2>4, <2>5, <2>6, <2>7, <2>8, <2>9 DEF Next, Step
<1> QED
  BY <1>1, <1>2, InitTyped, NextTyped, PTL DEF Spec

-----------------------------------------------------------------------------
(***************************************************************************)
(* The tab.  First the tables of the API and of the pages.                 *)
(***************************************************************************)

(* A handler takes rows of the statuses T to rows of the statuses T, and a
   row it accepts to at least one. *)
Fits(f, T) == DOMAIN f \subseteq T /\ \A s \in DOMAIN f : f[s] \subseteq T /\ f[s] # {}

(* The handlers of a service meet the statuses T and no others. *)
Closed(S, T) ==
  /\ S # <<>> /\ \A h \in DOMAIN S : Fits(S[h], T)
  /\ UNION {DOMAIN S[h] : h \in DOMAIN S} = T

(* Controllers whose rows are only created, changed and removed, and those
   without rows *)
CrudNames == {"automation", "companies", "contacts", "customFields", "meetings", "products"}
BareNames == {"accounting", "ai", "audit", "data", "reports", "search"}

LEMMA ServiceNames ==
  ASSUME NEW r \in DOMAIN RolePermissions
  PROVE  /\ \A name \in CrudNames : ServiceOf(r, name) = Crud
         /\ \A name \in BareNames : ServiceOf(r, name) = <<>>
         /\ ServiceOf(r, "branding") = BrandingService
         /\ ServiceOf(r, "connections") = ConnectionsService
         /\ ServiceOf(r, "deals") = DealsService(r)
         /\ ServiceOf(r, "integrations") = IntegrationsService
         /\ ServiceOf(r, "invoices") = InvoicesService
         /\ ServiceOf(r, "leadForms") = LeadFormsService
         /\ ServiceOf(r, "leads") = LeadsService
         /\ ServiceOf(r, "pipelines") = PipelinesService
         /\ ServiceOf(r, "quotes") = QuotesService
         /\ ServiceOf(r, "roles") = RolesService
         /\ ServiceOf(r, "tenants") = TenantsService
         /\ ServiceOf(r, "users") = UsersService
         /\ ServiceOf(r, "whatsapp") = WhatsappService
  BY DEF ServiceOf, ServicesOf, Services, CrudNames, BareNames,
         AutomationService, CompaniesService, ContactsService, CustomFieldsService,
         MeetingsService, ProductsService

LEMMA KnownStatuses ==
  ASSUME NEW name \in DOMAIN Controllers, NEW T, Closed(ServiceOf("ADMIN", name), T)
  PROVE  StatusesOf[name] = T
  BY DEF StatusesOf, Closed

LEMMA CrudClosed == Closed(Crud, Versions \cup {"none"})
  <1>1. \A h \in DOMAIN Crud : Fits(Crud[h], Versions \cup {"none"})
    BY DEF Crud, Rows, Created, From, Versions, Fits
  <1>2. "create" \in DOMAIN Crud /\ DOMAIN Crud["create"] = Versions \cup {"none"}
    BY DEF Crud, Rows, Created
  <1>3. QED
    BY <1>1, <1>2 DEF Closed, Fits

LEMMA BrandingClosed ==
  Closed(BrandingService, Versions)
  <1>1. \A h \in DOMAIN BrandingService : Fits(BrandingService[h], Versions)
    BY DEF Fits, BrandingService, Rows, Created, Versions, From
  <1>2. /\ "update" \in DOMAIN BrandingService
        /\ DOMAIN BrandingService["update"] = Versions
    BY DEF BrandingService, Rows, Created, Versions, From
  <1>3. QED
    BY <1>1, <1>2 DEF Closed, Fits

LEMMA ConnectionsClosed ==
  Closed(ConnectionsService, ConnectionStatus \cup {"none"})
  <1>1. ASSUME NEW h \in DOMAIN ConnectionsService
        PROVE  Fits(ConnectionsService[h], ConnectionStatus \cup {"none"})
    <2>1. CASE h = "connect"
      BY <2>1 DEF ConnectionsService, ConnectionStatus, Fits, From
    <2>2. CASE h = "test"
      BY <2>2 DEF ConnectionsService, ConnectionStatus, Fits
    <2>3. CASE h = "oauthStart"
      BY <2>3 DEF ConnectionsService, ConnectionStatus, Fits
    <2>4. CASE h = "remove"
      BY <2>4 DEF ConnectionsService, ConnectionStatus, Fits, From
    <2>5. QED
      BY <2>1, <2>2, <2>3, <2>4 DEF ConnectionsService
  <1>2. /\ "connect" \in DOMAIN ConnectionsService /\ "test" \in DOMAIN ConnectionsService
        /\ DOMAIN ConnectionsService["connect"] = {"none"}
        /\ DOMAIN ConnectionsService["test"] = ConnectionStatus
    BY DEF ConnectionsService, From, ConnectionStatus
  <1>3. QED
    BY <1>1, <1>2 DEF Closed, Fits

LEMMA DealsClosed ==
  ASSUME NEW r
  PROVE  Closed(DealsService(r), DealStatus \cup {"none"})
  <1>1. ASSUME NEW h \in DOMAIN DealsService(r)
        PROVE  Fits(DealsService(r)[h], DealStatus \cup {"none"})
    <2>1. CASE h = "create"
      BY <2>1 DEF DealsService, DealStatus, Fits, Created
    <2>2. CASE h = "update"
      BY <2>2 DEF DealsService, DealStatus, Fits
    <2>3. CASE h = "move"
      BY <2>3 DEF DealsService, DealStatus, Fits
    <2>4. CASE h = "remove"
      BY <2>4 DEF DealsService, DealStatus, Fits, From
    <2>5. QED
      BY <2>1, <2>2, <2>3, <2>4 DEF DealsService
  <1>2. /\ "create" \in DOMAIN DealsService(r)
        /\ DOMAIN DealsService(r)["create"] = DealStatus \cup {"none"}
    BY DEF DealsService, DealStatus, Created, From
  <1>3. QED
    BY <1>1, <1>2 DEF Closed, Fits

LEMMA IntegrationsClosed ==
  Closed(IntegrationsService, Versions \cup {"none"})
  <1>1. \A h \in DOMAIN IntegrationsService : Fits(IntegrationsService[h], Versions \cup {"none"})
    BY DEF Fits, IntegrationsService, Rows, Created, Versions, From
  <1>2. /\ "create" \in DOMAIN IntegrationsService
        /\ DOMAIN IntegrationsService["create"] = Versions \cup {"none"}
    BY DEF IntegrationsService, Rows, Created, Versions, From
  <1>3. QED
    BY <1>1, <1>2 DEF Closed, Fits

LEMMA InvoicesClosed ==
  Closed(InvoicesService, InvoiceStatus \cup {"none"})
  <1>1. ASSUME NEW h \in DOMAIN InvoicesService
        PROVE  Fits(InvoicesService[h], InvoiceStatus \cup {"none"})
    <2>1. CASE h = "create"
      BY <2>1 DEF InvoicesService, InvoiceStatus, Fits, Created
    <2>2. CASE h = "issue"
      BY <2>2 DEF InvoicesService, InvoiceStatus, Fits, From
    <2>3. CASE h = "addPayment"
      BY <2>3 DEF InvoicesService, InvoiceStatus, Fits, From
    <2>4. CASE h = "cancel"
      BY <2>4 DEF InvoicesService, InvoiceStatus, Fits, From
    <2>5. QED
      BY <2>1, <2>2, <2>3, <2>4 DEF InvoicesService
  <1>2. /\ "create" \in DOMAIN InvoicesService
        /\ DOMAIN InvoicesService["create"] = InvoiceStatus \cup {"none"}
    BY DEF InvoicesService, Created, InvoiceStatus, From
  <1>3. QED
    BY <1>1, <1>2 DEF Closed, Fits

LEMMA LeadFormsClosed ==
  Closed(LeadFormsService, Versions \cup {"none"})
  <1>1. \A h \in DOMAIN LeadFormsService : Fits(LeadFormsService[h], Versions \cup {"none"})
    BY DEF Fits, LeadFormsService, Rows, Created, Versions, From
  <1>2. /\ "create" \in DOMAIN LeadFormsService
        /\ DOMAIN LeadFormsService["create"] = Versions \cup {"none"}
    BY DEF LeadFormsService, Rows, Created, Versions, From
  <1>3. QED
    BY <1>1, <1>2 DEF Closed, Fits

LEMMA LeadsClosed ==
  Closed(LeadsService, LeadStatus \cup {"none"})
  <1>1. ASSUME NEW h \in DOMAIN LeadsService
        PROVE  Fits(LeadsService[h], LeadStatus \cup {"none"})
    <2>1. CASE h = "create"
      BY <2>1 DEF LeadsService, LeadStatus, Fits, Created
    <2>2. CASE h = "update"
      BY <2>2 DEF LeadsService, LeadStatus, Fits, From
    <2>3. CASE h = "convert"
      BY <2>3 DEF LeadsService, LeadStatus, Fits, From
    <2>4. CASE h = "remove"
      BY <2>4 DEF LeadsService, LeadStatus, Fits, From
    <2>5. QED
      BY <2>1, <2>2, <2>3, <2>4 DEF LeadsService
  <1>2. /\ "create" \in DOMAIN LeadsService
        /\ DOMAIN LeadsService["create"] = LeadStatus \cup {"none"}
    BY DEF LeadsService, Created, LeadStatus, From
  <1>3. QED
    BY <1>1, <1>2 DEF Closed, Fits

LEMMA PipelinesClosed ==
  Closed(PipelinesService, StageStatus \cup {"none"})
  <1>1. ASSUME NEW h \in DOMAIN PipelinesService
        PROVE  Fits(PipelinesService[h], StageStatus \cup {"none"})
    <2>1. CASE h = "addStage"
      BY <2>1 DEF PipelinesService, StageStatus, Fits
    <2>2. CASE h = "updateStage"
      BY <2>2 DEF PipelinesService, StageStatus, Fits
    <2>3. CASE h = "reorder"
      BY <2>3 DEF PipelinesService, StageStatus, Fits
    <2>4. CASE h = "removeStage"
      BY <2>4 DEF PipelinesService, StageStatus, Fits, From
    <2>5. QED
      BY <2>1, <2>2, <2>3, <2>4 DEF PipelinesService
  <1>2. /\ "addStage" \in DOMAIN PipelinesService
        /\ DOMAIN PipelinesService["addStage"] = StageStatus \cup {"none"}
    BY DEF PipelinesService, Created, StageStatus, From
  <1>3. QED
    BY <1>1, <1>2 DEF Closed, Fits

LEMMA QuotesClosed ==
  Closed(QuotesService, QuoteStatus \cup {"none"})
  <1>1. ASSUME NEW h \in DOMAIN QuotesService
        PROVE  Fits(QuotesService[h], QuoteStatus \cup {"none"})
    <2>1. CASE h = "create"
      BY <2>1 DEF QuotesService, QuoteStatus, Fits, Created
    <2>2. CASE h = "send"
      BY <2>2 DEF QuotesService, QuoteStatus, Fits, From
    <2>3. CASE h = "accept"
      BY <2>3 DEF QuotesService, QuoteStatus, Fits, From
    <2>4. CASE h = "reject"
      BY <2>4 DEF QuotesService, QuoteStatus, Fits, From
    <2>5. CASE h = "convert"
      BY <2>5 DEF QuotesService, QuoteStatus, Fits, From
    <2>6. CASE h = "remove"
      BY <2>6 DEF QuotesService, QuoteStatus, Fits, From
    <2>7. QED
      BY <2>1, <2>2, <2>3, <2>4, <2>5, <2>6 DEF QuotesService
  <1>2. /\ "create" \in DOMAIN QuotesService
        /\ DOMAIN QuotesService["create"] = QuoteStatus \cup {"none"}
    BY DEF QuotesService, Created, QuoteStatus, From
  <1>3. QED
    BY <1>1, <1>2 DEF Closed, Fits

LEMMA RolesClosed ==
  Closed(RolesService, RoleStatus \cup {"none"})
  <1>1. ASSUME NEW h \in DOMAIN RolesService
        PROVE  Fits(RolesService[h], RoleStatus \cup {"none"})
    <2>1. CASE h = "create"
      BY <2>1 DEF RolesService, RoleStatus, Versions, Fits, Created
    <2>2. CASE h = "update"
      BY <2>2 DEF RolesService, RoleStatus, Versions, Fits
    <2>3. CASE h = "assignPermissions"
      BY <2>3 DEF RolesService, RoleStatus, Versions, Fits, From
    <2>4. CASE h = "remove"
      BY <2>4 DEF RolesService, RoleStatus, Versions, Fits, From
    <2>5. QED
      BY <2>1, <2>2, <2>3, <2>4 DEF RolesService
  <1>2. /\ "create" \in DOMAIN RolesService
        /\ DOMAIN RolesService["create"] = RoleStatus \cup {"none"}
    BY DEF RolesService, Created, RoleStatus, Versions, From
  <1>3. QED
    BY <1>1, <1>2 DEF Closed, Fits

LEMMA TenantsClosed ==
  Closed(TenantsService, Versions \cup {"none"})
  <1>1. \A h \in DOMAIN TenantsService : Fits(TenantsService[h], Versions \cup {"none"})
    BY DEF Fits, TenantsService, Rows, Created, Versions, From
  <1>2. /\ "create" \in DOMAIN TenantsService
        /\ DOMAIN TenantsService["create"] = Versions \cup {"none"}
    BY DEF TenantsService, Rows, Created, Versions, From
  <1>3. QED
    BY <1>1, <1>2 DEF Closed, Fits

LEMMA UsersClosed ==
  Closed(UsersService, UserStatus \cup {"none"})
  <1>1. ASSUME NEW h \in DOMAIN UsersService
        PROVE  Fits(UsersService[h], UserStatus \cup {"none"})
    <2>1. CASE h = "create"
      BY <2>1 DEF UsersService, UserStatus, Fits, Created
    <2>2. CASE h = "update"
      BY <2>2 DEF UsersService, UserStatus, Fits
    <2>3. CASE h = "setStatus"
      BY <2>3 DEF UsersService, UserStatus, Fits, From
    <2>4. CASE h = "assignRoles"
      BY <2>4 DEF UsersService, UserStatus, Fits
    <2>5. CASE h = "remove"
      BY <2>5 DEF UsersService, UserStatus, Fits, From
    <2>6. CASE h = "assignRolesButAdmin"
      BY <2>6 DEF UsersService, UserStatus, Fits
    <2>7. QED
      BY <2>1, <2>2, <2>3, <2>4, <2>5, <2>6 DEF UsersService
  <1>2. /\ "create" \in DOMAIN UsersService
        /\ DOMAIN UsersService["create"] = UserStatus \cup {"none"}
    BY DEF UsersService, Created, UserStatus, From
  <1>3. QED
    BY <1>1, <1>2 DEF Closed, Fits

LEMMA WhatsappClosed ==
  Closed(WhatsappService, ConversationStatus \cup {"none"})
  <1>1. ASSUME NEW h \in DOMAIN WhatsappService
        PROVE  Fits(WhatsappService[h], ConversationStatus \cup {"none"})
    <2>1. CASE h = "send"
      BY <2>1 DEF WhatsappService, ConversationStatus, Versions, Fits
    <2>2. CASE h = "thread"
      BY <2>2 DEF WhatsappService, ConversationStatus, Versions, Fits
    <2>3. QED
      BY <2>1, <2>2 DEF WhatsappService
  <1>2. /\ "send" \in DOMAIN WhatsappService /\ "thread" \in DOMAIN WhatsappService
        /\ DOMAIN WhatsappService["send"] = Versions \cup {"none"}
        /\ DOMAIN WhatsappService["thread"] = ConversationStatus
    BY DEF WhatsappService, ConversationStatus, Versions
  <1>3. QED
    BY <1>1, <1>2 DEF Closed, Fits, ConversationStatus

LEMMA StatusesByService ==
  /\ \A name \in CrudNames : StatusesOf[name] = Versions \cup {"none"}
  /\ \A name \in BareNames : StatusesOf[name] = {"none"}
  /\ StatusesOf["branding"] = Versions
  /\ StatusesOf["connections"] = ConnectionStatus \cup {"none"}
  /\ StatusesOf["deals"] = DealStatus \cup {"none"}
  /\ StatusesOf["integrations"] = Versions \cup {"none"}
  /\ StatusesOf["invoices"] = InvoiceStatus \cup {"none"}
  /\ StatusesOf["leadForms"] = Versions \cup {"none"}
  /\ StatusesOf["leads"] = LeadStatus \cup {"none"}
  /\ StatusesOf["pipelines"] = StageStatus \cup {"none"}
  /\ StatusesOf["quotes"] = QuoteStatus \cup {"none"}
  /\ StatusesOf["roles"] = RoleStatus \cup {"none"}
  /\ StatusesOf["tenants"] = Versions \cup {"none"}
  /\ StatusesOf["users"] = UserStatus \cup {"none"}
  /\ StatusesOf["whatsapp"] = ConversationStatus \cup {"none"}
  <1> USE DEF Controllers
  <1>1. "ADMIN" \in DOMAIN RolePermissions
    BY DEF RolePermissions
  <1>2. ASSUME NEW name \in CrudNames
        PROVE  StatusesOf[name] = Versions \cup {"none"}
    <2>1. name \in DOMAIN Controllers
      BY DEF CrudNames
    <2>2. Closed(ServiceOf("ADMIN", name), Versions \cup {"none"})
      BY <1>1, ServiceNames, CrudClosed
    <2>3. QED
      BY <2>1, <2>2, KnownStatuses
  <1>3. ASSUME NEW name \in BareNames
        PROVE  StatusesOf[name] = {"none"}
    <2>1. name \in DOMAIN Controllers
      BY DEF BareNames
    <2>2. QED
      BY <1>1, <2>1, ServiceNames DEF StatusesOf
  <1>4. StatusesOf["branding"] = Versions
    BY <1>1, ServiceNames, BrandingClosed, KnownStatuses
  <1>5. StatusesOf["connections"] = ConnectionStatus \cup {"none"}
    BY <1>1, ServiceNames, ConnectionsClosed, KnownStatuses
  <1>6. StatusesOf["deals"] = DealStatus \cup {"none"}
    BY <1>1, ServiceNames, DealsClosed, KnownStatuses
  <1>7. StatusesOf["integrations"] = Versions \cup {"none"}
    BY <1>1, ServiceNames, IntegrationsClosed, KnownStatuses
  <1>8. StatusesOf["invoices"] = InvoiceStatus \cup {"none"}
    BY <1>1, ServiceNames, InvoicesClosed, KnownStatuses
  <1>9. StatusesOf["leadForms"] = Versions \cup {"none"}
    BY <1>1, ServiceNames, LeadFormsClosed, KnownStatuses
  <1>10. StatusesOf["leads"] = LeadStatus \cup {"none"}
    BY <1>1, ServiceNames, LeadsClosed, KnownStatuses
  <1>11. StatusesOf["pipelines"] = StageStatus \cup {"none"}
    BY <1>1, ServiceNames, PipelinesClosed, KnownStatuses
  <1>12. StatusesOf["quotes"] = QuoteStatus \cup {"none"}
    BY <1>1, ServiceNames, QuotesClosed, KnownStatuses
  <1>13. StatusesOf["roles"] = RoleStatus \cup {"none"}
    BY <1>1, ServiceNames, RolesClosed, KnownStatuses
  <1>14. StatusesOf["tenants"] = Versions \cup {"none"}
    BY <1>1, ServiceNames, TenantsClosed, KnownStatuses
  <1>15. StatusesOf["users"] = UserStatus \cup {"none"}
    BY <1>1, ServiceNames, UsersClosed, KnownStatuses
  <1>16. StatusesOf["whatsapp"] = ConversationStatus \cup {"none"}
    BY <1>1, ServiceNames, WhatsappClosed, KnownStatuses
  <1>17. QED
    BY <1>2, <1>3, <1>4, <1>5, <1>6, <1>7, <1>8, <1>9, <1>10, <1>11, <1>12, <1>13, <1>14,
       <1>15, <1>16

(* What a service answers for a row it can meet is again such a row, and it
   refuses only a status that the handler does not list. *)
LEMMA ServiceSound ==
  ASSUME NEW r \in DOMAIN RolePermissions, NEW name \in DOMAIN Controllers
  PROVE  \/ ServiceOf(r, name) = <<>> /\ StatusesOf[name] = {"none"}
         \/ Closed(ServiceOf(r, name), StatusesOf[name])
  <1>1. CASE name \in BareNames
    BY <1>1, ServiceNames, StatusesByService
  <1>2. CASE name \in CrudNames
    BY <1>2, ServiceNames, StatusesByService, CrudClosed
  <1>3. CASE name = "deals"
    <2>1. Closed(DealsService(r), DealStatus \cup {"none"})
      BY DealsClosed
    <2>2. QED
      BY <1>3, <2>1, ServiceNames, StatusesByService
  <1>4. CASE name = "branding"
    BY <1>4, ServiceNames, StatusesByService, BrandingClosed
  <1>5. CASE name = "connections"
    BY <1>5, ServiceNames, StatusesByService, ConnectionsClosed
  <1>6. CASE name = "integrations"
    BY <1>6, ServiceNames, StatusesByService, IntegrationsClosed
  <1>7. CASE name = "invoices"
    BY <1>7, ServiceNames, StatusesByService, InvoicesClosed
  <1>8. CASE name = "leadForms"
    BY <1>8, ServiceNames, StatusesByService, LeadFormsClosed
  <1>9. CASE name = "leads"
    BY <1>9, ServiceNames, StatusesByService, LeadsClosed
  <1>10. CASE name = "pipelines"
    BY <1>10, ServiceNames, StatusesByService, PipelinesClosed
  <1>11. CASE name = "quotes"
    BY <1>11, ServiceNames, StatusesByService, QuotesClosed
  <1>12. CASE name = "roles"
    BY <1>12, ServiceNames, StatusesByService, RolesClosed
  <1>13. CASE name = "tenants"
    BY <1>13, ServiceNames, StatusesByService, TenantsClosed
  <1>14. CASE name = "users"
    BY <1>14, ServiceNames, StatusesByService, UsersClosed
  <1>15. CASE name = "whatsapp"
    BY <1>15, ServiceNames, StatusesByService, WhatsappClosed
  <1>16. QED
    BY <1>1, <1>2, <1>3, <1>4, <1>5, <1>6, <1>7, <1>8, <1>9, <1>10, <1>11, <1>12, <1>13, <1>14,
       <1>15
       DEF Controllers, CrudNames, BareNames

LEMMA StatusesAreWords ==
  ASSUME NEW name \in DOMAIN Controllers
  PROVE  "asked" \notin StatusesOf[name] /\ "refused" \notin StatusesOf[name]
  BY StatusesByService
     DEF Controllers, CrudNames, BareNames, Versions, ConnectionStatus, DealStatus, InvoiceStatus, LeadStatus,
         StageStatus, QuoteStatus, RoleStatus, UserStatus, ConversationStatus

LEMMA AfterStays ==
  ASSUME NEW r \in DOMAIN RolePermissions, NEW name \in DOMAIN Controllers, NEW c,
         NEW s \in StatusesOf[name]
  PROVE  After(r, name, c, s) \subseteq StatusesOf[name]
  BY ServiceSound DEF After, Closed, Fits

LEMMA Refusal ==
  ASSUME NEW r \in DOMAIN RolePermissions, NEW name \in DOMAIN Controllers, NEW c, NEW s,
         After(r, name, c, s) = {}
  PROVE  c[1] = name /\ c[2] \in DOMAIN ServiceOf(r, name)
         /\ s \notin DOMAIN ServiceOf(r, name)[c[2]]
  <1>1. c[1] = name /\ c[2] \in DOMAIN ServiceOf(r, name)
    BY DEF After
  <1>2. Closed(ServiceOf(r, name), StatusesOf[name])
    BY <1>1, ServiceSound
  <1>3. QED
    BY <1>1, <1>2 DEF After, Closed, Fits

-----------------------------------------------------------------------------
(* The pages.  A button has calls to make; *)
WellFormed(b) == Len(b.calls) \in Nat \ {0} /\ DOMAIN b.calls = 1..Len(b.calls)

(* whoever gets to the page and is offered the button has the permissions it
   needs, outside the known gaps; *)
Guarded(p, b) ==
  \A perms : Reachable(p, perms) /\ b.shown \subseteq perms =>
    \A i \in DOMAIN b.calls : \A x \in Needs(b.calls[i]) \ perms :
      <<p, b.name, x>> \in GuardGaps

(* if the list is not asked again, there is nothing new to show; *)
Quiet(p, b) ==
  ~b.refreshes => \A r \in DOMAIN RolePermissions, i \in DOMAIN b.calls : \A s :
                    After(r, Pages[p].service, b.calls[i], s) \subseteq {s}

(* the service accepts the rows the button is offered for, outside the known
   gaps; *)
Answered(p, b) ==
  \A r \in DOMAIN RolePermissions, i \in DOMAIN b.calls :
    \A s \in StatusesOf[Pages[p].service] :
      (b.on = {} \/ s \in b.on) /\ After(r, Pages[p].service, b.calls[i], s) = {} =>
        <<p, b.name, s>> \in ServiceGaps

(* and no call but the last takes the row out of these. *)
Steady(p, b) ==
  \A r \in DOMAIN RolePermissions, i \in DOMAIN b.calls :
    i < Len(b.calls) =>
      \A s \in b.on : After(r, Pages[p].service, b.calls[i], s) \subseteq b.on

ButtonRight(p, b) ==
  WellFormed(b) /\ Guarded(p, b) /\ Quiet(p, b) /\ Answered(p, b) /\ Steady(p, b)

LEMMA OneCall ==
  \A name, shown, on, ctrl, x :
    LET b == Button(name, shown, on, ctrl, <<x>>) IN
    /\ b.name = name /\ b.shown = shown /\ b.on = on /\ b.refreshes = TRUE
    /\ b.calls = <<<<ctrl, x>>>> /\ DOMAIN b.calls = 1..1 /\ Len(b.calls) = 1
    /\ b.calls[1] = <<ctrl, x>>
  BY DEF Button

LEMMA TwoCalls ==
  \A name, shown, on, ctrl, x, y :
    LET b == Button(name, shown, on, ctrl, <<x, y>>) IN
    /\ b.name = name /\ b.shown = shown /\ b.on = on /\ b.refreshes = TRUE
    /\ b.calls = <<<<ctrl, x>>, <<ctrl, y>>>> /\ DOMAIN b.calls = 1..2 /\ Len(b.calls) = 2
    /\ b.calls[1] = <<ctrl, x>> /\ b.calls[2] = <<ctrl, y>>
  BY DEF Button

LEMMA ThreeCalls ==
  \A name, shown, on, ctrl, x, y, z :
    LET b == Button(name, shown, on, ctrl, <<x, y, z>>) IN
    /\ b.name = name /\ b.shown = shown /\ b.on = on /\ b.refreshes = TRUE
    /\ b.calls = <<<<ctrl, x>>, <<ctrl, y>>, <<ctrl, z>>>>
    /\ DOMAIN b.calls = 1..3 /\ Len(b.calls) = 3
    /\ b.calls[1] = <<ctrl, x>> /\ b.calls[2] = <<ctrl, y>> /\ b.calls[3] = <<ctrl, z>>
  BY DEF Button

LEMMA Variants ==
  \A b :
    /\ Silent(b).name = b.name /\ Silent(b).shown = b.shown /\ Silent(b).on = b.on
    /\ Silent(b).calls = b.calls /\ Silent(b).refreshes = FALSE
    /\ Repeatable(b).name = b.name /\ Repeatable(b).shown = b.shown /\ Repeatable(b).on = b.on
    /\ Repeatable(b).calls = b.calls /\ Repeatable(b).refreshes = b.refreshes
  BY DEF Silent, Repeatable

(* The shortcuts and the search box lead nowhere that the sidebar does not,
   or asks anything for; the inbox does. *)
LEMMA MenuIsSidebar ==
  ASSUME NEW perms, NEW p, Reachable(p, perms)
  PROVE  \/ p = "search"
         \/ p \in DOMAIN Sidebar /\ (Sidebar[p] = {} \/ Sidebar[p] \cap perms # {})
         \/ p = "connections" /\ LinkGap(p, perms)
  <1>1. DOMAIN HomeLinks \subseteq DOMAIN Sidebar
    BY DEF HomeLinks, Sidebar
  <1>2. \A x \in DOMAIN HomeLinks : HomeLinks[x] = Sidebar[x]
    <2>1. /\ HomeLinks["deals"] = Sidebar["deals"] /\ HomeLinks["leads"] = Sidebar["leads"]
          /\ HomeLinks["leadForms"] = Sidebar["leadForms"]
          /\ HomeLinks["quotes"] = Sidebar["quotes"]
      BY DEF HomeLinks, Sidebar
    <2>2. /\ HomeLinks["invoices"] = Sidebar["invoices"]
          /\ HomeLinks["reports"] = Sidebar["reports"]
          /\ HomeLinks["pipeline"] = Sidebar["pipeline"]
      BY DEF HomeLinks, Sidebar
    <2>3. DOMAIN HomeLinks =
            {"deals", "leads", "leadForms", "quotes", "invoices", "reports", "pipeline"}
      BY DEF HomeLinks
    <2>4. QED
      BY <2>1, <2>2, <2>3
  <1>3. \A x \in DOMAIN SearchBox : x = "search"
    BY DEF SearchBox
  <1>4. \A x \in DOMAIN InboxLinks : x = "connections"
    BY DEF InboxLinks
  <1>5. CASE Leads(InboxLinks, p, perms)
    BY <1>4, <1>5 DEF LinkGap, Leads
  <1>6. CASE ~Leads(InboxLinks, p, perms)
    BY <1>1, <1>2, <1>3, <1>6 DEF Reachable, Leads
  <1>7. QED
    BY <1>5, <1>6

(* A page of one of the simple controllers creates rows, and changes or removes
   those that are there. *)
LEMMA CrudRight ==
  ASSUME NEW p, NEW name \in CrudNames, Pages[p].service = name, NEW b,
         b.refreshes, DOMAIN b.calls = 1..1, Len(b.calls) = 1,
         \/ b.on = {} /\ b.calls[1] = <<name, "create">>
         \/ b.on = Versions /\ b.calls[1] = <<name, "update">>
         \/ b.on = Versions /\ b.calls[1] = <<name, "remove">>
  PROVE  Quiet(p, b) /\ Answered(p, b) /\ Steady(p, b)
  <1>1. Quiet(p, b) /\ Steady(p, b)
    BY DEF Quiet, Steady
  <1>2. name \in DOMAIN Controllers
    BY DEF CrudNames, Controllers
  <1>3. SUFFICES
          ASSUME NEW r \in DOMAIN RolePermissions, NEW i \in DOMAIN b.calls,
                 NEW s \in StatusesOf[name], b.on = {} \/ s \in b.on,
                 After(r, name, b.calls[i], s) = {}
          PROVE  FALSE
    BY <1>1 DEF Answered
  <1>4. i = 1 /\ s \in Versions \cup {"none"} /\ ServiceOf(r, name) = Crud
    BY ServiceNames, StatusesByService
  <1>5. b.calls[1][2] \in DOMAIN Crud /\ s \notin DOMAIN Crud[b.calls[1][2]]
    BY <1>2, <1>3, <1>4, Refusal
  <1>6. /\ DOMAIN Crud["create"] = Versions \cup {"none"}
        /\ DOMAIN Crud["update"] = Versions
        /\ DOMAIN Crud["remove"] = Versions
    BY DEF Crud, Rows, Created, Versions, From
  <1>7. QED
    BY <1>3, <1>4, <1>5, <1>6 DEF Versions

LEMMA AiPageRight ==
  ASSUME NEW b \in Pages["ai"].buttons
  PROVE  ButtonRight("ai", b)
  <1>1. /\ Pages["ai"].service = "ai"
        /\ b \in {Silent(Button("draft", {}, {}, "ai", <<"draftEmail">>)),
                   Silent(Button("summarize", {}, {}, "ai", <<"summarize">>))}
    BY DEF Pages, AiPage, Page
  <1>2. WellFormed(b)
    BY <1>1, OneCall, Variants DEF WellFormed
  <1>3. Guarded("ai", b)
    <2>1. \A perms : Reachable("ai", perms) => "ai.use" \in perms
      <3>1. "ai" \in DOMAIN Sidebar /\ Sidebar["ai"] = {"ai.use"}
        BY DEF Sidebar
      <3>2. QED
        BY <3>1, MenuIsSidebar
    <2>2. \A i \in DOMAIN b.calls : Needs(b.calls[i]) = {"ai.use"}
      BY <1>1, OneCall, Variants DEF Needs, Controllers, AiController
    <2>3. QED
      BY <2>1, <2>2 DEF Guarded
  <1>4. Quiet("ai", b)
    BY <1>1, ServiceNames, OneCall, Variants DEF Quiet, After, BareNames
  <1>5. Answered("ai", b)
    BY <1>1, ServiceNames, OneCall, Variants DEF Answered, After, BareNames
  <1>6. Steady("ai", b)
    BY <1>1, OneCall, Variants DEF Steady
  <1>7. QED
    BY <1>2, <1>3, <1>4, <1>5, <1>6 DEF ButtonRight

LEMMA AutomationPageRight ==
  ASSUME NEW b \in Pages["automation"].buttons
  PROVE  ButtonRight("automation", b)
  <1>1. /\ Pages["automation"].service = "automation"
        /\ b \in AutomationRuleModal
    BY DEF Pages, AutomationPage, Page
  <1>2. WellFormed(b)
    BY <1>1, OneCall DEF WellFormed, AutomationRuleModal, ManageButtons
  <1>3. Guarded("automation", b)
    BY <1>1, MenuIsSidebar, OneCall
       DEF Guarded, Sidebar, Needs, Controllers, AutomationController, GuardGaps,
           AutomationRuleModal, ManageButtons
  <1>4. /\ b.refreshes /\ DOMAIN b.calls = 1..1 /\ Len(b.calls) = 1
        /\ \/ b.on = {} /\ b.calls[1] = <<"automation", "create">>
           \/ b.on = Versions /\ b.calls[1] = <<"automation", "update">>
           \/ b.on = Versions /\ b.calls[1] = <<"automation", "remove">>
    BY <1>1, OneCall DEF AutomationRuleModal, ManageButtons
  <1>5. "automation" \in CrudNames
    BY DEF CrudNames
  <1>6. QED
    BY <1>1, <1>2, <1>3, <1>4, <1>5, CrudRight DEF ButtonRight

LEMMA BrandingPageRight ==
  ASSUME NEW b \in Pages["branding"].buttons
  PROVE  ButtonRight("branding", b)
  <1>1. /\ Pages["branding"].service = "branding"
        /\ b \in {Button("save", {"branding.manage"}, {}, "branding", <<"update">>),
                   Button("reset", {"branding.manage"}, {}, "branding", <<"update">>)}
    BY DEF Pages, BrandingPage, Page
  <1>2. WellFormed(b)
    BY <1>1, OneCall DEF WellFormed
  <1>3. Guarded("branding", b)
    BY <1>1, MenuIsSidebar, OneCall
       DEF Guarded, Sidebar, Needs, Controllers, BrandingController, GuardGaps
  <1>4. Quiet("branding", b)
    BY <1>1, ServiceNames, OneCall
       DEF Quiet, After, BrandingService, Rows, Created, Versions, From
  <1>5. Answered("branding", b)
    <2>1. SUFFICES
            ASSUME NEW r \in DOMAIN RolePermissions, NEW i \in DOMAIN b.calls,
                   NEW s \in Versions, b.on = {} \/ s \in b.on,
                   b.calls[i][1] = "branding", b.calls[i][2] \in DOMAIN BrandingService,
                   s \notin DOMAIN BrandingService[b.calls[i][2]]
            PROVE  <<"branding", b.name, s>> \in ServiceGaps
      BY <1>1, Refusal, ServiceNames, StatusesByService DEF Answered, Controllers
    <2>2. /\ DOMAIN BrandingService["update"] = Versions
      BY DEF BrandingService, Rows, Created, Versions, From
    <2>3. QED
      BY <1>1, <2>1, <2>2, OneCall DEF ServiceGaps, Versions
  <1>6. Steady("branding", b)
    BY <1>1, ServiceNames, OneCall DEF Steady, After
  <1>7. QED
    BY <1>2, <1>3, <1>4, <1>5, <1>6 DEF ButtonRight

LEMMA CompaniesPageRight ==
  ASSUME NEW b \in Pages["companies"].buttons
  PROVE  ButtonRight("companies", b)
  <1>1. /\ Pages["companies"].service = "companies"
        /\ b \in CrudButtons("companies", "company.create", "company.update", "company.delete")
    BY DEF Pages, CompaniesPage, Page
  <1>2. WellFormed(b)
    BY <1>1, OneCall DEF WellFormed, CrudButtons
  <1>3. Guarded("companies", b)
    BY <1>1, MenuIsSidebar, OneCall
       DEF Guarded, Sidebar, Needs, Controllers, CompaniesController, GuardGaps, CrudButtons
  <1>4. /\ b.refreshes /\ DOMAIN b.calls = 1..1 /\ Len(b.calls) = 1
        /\ \/ b.on = {} /\ b.calls[1] = <<"companies", "create">>
           \/ b.on = Versions /\ b.calls[1] = <<"companies", "update">>
           \/ b.on = Versions /\ b.calls[1] = <<"companies", "remove">>
    BY <1>1, OneCall DEF CrudButtons
  <1>5. "companies" \in CrudNames
    BY DEF CrudNames
  <1>6. QED
    BY <1>1, <1>2, <1>3, <1>4, <1>5, CrudRight DEF ButtonRight

LEMMA ConnectionsPageRight ==
  ASSUME NEW b \in Pages["connections"].buttons
  PROVE  ButtonRight("connections", b)
  <1>1. /\ Pages["connections"].service = "connections"
        /\ b \in ConnectionsButtons \cup {ConnectForm}
    BY DEF Pages, ConnectionsPage, Page
  <1>2. WellFormed(b)
    BY <1>1, OneCall, Variants DEF WellFormed, ConnectionsButtons, ConnectForm
  <1>3. Guarded("connections", b)
    BY <1>1, MenuIsSidebar, OneCall, Variants
       DEF Guarded, Sidebar, Needs, Controllers, ConnectionsController, GuardGaps,
           ConnectionsButtons, ConnectForm
  <1>4. Quiet("connections", b)
    BY <1>1, ServiceNames, OneCall, Variants
       DEF Quiet, After, ConnectionsButtons, ConnectForm, ConnectionStatus, ConnectionsService,
           From
  <1>5. Answered("connections", b)
    <2>1. SUFFICES
            ASSUME NEW r \in DOMAIN RolePermissions, NEW i \in DOMAIN b.calls,
                   NEW s \in ConnectionStatus \cup {"none"}, b.on = {} \/ s \in b.on,
                   b.calls[i][1] = "connections", b.calls[i][2] \in DOMAIN ConnectionsService,
                   s \notin DOMAIN ConnectionsService[b.calls[i][2]]
            PROVE  <<"connections", b.name, s>> \in ServiceGaps
      BY <1>1, Refusal, ServiceNames, StatusesByService DEF Answered, Controllers
    <2>2. /\ DOMAIN ConnectionsService["connect"] = {"none"}
          /\ DOMAIN ConnectionsService["test"] = ConnectionStatus
          /\ DOMAIN ConnectionsService["oauthStart"] = ConnectionStatus
          /\ DOMAIN ConnectionsService["remove"] = ConnectionStatus
      BY DEF ConnectionsService, From, ConnectionStatus
    <2>3. CASE b.name = "test"
      <3>1. b.on = ConnectionStatus /\ b.calls[i] = <<"connections", "test">>
        BY <1>1, <2>3, OneCall, Variants DEF ConnectionsButtons, ConnectForm
      <3>2. QED
        BY <2>1, <2>2, <2>3, <3>1 DEF ServiceGaps, ConnectionStatus, Versions
    <2>4. CASE b.name = "authorize"
      <3>1. b.on = {"pending_auth"} /\ b.calls[i] = <<"connections", "oauthStart">>
        BY <1>1, <2>4, OneCall, Variants DEF ConnectionsButtons, ConnectForm
      <3>2. QED
        BY <2>1, <2>2, <2>4, <3>1 DEF ServiceGaps, ConnectionStatus, Versions
    <2>5. CASE b.name = "remove"
      <3>1. b.on = ConnectionStatus /\ b.calls[i] = <<"connections", "remove">>
        BY <1>1, <2>5, OneCall, Variants DEF ConnectionsButtons, ConnectForm
      <3>2. QED
        BY <2>1, <2>2, <2>5, <3>1 DEF ServiceGaps, ConnectionStatus, Versions
    <2>6. CASE b.name = "connect"
      <3>1. b.on = {"none"} /\ b.calls[i] = <<"connections", "connect">>
        BY <1>1, <2>6, OneCall, Variants DEF ConnectionsButtons, ConnectForm
      <3>2. QED
        BY <2>1, <2>2, <2>6, <3>1 DEF ServiceGaps, ConnectionStatus, Versions
    <2>7. QED
      BY <1>1, <2>3, <2>4, <2>5, <2>6, OneCall, Variants DEF ConnectionsButtons, ConnectForm
  <1>6. Steady("connections", b)
    BY <1>1, ServiceNames, OneCall, Variants DEF Steady, After, ConnectionsButtons, ConnectForm
  <1>7. QED
    BY <1>2, <1>3, <1>4, <1>5, <1>6 DEF ButtonRight

LEMMA ContactsPageRight ==
  ASSUME NEW b \in Pages["contacts"].buttons
  PROVE  ButtonRight("contacts", b)
  <1>1. /\ Pages["contacts"].service = "contacts"
        /\ b \in CrudButtons("contacts", "contact.create", "contact.update", "contact.delete")
    BY DEF Pages, ContactsPage, Page
  <1>2. WellFormed(b)
    BY <1>1, OneCall DEF WellFormed, CrudButtons
  <1>3. Guarded("contacts", b)
    BY <1>1, MenuIsSidebar, OneCall
       DEF Guarded, Sidebar, Needs, Controllers, CompaniesController, ContactsController,
           GuardGaps, CrudButtons
  <1>4. /\ b.refreshes /\ DOMAIN b.calls = 1..1 /\ Len(b.calls) = 1
        /\ \/ b.on = {} /\ b.calls[1] = <<"contacts", "create">>
           \/ b.on = Versions /\ b.calls[1] = <<"contacts", "update">>
           \/ b.on = Versions /\ b.calls[1] = <<"contacts", "remove">>
    BY <1>1, OneCall DEF CrudButtons
  <1>5. "contacts" \in CrudNames
    BY DEF CrudNames
  <1>6. QED
    BY <1>1, <1>2, <1>3, <1>4, <1>5, CrudRight DEF ButtonRight

LEMMA CustomFieldsPageRight ==
  ASSUME NEW b \in Pages["customFields"].buttons
  PROVE  ButtonRight("customFields", b)
  <1>1. /\ Pages["customFields"].service = "customFields"
        /\ b \in CustomFieldModal
    BY DEF Pages, CustomFieldsPage, Page
  <1>2. WellFormed(b)
    BY <1>1, OneCall DEF WellFormed, CustomFieldModal, ManageButtons
  <1>3. Guarded("customFields", b)
    BY <1>1, MenuIsSidebar, OneCall
       DEF Guarded, Sidebar, Needs, Controllers, CustomFieldsController, GuardGaps,
           CustomFieldModal, ManageButtons
  <1>4. /\ b.refreshes /\ DOMAIN b.calls = 1..1 /\ Len(b.calls) = 1
        /\ \/ b.on = {} /\ b.calls[1] = <<"customFields", "create">>
           \/ b.on = Versions /\ b.calls[1] = <<"customFields", "update">>
           \/ b.on = Versions /\ b.calls[1] = <<"customFields", "remove">>
    BY <1>1, OneCall DEF CustomFieldModal, ManageButtons
  <1>5. "customFields" \in CrudNames
    BY DEF CrudNames
  <1>6. QED
    BY <1>1, <1>2, <1>3, <1>4, <1>5, CrudRight DEF ButtonRight

LEMMA DataPageRight ==
  ASSUME NEW b \in Pages["data"].buttons
  PROVE  ButtonRight("data", b)
  <1>1. /\ Pages["data"].service = "data"
        /\ b \in {Silent(Repeatable(Button("export", {"data.export"}, {}, "data", <<"export">>))),
                   Silent(Button("import", {"data.import"}, {}, "data", <<"import">>))}
    BY DEF Pages, DataPage, Page
  <1>2. WellFormed(b)
    BY <1>1, OneCall, Variants DEF WellFormed
  <1>3. Guarded("data", b)
    BY <1>1, MenuIsSidebar, OneCall, Variants
       DEF Guarded, Sidebar, Needs, Controllers, DataController, GuardGaps
  <1>4. Quiet("data", b)
    BY <1>1, ServiceNames, OneCall, Variants DEF Quiet, After, BareNames
  <1>5. Answered("data", b)
    BY <1>1, ServiceNames, OneCall, Variants DEF Answered, After, BareNames
  <1>6. Steady("data", b)
    BY <1>1, OneCall, Variants DEF Steady
  <1>7. QED
    BY <1>2, <1>3, <1>4, <1>5, <1>6 DEF ButtonRight

LEMMA DealsPageRight ==
  ASSUME NEW b \in Pages["deals"].buttons
  PROVE  ButtonRight("deals", b)
  <1>1. /\ Pages["deals"].service = "deals"
        /\ b \in DealEditButtons \cup {DealsDrag, DealForm}
    BY DEF Pages, DealsPage, Page
  <1>2. WellFormed(b)
    BY <1>1, OneCall, TwoCalls, Variants DEF WellFormed, DealEditButtons, DealsDrag, DealForm
  <1>3. Guarded("deals", b)
    BY <1>1, MenuIsSidebar, OneCall, TwoCalls, Variants
       DEF Guarded, Sidebar, Needs, Controllers, DealsController, GuardGaps, DealEditButtons,
           DealsDrag, DealForm
  <1>4. Quiet("deals", b)
    BY <1>1, ServiceNames, OneCall, TwoCalls, Variants
       DEF Quiet, After, DealEditButtons, DealsDrag, DealForm, DealStatus, DealsService,
           Created, From
  <1>5. Answered("deals", b)
    <2>1. SUFFICES
            ASSUME NEW r \in DOMAIN RolePermissions, NEW i \in DOMAIN b.calls,
                   NEW s \in DealStatus \cup {"none"}, b.on = {} \/ s \in b.on,
                   b.calls[i][1] = "deals", b.calls[i][2] \in DOMAIN DealsService(r),
                   s \notin DOMAIN DealsService(r)[b.calls[i][2]]
            PROVE  <<"deals", b.name, s>> \in ServiceGaps
      BY <1>1, Refusal, ServiceNames, StatusesByService DEF Answered, Controllers
    <2>2. /\ DOMAIN DealsService(r)["create"] = DealStatus \cup {"none"}
          /\ DOMAIN DealsService(r)["update"] =
               (IF r \in {"ADMIN", "MANAGER"} THEN DealStatus ELSE {"first", "second"})
          /\ DOMAIN DealsService(r)["move"] =
               (IF r \in {"ADMIN", "MANAGER"} THEN DealStatus ELSE {"first", "second"})
          /\ DOMAIN DealsService(r)["remove"] =
               (IF r \in {"ADMIN", "MANAGER"} THEN DealStatus ELSE {"first", "second"})
      BY DEF DealsService, DealStatus, Created, From
    <2>3. CASE b.name = "save"
      <3>1. b.on = DealStatus /\ b.calls[i] = <<"deals", "update">>
        BY <1>1, <2>3, OneCall, TwoCalls, Variants DEF DealEditButtons, DealsDrag, DealForm
      <3>2. QED
        BY <2>1, <2>2, <2>3, <3>1 DEF ServiceGaps, DealStatus, Versions
    <2>4. CASE b.name = "saveMoved"
      <3>1. /\ b.on = DealStatus
            /\ b.calls[i] = <<"deals", "update">> \/ b.calls[i] = <<"deals", "move">>
        BY <1>1, <2>4, OneCall, TwoCalls, Variants DEF DealEditButtons, DealsDrag, DealForm
      <3>2. QED
        BY <2>1, <2>2, <2>4, <3>1 DEF ServiceGaps, DealStatus, Versions
    <2>5. CASE b.name = "delete"
      <3>1. b.on = DealStatus /\ b.calls[i] = <<"deals", "remove">>
        BY <1>1, <2>5, OneCall, TwoCalls, Variants DEF DealEditButtons, DealsDrag, DealForm
      <3>2. QED
        BY <2>1, <2>2, <2>5, <3>1 DEF ServiceGaps, DealStatus, Versions
    <2>6. CASE b.name = "move"
      <3>1. b.on = DealStatus /\ b.calls[i] = <<"deals", "move">>
        BY <1>1, <2>6, OneCall, TwoCalls, Variants DEF DealEditButtons, DealsDrag, DealForm
      <3>2. QED
        BY <2>1, <2>2, <2>6, <3>1 DEF ServiceGaps, DealStatus, Versions
    <2>7. CASE b.name = "create"
      <3>1. b.on = DealStatus \cup {"none"} /\ b.calls[i] = <<"deals", "create">>
        BY <1>1, <2>7, OneCall, TwoCalls, Variants DEF DealEditButtons, DealsDrag, DealForm
      <3>2. QED
        BY <2>1, <2>2, <2>7, <3>1 DEF ServiceGaps, DealStatus, Versions
    <2>8. QED
      BY <1>1, <2>3, <2>4, <2>5, <2>6, <2>7, OneCall, TwoCalls, Variants
         DEF DealEditButtons, DealsDrag, DealForm
  <1>6. Steady("deals", b)
    <2>1. SUFFICES
            ASSUME NEW r \in DOMAIN RolePermissions, NEW i \in DOMAIN b.calls, i < Len(b.calls),
                   NEW s \in b.on
            PROVE  After(r, "deals", b.calls[i], s) \subseteq b.on
      BY <1>1 DEF Steady
    <2>2. b.name = "saveMoved"
      BY <1>1, <2>1, OneCall, TwoCalls, Variants DEF DealEditButtons, DealsDrag, DealForm
    <2>3. CASE b.name = "saveMoved"
      <3>1. /\ b.on = DealStatus
            /\ DOMAIN b.calls = 1..2 /\ Len(b.calls) = 2
            /\ b.calls[1] = <<"deals", "update">>
        BY <1>1, <2>3, OneCall, TwoCalls, Variants DEF DealEditButtons, DealsDrag, DealForm
      <3>2. i = 1
        BY <2>1, <3>1
      <3>3. ServiceOf(r, "deals") = DealsService(r)
        BY ServiceNames
      <3>4. QED
        BY <2>1, <3>1, <3>2, <3>3 DEF After, DealStatus, DealsService, Created, From
    <2>4. QED
      BY <2>2, <2>3
  <1>7. QED
    BY <1>2, <1>3, <1>4, <1>5, <1>6 DEF ButtonRight

LEMMA IntegrationsPageRight ==
  ASSUME NEW b \in Pages["integrations"].buttons
  PROVE  ButtonRight("integrations", b)
  <1>1. /\ Pages["integrations"].service = "integrations"
        /\ b \in IntegrationsButtons
    BY DEF Pages, IntegrationsPage, Page
  <1>2. WellFormed(b)
    BY <1>1, OneCall, Variants DEF WellFormed, IntegrationsButtons
  <1>3. Guarded("integrations", b)
    BY <1>1, MenuIsSidebar, OneCall, Variants
       DEF Guarded, Sidebar, Needs, Controllers, IntegrationsController, GuardGaps,
           IntegrationsButtons
  <1>4. Quiet("integrations", b)
    BY <1>1, ServiceNames, OneCall, Variants
       DEF Quiet, After, IntegrationsButtons, Versions, IntegrationsService, Rows, Created, From
  <1>5. Answered("integrations", b)
    <2>1. SUFFICES
            ASSUME NEW r \in DOMAIN RolePermissions, NEW i \in DOMAIN b.calls,
                   NEW s \in Versions \cup {"none"}, b.on = {} \/ s \in b.on,
                   b.calls[i][1] = "integrations", b.calls[i][2] \in DOMAIN IntegrationsService,
                   s \notin DOMAIN IntegrationsService[b.calls[i][2]]
            PROVE  <<"integrations", b.name, s>> \in ServiceGaps
      BY <1>1, Refusal, ServiceNames, StatusesByService DEF Answered, Controllers
    <2>2. /\ DOMAIN IntegrationsService["create"] = Versions \cup {"none"}
          /\ DOMAIN IntegrationsService["test"] = Versions
          /\ DOMAIN IntegrationsService["remove"] = Versions
      BY DEF IntegrationsService, Rows, Created, Versions, From
    <2>3. CASE b.name = "create"
      <3>1. b.on = {} /\ b.calls[i] = <<"integrations", "create">>
        BY <1>1, <2>3, OneCall, Variants DEF IntegrationsButtons
      <3>2. QED
        BY <2>1, <2>2, <2>3, <3>1 DEF ServiceGaps, Versions
    <2>4. CASE b.name = "test"
      <3>1. b.on = Versions /\ b.calls[i] = <<"integrations", "test">>
        BY <1>1, <2>4, OneCall, Variants DEF IntegrationsButtons
      <3>2. QED
        BY <2>1, <2>2, <2>4, <3>1 DEF ServiceGaps, Versions
    <2>5. CASE b.name = "remove"
      <3>1. b.on = Versions /\ b.calls[i] = <<"integrations", "remove">>
        BY <1>1, <2>5, OneCall, Variants DEF IntegrationsButtons
      <3>2. QED
        BY <2>1, <2>2, <2>5, <3>1 DEF ServiceGaps, Versions
    <2>6. QED
      BY <1>1, <2>3, <2>4, <2>5, OneCall, Variants DEF IntegrationsButtons
  <1>6. Steady("integrations", b)
    BY <1>1, ServiceNames, OneCall, Variants DEF Steady, After, IntegrationsButtons
  <1>7. QED
    BY <1>2, <1>3, <1>4, <1>5, <1>6 DEF ButtonRight

LEMMA InvoicesPageRight ==
  ASSUME NEW b \in Pages["invoices"].buttons
  PROVE  ButtonRight("invoices", b)
  <1>1. /\ Pages["invoices"].service = "invoices"
        /\ b \in InvoiceButtons \cup {InvoiceForm}
    BY DEF Pages, InvoicesPage, Page
  <1>2. WellFormed(b)
    BY <1>1, OneCall, Variants DEF WellFormed, InvoiceButtons, WhatsAppSend, InvoiceForm
  <1>3. Guarded("invoices", b)
    BY <1>1, MenuIsSidebar, OneCall, Variants
       DEF Guarded, Sidebar, Needs, Controllers, AccountingController, InvoicesController,
           WhatsappController, GuardGaps, InvoiceButtons, WhatsAppSend, InvoiceForm
  <1>4. Quiet("invoices", b)
    BY <1>1, ServiceNames, OneCall, Variants
       DEF Quiet, After, InvoiceButtons, WhatsAppSend, InvoiceForm, InvoiceStatus,
           InvoicesService, Created, From
  <1>5. Answered("invoices", b)
    <2>1. SUFFICES
            ASSUME NEW r \in DOMAIN RolePermissions, NEW i \in DOMAIN b.calls,
                   NEW s \in InvoiceStatus \cup {"none"}, b.on = {} \/ s \in b.on,
                   b.calls[i][1] = "invoices", b.calls[i][2] \in DOMAIN InvoicesService,
                   s \notin DOMAIN InvoicesService[b.calls[i][2]]
            PROVE  <<"invoices", b.name, s>> \in ServiceGaps
      BY <1>1, Refusal, ServiceNames, StatusesByService DEF Answered, Controllers
    <2>2. /\ DOMAIN InvoicesService["create"] = InvoiceStatus \cup {"none"}
          /\ DOMAIN InvoicesService["issue"] = {"DRAFT"}
          /\ DOMAIN InvoicesService["addPayment"] = {"SENT", "PARTIALLY_PAID"}
          /\ DOMAIN InvoicesService["cancel"] = {"DRAFT", "SENT"}
      BY DEF InvoicesService, Created, InvoiceStatus, From
    <2>3. CASE b.name = "issue"
      <3>1. b.on = {"DRAFT"} /\ b.calls[i] = <<"invoices", "issue">>
        BY <1>1, <2>3, OneCall, Variants DEF InvoiceButtons, WhatsAppSend, InvoiceForm
      <3>2. QED
        BY <2>1, <2>2, <2>3, <3>1 DEF ServiceGaps, InvoiceStatus, Versions
    <2>4. CASE b.name = "payment"
      <3>1. b.on = {"SENT", "PARTIALLY_PAID"} /\ b.calls[i] = <<"invoices", "addPayment">>
        BY <1>1, <2>4, OneCall, Variants DEF InvoiceButtons, WhatsAppSend, InvoiceForm
      <3>2. QED
        BY <2>1, <2>2, <2>4, <3>1 DEF ServiceGaps, InvoiceStatus, Versions
    <2>5. CASE b.name = "sync"
      <3>1. b.on = InvoiceStatus \ {"DRAFT", "CANCELLED"} /\ b.calls[i] = <<"accounting", "sync">>
        BY <1>1, <2>5, OneCall, Variants DEF InvoiceButtons, WhatsAppSend, InvoiceForm
      <3>2. QED
        BY <2>1, <2>2, <2>5, <3>1 DEF ServiceGaps, InvoiceStatus, Versions
    <2>6. CASE b.name = "cancel"
      <3>1. b.on = {"DRAFT", "SENT"} /\ b.calls[i] = <<"invoices", "cancel">>
        BY <1>1, <2>6, OneCall, Variants DEF InvoiceButtons, WhatsAppSend, InvoiceForm
      <3>2. QED
        BY <2>1, <2>2, <2>6, <3>1 DEF ServiceGaps, InvoiceStatus, Versions
    <2>7. CASE b.name = "whatsapp"
      <3>1. b.on = InvoiceStatus \ {"DRAFT"} /\ b.calls[i] = <<"whatsapp", "send">>
        BY <1>1, <2>7, OneCall, Variants DEF InvoiceButtons, WhatsAppSend, InvoiceForm
      <3>2. QED
        BY <2>1, <2>2, <2>7, <3>1 DEF ServiceGaps, InvoiceStatus, Versions
    <2>8. CASE b.name = "create"
      <3>1. b.on = {} /\ b.calls[i] = <<"invoices", "create">>
        BY <1>1, <2>8, OneCall, Variants DEF InvoiceButtons, WhatsAppSend, InvoiceForm
      <3>2. QED
        BY <2>1, <2>2, <2>8, <3>1 DEF ServiceGaps, InvoiceStatus, Versions
    <2>9. QED
      BY <1>1, <2>3, <2>4, <2>5, <2>6, <2>7, <2>8, OneCall, Variants
         DEF InvoiceButtons, WhatsAppSend, InvoiceForm
  <1>6. Steady("invoices", b)
    BY <1>1, ServiceNames, OneCall, Variants
       DEF Steady, After, InvoiceButtons, WhatsAppSend, InvoiceForm
  <1>7. QED
    BY <1>2, <1>3, <1>4, <1>5, <1>6 DEF ButtonRight

LEMMA LeadFormsPageRight ==
  ASSUME NEW b \in Pages["leadForms"].buttons
  PROVE  ButtonRight("leadForms", b)
  <1>1. /\ Pages["leadForms"].service = "leadForms"
        /\ b \in LeadFormSave \cup LeadFormSecret
    BY DEF Pages, LeadFormsPage, Page
  <1>2. WellFormed(b)
    BY <1>1, OneCall, Variants DEF WellFormed, LeadFormSave, LeadFormSecret
  <1>3. Guarded("leadForms", b)
    BY <1>1, MenuIsSidebar, OneCall, Variants
       DEF Guarded, Sidebar, Needs, Controllers, LeadFormsController, GuardGaps, LeadFormSave,
           LeadFormSecret
  <1>4. Quiet("leadForms", b)
    BY <1>1, ServiceNames, OneCall, Variants
       DEF Quiet, After, LeadFormSave, LeadFormSecret, Versions, LeadFormsService, Rows,
           Created, From
  <1>5. Answered("leadForms", b)
    <2>1. SUFFICES
            ASSUME NEW r \in DOMAIN RolePermissions, NEW i \in DOMAIN b.calls,
                   NEW s \in Versions \cup {"none"}, b.on = {} \/ s \in b.on,
                   b.calls[i][1] = "leadForms", b.calls[i][2] \in DOMAIN LeadFormsService,
                   s \notin DOMAIN LeadFormsService[b.calls[i][2]]
            PROVE  <<"leadForms", b.name, s>> \in ServiceGaps
      BY <1>1, Refusal, ServiceNames, StatusesByService DEF Answered, Controllers
    <2>2. /\ DOMAIN LeadFormsService["create"] = Versions \cup {"none"}
          /\ DOMAIN LeadFormsService["update"] = Versions
          /\ DOMAIN LeadFormsService["reveal"] = Versions
          /\ DOMAIN LeadFormsService["rotate"] = Versions
      BY DEF LeadFormsService, Rows, Created, Versions, From
    <2>3. CASE b.on = {}
      <3>1. Versions # {}
        BY DEF Versions
      <3>2. b = Button("create", {"lead_form.manage"}, {}, "leadForms", <<"create">>)
        BY <1>1, <2>3, <3>1, OneCall, Variants DEF LeadFormSave, LeadFormSecret
      <3>3. b.calls[i] = <<"leadForms", "create">>
        BY <3>2, OneCall
      <3>4. QED
        BY <2>1, <2>2, <3>3
    <2>4. CASE b.on # {}
      <3>1. b.on = Versions /\ b.calls[i][2] \in {"update", "reveal", "rotate"}
        BY <1>1, <2>4, OneCall, Variants DEF LeadFormSave, LeadFormSecret
      <3>2. QED
        BY <2>1, <2>2, <2>4, <3>1
    <2>5. QED
      BY <2>3, <2>4
  <1>6. Steady("leadForms", b)
    BY <1>1, ServiceNames, OneCall, Variants DEF Steady, After, LeadFormSave, LeadFormSecret
  <1>7. QED
    BY <1>2, <1>3, <1>4, <1>5, <1>6 DEF ButtonRight

LEMMA LeadsPageRight ==
  ASSUME NEW b \in Pages["leads"].buttons
  PROVE  ButtonRight("leads", b)
  <1>1. /\ Pages["leads"].service = "leads"
        /\ b \in LeadRowButtons \cup {
                   Button("create", {"lead.create"}, {}, "leads", <<"create">>),
                   Button("edit", {"lead.update"}, LeadStatus, "leads", <<"update">>),
                   Button("delete", {"lead.update", "lead.delete"}, LeadStatus, "leads",
                          <<"remove">>)}
    BY DEF Pages, LeadsPage, Page
  <1>2. WellFormed(b)
    BY <1>1, OneCall, Variants DEF WellFormed, LeadRowButtons, ConvertLead, WhatsAppSend
  <1>3. Guarded("leads", b)
    BY <1>1, MenuIsSidebar, OneCall, Variants
       DEF Guarded, Sidebar, Needs, Controllers, LeadsController, WhatsappController,
           GuardGaps, LeadRowButtons, ConvertLead, WhatsAppSend
  <1>4. Quiet("leads", b)
    BY <1>1, ServiceNames, OneCall, Variants
       DEF Quiet, After, LeadRowButtons, ConvertLead, WhatsAppSend, LeadStatus, LeadsService,
           Created, From
  <1>5. Answered("leads", b)
    <2>1. SUFFICES
            ASSUME NEW r \in DOMAIN RolePermissions, NEW i \in DOMAIN b.calls,
                   NEW s \in LeadStatus \cup {"none"}, b.on = {} \/ s \in b.on,
                   b.calls[i][1] = "leads", b.calls[i][2] \in DOMAIN LeadsService,
                   s \notin DOMAIN LeadsService[b.calls[i][2]]
            PROVE  <<"leads", b.name, s>> \in ServiceGaps
      BY <1>1, Refusal, ServiceNames, StatusesByService DEF Answered, Controllers
    <2>2. /\ DOMAIN LeadsService["create"] = LeadStatus \cup {"none"}
          /\ DOMAIN LeadsService["update"] = {"NEW", "QUALIFIED"}
          /\ DOMAIN LeadsService["convert"] = {"NEW", "QUALIFIED"}
          /\ DOMAIN LeadsService["remove"] = LeadStatus
      BY DEF LeadsService, Created, LeadStatus, From
    <2>3. CASE b.name = "create"
      <3>1. b.on = {} /\ b.calls[i] = <<"leads", "create">>
        BY <1>1, <2>3, OneCall, Variants DEF LeadRowButtons, ConvertLead, WhatsAppSend
      <3>2. QED
        BY <2>1, <2>2, <2>3, <3>1 DEF ServiceGaps, LeadStatus, Versions
    <2>4. CASE b.name = "edit"
      <3>1. b.on = LeadStatus /\ b.calls[i] = <<"leads", "update">>
        BY <1>1, <2>4, OneCall, Variants DEF LeadRowButtons, ConvertLead, WhatsAppSend
      <3>2. QED
        BY <2>1, <2>2, <2>4, <3>1 DEF ServiceGaps, LeadStatus, Versions
    <2>5. CASE b.name = "delete"
      <3>1. b.on = LeadStatus /\ b.calls[i] = <<"leads", "remove">>
        BY <1>1, <2>5, OneCall, Variants DEF LeadRowButtons, ConvertLead, WhatsAppSend
      <3>2. QED
        BY <2>1, <2>2, <2>5, <3>1 DEF ServiceGaps, LeadStatus, Versions
    <2>6. CASE b.name = "whatsapp"
      <3>1. b.on = LeadStatus /\ b.calls[i] = <<"whatsapp", "send">>
        BY <1>1, <2>6, OneCall, Variants DEF LeadRowButtons, ConvertLead, WhatsAppSend
      <3>2. QED
        BY <2>1, <2>2, <2>6, <3>1 DEF ServiceGaps, LeadStatus, Versions
    <2>7. CASE b.name = "convert"
      <3>1. b.on = {"NEW", "QUALIFIED"} /\ b.calls[i] = <<"leads", "convert">>
        BY <1>1, <2>7, OneCall, Variants DEF LeadRowButtons, ConvertLead, WhatsAppSend
      <3>2. QED
        BY <2>1, <2>2, <2>7, <3>1 DEF ServiceGaps, LeadStatus, Versions
    <2>8. QED
      BY <1>1, <2>3, <2>4, <2>5, <2>6, <2>7, OneCall, Variants
         DEF LeadRowButtons, ConvertLead, WhatsAppSend
  <1>6. Steady("leads", b)
    BY <1>1, ServiceNames, OneCall, Variants
       DEF Steady, After, LeadRowButtons, ConvertLead, WhatsAppSend
  <1>7. QED
    BY <1>2, <1>3, <1>4, <1>5, <1>6 DEF ButtonRight

LEMMA MeetingsPageRight ==
  ASSUME NEW b \in Pages["meetings"].buttons
  PROVE  ButtonRight("meetings", b)
  <1>1. /\ Pages["meetings"].service = "meetings"
        /\ b \in CrudButtons("meetings", "meeting.create", "meeting.update", "meeting.delete")
    BY DEF Pages, MeetingsPage, Page
  <1>2. WellFormed(b)
    BY <1>1, OneCall DEF WellFormed, CrudButtons
  <1>3. Guarded("meetings", b)
    BY <1>1, MenuIsSidebar, OneCall
       DEF Guarded, Sidebar, Needs, Controllers, MeetingsController, GuardGaps, CrudButtons
  <1>4. /\ b.refreshes /\ DOMAIN b.calls = 1..1 /\ Len(b.calls) = 1
        /\ \/ b.on = {} /\ b.calls[1] = <<"meetings", "create">>
           \/ b.on = Versions /\ b.calls[1] = <<"meetings", "update">>
           \/ b.on = Versions /\ b.calls[1] = <<"meetings", "remove">>
    BY <1>1, OneCall DEF CrudButtons
  <1>5. "meetings" \in CrudNames
    BY DEF CrudNames
  <1>6. QED
    BY <1>1, <1>2, <1>3, <1>4, <1>5, CrudRight DEF ButtonRight

LEMMA PipelinePageRight ==
  ASSUME NEW b \in Pages["pipeline"].buttons
  PROVE  ButtonRight("pipeline", b)
  <1>1. /\ Pages["pipeline"].service = "pipelines"
        /\ b \in PipelineButtons
    BY DEF Pages, PipelinePage, Page
  <1>2. WellFormed(b)
    BY <1>1, OneCall, Variants DEF WellFormed, PipelineButtons
  <1>3. Guarded("pipeline", b)
    BY <1>1, MenuIsSidebar, OneCall, Variants
       DEF Guarded, Sidebar, Needs, Controllers, PipelinesController, GuardGaps, PipelineButtons
  <1>4. Quiet("pipeline", b)
    BY <1>1, ServiceNames, OneCall, Variants
       DEF Quiet, After, PipelineButtons
  <1>5. Answered("pipeline", b)
    <2>1. SUFFICES
            ASSUME NEW r \in DOMAIN RolePermissions, NEW i \in DOMAIN b.calls,
                   NEW s \in StageStatus \cup {"none"}, b.on = {} \/ s \in b.on,
                   b.calls[i][1] = "pipelines", b.calls[i][2] \in DOMAIN PipelinesService,
                   s \notin DOMAIN PipelinesService[b.calls[i][2]]
            PROVE  <<"pipeline", b.name, s>> \in ServiceGaps
      <3>1. /\ "pipelines" \in DOMAIN Controllers
            /\ StatusesOf["pipelines"] = StageStatus \cup {"none"}
            /\ \A r \in DOMAIN RolePermissions : ServiceOf(r, "pipelines") = PipelinesService
        BY ServiceNames, StatusesByService DEF Controllers
      <3>2. QED
        BY <1>1, <3>1, Refusal DEF Answered
    <2>2. /\ DOMAIN PipelinesService["addStage"] = StageStatus \cup {"none"}
          /\ DOMAIN PipelinesService["updateStage"] = StageStatus
          /\ DOMAIN PipelinesService["reorder"] = StageStatus
          /\ DOMAIN PipelinesService["removeStage"] = {"empty"}
      BY DEF PipelinesService, StageStatus, From
    <2>3. CASE b.name = "add"
      <3>1. b.on = StageStatus \cup {"none"} /\ b.calls[i] = <<"pipelines", "addStage">>
        BY <1>1, <2>3, OneCall, Variants DEF PipelineButtons
      <3>2. QED
        BY <2>1, <2>2, <2>3, <3>1 DEF ServiceGaps, StageStatus, Versions
    <2>4. CASE b.name = "patch"
      <3>1. b.on = StageStatus /\ b.calls[i] = <<"pipelines", "updateStage">>
        BY <1>1, <2>4, OneCall, Variants DEF PipelineButtons
      <3>2. QED
        BY <2>1, <2>2, <2>4, <3>1 DEF ServiceGaps, StageStatus, Versions
    <2>5. CASE b.name = "move"
      <3>1. b.on = StageStatus \ {"only"} /\ b.calls[i] = <<"pipelines", "reorder">>
        BY <1>1, <2>5, OneCall, Variants DEF PipelineButtons
      <3>2. QED
        BY <2>1, <2>2, <2>5, <3>1 DEF ServiceGaps, StageStatus, Versions
    <2>6. CASE b.name = "remove"
      <3>1. b.on = StageStatus /\ b.calls[i] = <<"pipelines", "removeStage">>
        BY <1>1, <2>6, OneCall, Variants DEF PipelineButtons
      <3>2. QED
        BY <2>1, <2>2, <2>6, <3>1 DEF ServiceGaps, StageStatus, Versions
    <2>7. QED
      BY <1>1, <2>3, <2>4, <2>5, <2>6, OneCall, Variants DEF PipelineButtons
  <1>6. Steady("pipeline", b)
    BY <1>1, ServiceNames, OneCall, Variants DEF Steady, After, PipelineButtons
  <1>7. QED
    BY <1>2, <1>3, <1>4, <1>5, <1>6 DEF ButtonRight

LEMMA ProductsPageRight ==
  ASSUME NEW b \in Pages["products"].buttons
  PROVE  ButtonRight("products", b)
  <1>1. /\ Pages["products"].service = "products"
        /\ b \in CrudButtons("products", "product.create", "product.update", "product.delete")
    BY DEF Pages, ProductsPage, Page
  <1>2. WellFormed(b)
    BY <1>1, OneCall DEF WellFormed, CrudButtons
  <1>3. Guarded("products", b)
    BY <1>1, MenuIsSidebar, OneCall
       DEF Guarded, Sidebar, Needs, Controllers, ProductsController, GuardGaps, CrudButtons
  <1>4. /\ b.refreshes /\ DOMAIN b.calls = 1..1 /\ Len(b.calls) = 1
        /\ \/ b.on = {} /\ b.calls[1] = <<"products", "create">>
           \/ b.on = Versions /\ b.calls[1] = <<"products", "update">>
           \/ b.on = Versions /\ b.calls[1] = <<"products", "remove">>
    BY <1>1, OneCall DEF CrudButtons
  <1>5. "products" \in CrudNames
    BY DEF CrudNames
  <1>6. QED
    BY <1>1, <1>2, <1>3, <1>4, <1>5, CrudRight DEF ButtonRight

LEMMA QuotesPageRight ==
  ASSUME NEW b \in Pages["quotes"].buttons
  PROVE  ButtonRight("quotes", b)
  <1>1. /\ Pages["quotes"].service = "quotes"
        /\ b \in QuoteButtons \cup {QuoteForm}
    BY DEF Pages, QuotesPage, Page
  <1>2. WellFormed(b)
    BY <1>1, OneCall, Variants DEF WellFormed, QuoteButtons, WhatsAppSend, QuoteForm
  <1>3. Guarded("quotes", b)
    BY <1>1, MenuIsSidebar, OneCall, Variants
       DEF Guarded, Sidebar, Needs, Controllers, QuotesController, WhatsappController,
           GuardGaps, QuoteButtons, WhatsAppSend, QuoteForm
  <1>4. Quiet("quotes", b)
    <2>1. b.refreshes \/ \A i \in DOMAIN b.calls : b.calls[i][1] = "whatsapp"
      BY <1>1, OneCall, Variants DEF QuoteButtons, WhatsAppSend, QuoteForm
    <2>2. QED
      BY <1>1, <2>1 DEF Quiet, After
  <1>5. Answered("quotes", b)
    <2>1. SUFFICES
            ASSUME NEW r \in DOMAIN RolePermissions, NEW i \in DOMAIN b.calls,
                   NEW s \in QuoteStatus \cup {"none"}, b.on = {} \/ s \in b.on,
                   b.calls[i][1] = "quotes", b.calls[i][2] \in DOMAIN QuotesService,
                   s \notin DOMAIN QuotesService[b.calls[i][2]]
            PROVE  <<"quotes", b.name, s>> \in ServiceGaps
      BY <1>1, Refusal, ServiceNames, StatusesByService DEF Answered, Controllers
    <2>2. /\ DOMAIN QuotesService["create"] = QuoteStatus \cup {"none"}
          /\ DOMAIN QuotesService["send"] = {"DRAFT"}
          /\ DOMAIN QuotesService["accept"] = {"SENT"}
          /\ DOMAIN QuotesService["reject"] = {"DRAFT", "SENT"}
          /\ DOMAIN QuotesService["convert"] = {"SENT", "ACCEPTED"}
          /\ DOMAIN QuotesService["remove"] = QuoteStatus \ {"CONVERTED"}
      BY DEF QuotesService, Created, QuoteStatus, From
    <2>3. CASE b.name = "send"
      <3>1. b.on = {"DRAFT"} /\ b.calls[i] = <<"quotes", "send">>
        BY <1>1, <2>3, OneCall, Variants DEF QuoteButtons, WhatsAppSend, QuoteForm
      <3>2. QED
        BY <2>1, <2>2, <2>3, <3>1 DEF ServiceGaps, QuoteStatus, Versions
    <2>4. CASE b.name = "accept"
      <3>1. b.on = {"SENT"} /\ b.calls[i] = <<"quotes", "accept">>
        BY <1>1, <2>4, OneCall, Variants DEF QuoteButtons, WhatsAppSend, QuoteForm
      <3>2. QED
        BY <2>1, <2>2, <2>4, <3>1 DEF ServiceGaps, QuoteStatus, Versions
    <2>5. CASE b.name = "reject"
      <3>1. b.on = {"SENT"} /\ b.calls[i] = <<"quotes", "reject">>
        BY <1>1, <2>5, OneCall, Variants DEF QuoteButtons, WhatsAppSend, QuoteForm
      <3>2. QED
        BY <2>1, <2>2, <2>5, <3>1 DEF ServiceGaps, QuoteStatus, Versions
    <2>6. CASE b.name = "convert"
      <3>1. b.on = {"SENT", "ACCEPTED"} /\ b.calls[i] = <<"quotes", "convert">>
        BY <1>1, <2>6, OneCall, Variants DEF QuoteButtons, WhatsAppSend, QuoteForm
      <3>2. QED
        BY <2>1, <2>2, <2>6, <3>1 DEF ServiceGaps, QuoteStatus, Versions
    <2>7. CASE b.name = "delete"
      <3>1. b.on = QuoteStatus \ {"CONVERTED"} /\ b.calls[i] = <<"quotes", "remove">>
        BY <1>1, <2>7, OneCall, Variants DEF QuoteButtons, WhatsAppSend, QuoteForm
      <3>2. QED
        BY <2>1, <2>2, <2>7, <3>1 DEF ServiceGaps, QuoteStatus, Versions
    <2>8. CASE b.name = "whatsapp"
      <3>1. b.on = QuoteStatus \ {"DRAFT"} /\ b.calls[i] = <<"whatsapp", "send">>
        BY <1>1, <2>8, OneCall, Variants DEF QuoteButtons, WhatsAppSend, QuoteForm
      <3>2. QED
        BY <2>1, <2>2, <2>8, <3>1 DEF ServiceGaps, QuoteStatus, Versions
    <2>9. CASE b.name = "create"
      <3>1. b.on = {} /\ b.calls[i] = <<"quotes", "create">>
        BY <1>1, <2>9, OneCall, Variants DEF QuoteButtons, WhatsAppSend, QuoteForm
      <3>2. QED
        BY <2>1, <2>2, <2>9, <3>1 DEF ServiceGaps, QuoteStatus, Versions
    <2>10. QED
      BY <1>1, <2>3, <2>4, <2>5, <2>6, <2>7, <2>8, <2>9, OneCall, Variants
         DEF QuoteButtons, WhatsAppSend, QuoteForm
  <1>6. Steady("quotes", b)
    BY <1>1, ServiceNames, OneCall, Variants
       DEF Steady, After, QuoteButtons, WhatsAppSend, QuoteForm
  <1>7. QED
    BY <1>2, <1>3, <1>4, <1>5, <1>6 DEF ButtonRight

LEMMA RolesPageRight ==
  ASSUME NEW b \in Pages["roles"].buttons
  PROVE  ButtonRight("roles", b)
  <1>1. /\ Pages["roles"].service = "roles"
        /\ b \in RoleButtons
    BY DEF Pages, RolesPage, Page
  <1>2. WellFormed(b)
    BY <1>1, OneCall, TwoCalls DEF WellFormed, RoleButtons
  <1>3. Guarded("roles", b)
    BY <1>1, MenuIsSidebar, OneCall, TwoCalls
       DEF Guarded, Sidebar, Needs, Controllers, RolesController, GuardGaps, RoleButtons
  <1>4. Quiet("roles", b)
    BY <1>1, ServiceNames, OneCall, TwoCalls
       DEF Quiet, After, RoleButtons, RoleStatus, Versions, RolesService, Created, From
  <1>5. Answered("roles", b)
    <2>1. SUFFICES
            ASSUME NEW r \in DOMAIN RolePermissions, NEW i \in DOMAIN b.calls,
                   NEW s \in RoleStatus \cup {"none"}, b.on = {} \/ s \in b.on,
                   b.calls[i][1] = "roles", b.calls[i][2] \in DOMAIN RolesService,
                   s \notin DOMAIN RolesService[b.calls[i][2]]
            PROVE  <<"roles", b.name, s>> \in ServiceGaps
      BY <1>1, Refusal, ServiceNames, StatusesByService DEF Answered, Controllers
    <2>2. /\ DOMAIN RolesService["create"] = RoleStatus \cup {"none"}
          /\ DOMAIN RolesService["update"] = RoleStatus
          /\ DOMAIN RolesService["assignPermissions"] = Versions
          /\ DOMAIN RolesService["remove"] = Versions
      BY DEF RolesService, Created, RoleStatus, Versions, From
    <2>3. CASE b.name = "create"
      <3>1. b.on = {} /\ b.calls[i] = <<"roles", "create">>
        BY <1>1, <2>3, OneCall, TwoCalls DEF RoleButtons
      <3>2. QED
        BY <2>1, <2>2, <2>3, <3>1 DEF ServiceGaps, RoleStatus, Versions
    <2>4. CASE b.name = "save"
      <3>1. /\ b.on = RoleStatus
            /\ b.calls[i] = <<"roles", "update">> \/ b.calls[i] = <<"roles", "assignPermissions">>
        BY <1>1, <2>4, OneCall, TwoCalls DEF RoleButtons
      <3>2. QED
        BY <2>1, <2>2, <2>4, <3>1 DEF ServiceGaps, RoleStatus, Versions
    <2>5. CASE b.name = "delete"
      <3>1. b.on = RoleStatus /\ b.calls[i] = <<"roles", "remove">>
        BY <1>1, <2>5, OneCall, TwoCalls DEF RoleButtons
      <3>2. QED
        BY <2>1, <2>2, <2>5, <3>1 DEF ServiceGaps, RoleStatus, Versions
    <2>6. QED
      BY <1>1, <2>3, <2>4, <2>5, OneCall, TwoCalls DEF RoleButtons
  <1>6. Steady("roles", b)
    <2>1. SUFFICES
            ASSUME NEW r \in DOMAIN RolePermissions, NEW i \in DOMAIN b.calls, i < Len(b.calls),
                   NEW s \in b.on
            PROVE  After(r, "roles", b.calls[i], s) \subseteq b.on
      BY <1>1 DEF Steady
    <2>2. b.name = "save"
      BY <1>1, <2>1, OneCall, TwoCalls DEF RoleButtons
    <2>3. CASE b.name = "save"
      <3>1. /\ b.on = RoleStatus
            /\ DOMAIN b.calls = 1..2 /\ Len(b.calls) = 2
            /\ b.calls[1] = <<"roles", "update">>
        BY <1>1, <2>3, OneCall, TwoCalls DEF RoleButtons
      <3>2. i = 1
        BY <2>1, <3>1
      <3>3. ServiceOf(r, "roles") = RolesService
        BY ServiceNames
      <3>4. QED
        BY <2>1, <3>1, <3>2, <3>3 DEF After, RoleStatus, RolesService, Created, Versions, From
    <2>4. QED
      BY <2>2, <2>3
  <1>7. QED
    BY <1>2, <1>3, <1>4, <1>5, <1>6 DEF ButtonRight

LEMMA TenantsPageRight ==
  ASSUME NEW b \in Pages["tenants"].buttons
  PROVE  ButtonRight("tenants", b)
  <1>1. /\ Pages["tenants"].service = "tenants"
        /\ b \in {Button("create", {}, {}, "tenants", <<"create">>)}
    BY DEF Pages, TenantsPage, Page
  <1>2. WellFormed(b)
    BY <1>1, OneCall DEF WellFormed
  <1>3. Guarded("tenants", b)
    BY <1>1, MenuIsSidebar, OneCall
       DEF Guarded, Sidebar, Needs, Controllers, TenantsController, GuardGaps
  <1>4. Quiet("tenants", b)
    BY <1>1, ServiceNames, OneCall DEF Quiet, After, TenantsService, Rows, Created, Versions, From
  <1>5. Answered("tenants", b)
    <2>1. SUFFICES
            ASSUME NEW r \in DOMAIN RolePermissions, NEW i \in DOMAIN b.calls,
                   NEW s \in Versions \cup {"none"}, b.on = {} \/ s \in b.on,
                   b.calls[i][1] = "tenants", b.calls[i][2] \in DOMAIN TenantsService,
                   s \notin DOMAIN TenantsService[b.calls[i][2]]
            PROVE  <<"tenants", b.name, s>> \in ServiceGaps
      <3>1. /\ "tenants" \in DOMAIN Controllers
            /\ StatusesOf["tenants"] = Versions \cup {"none"}
            /\ \A r \in DOMAIN RolePermissions : ServiceOf(r, "tenants") = TenantsService
        BY ServiceNames, StatusesByService DEF Controllers
      <3>2. QED
        BY <1>1, <3>1, Refusal DEF Answered
    <2>2. /\ DOMAIN TenantsService["create"] = Versions \cup {"none"}
      BY DEF TenantsService, Rows, Created, Versions, From
    <2>3. QED
      BY <1>1, <2>1, <2>2, OneCall DEF ServiceGaps, Versions
  <1>6. Steady("tenants", b)
    BY <1>1, ServiceNames, OneCall DEF Steady, After
  <1>7. QED
    BY <1>2, <1>3, <1>4, <1>5, <1>6 DEF ButtonRight

LEMMA UsersPageRight ==
  ASSUME NEW b \in Pages["users"].buttons
  PROVE  ButtonRight("users", b)
  <1>1. /\ Pages["users"].service = "users"
        /\ b \in UserEditButtons \cup {Button("create", {"user.create"}, {}, "users", <<"create">>)}
    BY DEF Pages, UsersPage, Page
  <1>2. WellFormed(b)
    BY <1>1, OneCall, TwoCalls, ThreeCalls DEF WellFormed, UserEditButtons
  <1>3. Guarded("users", b)
    BY <1>1, MenuIsSidebar, OneCall, TwoCalls, ThreeCalls
       DEF Guarded, Sidebar, Needs, Controllers, UsersController, GuardGaps, UserEditButtons
  <1>4. Quiet("users", b)
    BY <1>1, ServiceNames, OneCall, TwoCalls, ThreeCalls
       DEF Quiet, After, UserEditButtons, UserStatus, UsersService, Created, From
  <1>5. Answered("users", b)
    <2>1. SUFFICES
            ASSUME NEW r \in DOMAIN RolePermissions, NEW i \in DOMAIN b.calls,
                   NEW s \in UserStatus \cup {"none"}, b.on = {} \/ s \in b.on,
                   b.calls[i][1] = "users", b.calls[i][2] \in DOMAIN UsersService,
                   s \notin DOMAIN UsersService[b.calls[i][2]]
            PROVE  <<"users", b.name, s>> \in ServiceGaps
      BY <1>1, Refusal, ServiceNames, StatusesByService DEF Answered, Controllers
    <2>2. /\ DOMAIN UsersService["create"] = UserStatus \cup {"none"}
          /\ DOMAIN UsersService["update"] = UserStatus
          /\ DOMAIN UsersService["setStatus"] = {"active", "passive"}
          /\ DOMAIN UsersService["assignRoles"] = UserStatus
          /\ DOMAIN UsersService["assignRolesButAdmin"] = {"active", "passive"}
          /\ DOMAIN UsersService["remove"] = {"active", "passive"}
      BY DEF UsersService, Created, UserStatus, From
    <2>3. b.name = "create" => b.calls[i] = <<"users", "create">>
      BY <1>1, OneCall, TwoCalls, ThreeCalls DEF UserEditButtons
    <2>4. b.name # "create" => b.on = UserStatus /\ b.calls[i][2] # "create"
      BY <1>1, OneCall, TwoCalls, ThreeCalls DEF UserEditButtons
    <2>5. b.name \in {"save", "saveRoles"} => b.calls[i][2] \in {"update", "assignRoles"}
      BY <1>1, OneCall, TwoCalls, ThreeCalls DEF UserEditButtons
    <2>6. b.name \in {"create", "save", "saveRoles", "saveStatus", "saveAll", "saveDemoted",
                      "saveAllDemoted", "delete"}
      BY <1>1, OneCall, TwoCalls, ThreeCalls DEF UserEditButtons
    <2>7. b.name \notin {"create", "save", "saveRoles"}
      BY <2>1, <2>2, <2>3, <2>4, <2>5 DEF UserStatus
    <2>8. s = "last"
      <3>1. s \in UserStatus
        BY <2>1, <2>4, <2>7 DEF UserStatus
      <3>2. b.calls[i][2] \in {"update", "setStatus", "assignRoles", "assignRolesButAdmin", "remove"}
        BY <2>1, <2>4, <2>7 DEF UsersService
      <3>3. QED
        BY <2>1, <2>2, <3>1, <3>2 DEF UserStatus
    <2>9. QED
      BY <2>6, <2>7, <2>8 DEF ServiceGaps
  <1>6. Steady("users", b)
    <2>1. SUFFICES
            ASSUME NEW r \in DOMAIN RolePermissions, NEW i \in DOMAIN b.calls, i < Len(b.calls),
                   NEW s \in b.on
            PROVE  After(r, "users", b.calls[i], s) \subseteq b.on
      BY <1>1 DEF Steady
    <2>2. \/ b.name = "saveStatus" \/ b.name \in {"saveRoles", "saveDemoted"}
          \/ b.name \in {"saveAll", "saveAllDemoted"}
      BY <1>1, <2>1, OneCall, TwoCalls, ThreeCalls DEF UserEditButtons
    <2>3. CASE b.name = "saveStatus"
      <3>1. /\ b.on = UserStatus
            /\ DOMAIN b.calls = 1..2 /\ Len(b.calls) = 2
            /\ b.calls[1] = <<"users", "update">>
        BY <1>1, <2>3, OneCall, TwoCalls, ThreeCalls DEF UserEditButtons
      <3>2. i = 1
        BY <2>1, <3>1
      <3>3. ServiceOf(r, "users") = UsersService
        BY ServiceNames
      <3>4. QED
        BY <2>1, <3>1, <3>2, <3>3 DEF After, UserStatus, UsersService, Created, From
    <2>4. CASE b.name \in {"saveRoles", "saveDemoted"}
      <3>1. /\ b.on = UserStatus
            /\ DOMAIN b.calls = 1..2 /\ Len(b.calls) = 2
            /\ b.calls[1] = <<"users", "update">>
        BY <1>1, <2>4, OneCall, TwoCalls, ThreeCalls DEF UserEditButtons
      <3>2. i = 1
        BY <2>1, <3>1
      <3>3. ServiceOf(r, "users") = UsersService
        BY ServiceNames
      <3>4. QED
        BY <2>1, <3>1, <3>2, <3>3 DEF After, UserStatus, UsersService, Created, From
    <2>5. CASE b.name \in {"saveAll", "saveAllDemoted"}
      <3>1. /\ b.on = UserStatus
            /\ DOMAIN b.calls = 1..3 /\ Len(b.calls) = 3
            /\ b.calls[1] = <<"users", "update">> /\ b.calls[2] = <<"users", "setStatus">>
        BY <1>1, <2>5, OneCall, TwoCalls, ThreeCalls DEF UserEditButtons
      <3>2. i = 1 \/ i = 2
        BY <2>1, <3>1
      <3>3. ServiceOf(r, "users") = UsersService
        BY ServiceNames
      <3>4. QED
        BY <2>1, <3>1, <3>2, <3>3 DEF After, UserStatus, UsersService, Created, From
    <2>6. QED
      BY <2>2, <2>3, <2>4, <2>5
  <1>7. QED
    BY <1>2, <1>3, <1>4, <1>5, <1>6 DEF ButtonRight

LEMMA WhatsAppPageRight ==
  ASSUME NEW b \in Pages["whatsapp"].buttons
  PROVE  ButtonRight("whatsapp", b)
  <1>1. /\ Pages["whatsapp"].service = "whatsapp"
        /\ b \in {Repeatable(Button("send", {"whatsapp.send"}, ConversationStatus, "whatsapp",
                               <<"send">>))}
    BY DEF Pages, WhatsAppPage, Page
  <1>2. WellFormed(b)
    BY <1>1, OneCall, Variants DEF WellFormed
  <1>3. Guarded("whatsapp", b)
    BY <1>1, MenuIsSidebar, OneCall, Variants
       DEF Guarded, Sidebar, Needs, Controllers, WhatsappController, GuardGaps
  <1>4. Quiet("whatsapp", b)
    BY <1>1, OneCall, Variants DEF Quiet
  <1>5. Answered("whatsapp", b)
    <2>1. SUFFICES
            ASSUME NEW r \in DOMAIN RolePermissions, NEW i \in DOMAIN b.calls,
                   NEW s \in ConversationStatus \cup {"none"}, b.on = {} \/ s \in b.on,
                   b.calls[i][1] = "whatsapp", b.calls[i][2] \in DOMAIN WhatsappService,
                   s \notin DOMAIN WhatsappService[b.calls[i][2]]
            PROVE  <<"whatsapp", b.name, s>> \in ServiceGaps
      BY <1>1, Refusal, ServiceNames, StatusesByService DEF Answered, Controllers
    <2>2. /\ DOMAIN WhatsappService["send"] = Versions \cup {"none"}
      BY DEF WhatsappService, Versions
    <2>3. QED
      BY <1>1, <2>1, <2>2, OneCall, Variants DEF ServiceGaps, ConversationStatus, Versions
  <1>6. Steady("whatsapp", b)
    BY <1>1, ServiceNames, OneCall, Variants DEF Steady, After
  <1>7. QED
    BY <1>2, <1>3, <1>4, <1>5, <1>6 DEF ButtonRight

LEMMA PagesRight ==
  ASSUME NEW p \in DOMAIN Pages
  PROVE  /\ Pages[p].service \in DOMAIN Controllers
         /\ \A b \in Pages[p].buttons : ButtonRight(p, b)
  <1>1. CASE p = "ai"
    BY <1>1, AiPageRight DEF Pages, AiPage, Page, Controllers
  <1>2. CASE p = "audit"
    BY <1>2 DEF Pages, AuditPage, Page, Controllers
  <1>3. CASE p = "automation"
    BY <1>3, AutomationPageRight DEF Pages, AutomationPage, Page, Controllers
  <1>4. CASE p = "branding"
    BY <1>4, BrandingPageRight DEF Pages, BrandingPage, Page, Controllers
  <1>5. CASE p = "companies"
    BY <1>5, CompaniesPageRight DEF Pages, CompaniesPage, Page, Controllers
  <1>6. CASE p = "connections"
    BY <1>6, ConnectionsPageRight DEF Pages, ConnectionsPage, Page, Controllers
  <1>7. CASE p = "contacts"
    BY <1>7, ContactsPageRight DEF Pages, ContactsPage, Page, Controllers
  <1>8. CASE p = "customFields"
    BY <1>8, CustomFieldsPageRight DEF Pages, CustomFieldsPage, Page, Controllers
  <1>9. CASE p = "data"
    BY <1>9, DataPageRight DEF Pages, DataPage, Page, Controllers
  <1>10. CASE p = "deals"
    BY <1>10, DealsPageRight DEF Pages, DealsPage, Page, Controllers
  <1>11. CASE p = "home"
    BY <1>11 DEF Pages, HomePage, Page, Controllers
  <1>12. CASE p = "integrations"
    BY <1>12, IntegrationsPageRight DEF Pages, IntegrationsPage, Page, Controllers
  <1>13. CASE p = "invoices"
    BY <1>13, InvoicesPageRight DEF Pages, InvoicesPage, Page, Controllers
  <1>14. CASE p = "leadForms"
    BY <1>14, LeadFormsPageRight DEF Pages, LeadFormsPage, Page, Controllers
  <1>15. CASE p = "leads"
    BY <1>15, LeadsPageRight DEF Pages, LeadsPage, Page, Controllers
  <1>16. CASE p = "meetings"
    BY <1>16, MeetingsPageRight DEF Pages, MeetingsPage, Page, Controllers
  <1>17. CASE p = "pipeline"
    BY <1>17, PipelinePageRight DEF Pages, PipelinePage, Page, Controllers
  <1>18. CASE p = "products"
    BY <1>18, ProductsPageRight DEF Pages, ProductsPage, Page, Controllers
  <1>19. CASE p = "quotes"
    BY <1>19, QuotesPageRight DEF Pages, QuotesPage, Page, Controllers
  <1>20. CASE p = "reports"
    BY <1>20 DEF Pages, ReportsPage, Page, Controllers
  <1>21. CASE p = "roles"
    BY <1>21, RolesPageRight DEF Pages, RolesPage, Page, Controllers
  <1>22. CASE p = "search"
    BY <1>22 DEF Pages, SearchPage, Page, Controllers
  <1>23. CASE p = "tenants"
    BY <1>23, TenantsPageRight DEF Pages, TenantsPage, Page, Controllers
  <1>24. CASE p = "users"
    BY <1>24, UsersPageRight DEF Pages, UsersPage, Page, Controllers
  <1>25. CASE p = "whatsapp"
    BY <1>25, WhatsAppPageRight DEF Pages, WhatsAppPage, Page, Controllers
  <1>26. QED
    BY <1>1, <1>2, <1>3, <1>4, <1>5, <1>6, <1>7, <1>8, <1>9, <1>10, <1>11, <1>12, <1>13, <1>14,
       <1>15, <1>16, <1>17, <1>18, <1>19, <1>20, <1>21, <1>22, <1>23, <1>24, <1>25 DEF Pages

(* Who gets to a page is allowed what it asks for, outside the known gaps. *)
LEMMA PagesAnswered ==
  ASSUME NEW perms \in SUBSET AllPermissions, NEW p \in DOMAIN Pages, Reachable(p, perms)
  PROVE  \A q \in Asked(p, perms) :
           \/ CanActivate(Needs(q.call), perms)
           \/ <<p, q.call[1]>> \in QueryGaps \/ LinkGap(p, perms)
  <1>1. Asked("data", perms) = {}
    <2>1. \A q \in Pages["data"].further \cup {Pages["data"].main} : q.shown = {"no query"}
      <3>1. /\ Pages["data"].main = Query("data", "export", {"no query"})
            /\ Pages["data"].further = {}
        BY DEF Pages, DataPage, Page
      <3>2. Query("data", "export", {"no query"}).shown = {"no query"}
        BY DEF Query
      <3>3. QED
        BY <3>1, <3>2
    <2>2. "no query" \notin AllPermissions
      BY DEF AllPermissions
    <2>3. QED
      BY <2>1, <2>2 DEF Asked
  <1> USE MenuIsSidebar DEF Sidebar, Asked, CanActivate, Needs, Controllers, QueryGaps, Query
  <1>2. CASE p = "ai"
    <2>1. /\ Pages["ai"].main = Query("ai", "status", {})
          /\ Pages["ai"].further = {}
      BY DEF Pages, AiPage, Page
    <2>2. QED
      BY <1>2, <2>1 DEF AiController
  <1>3. CASE p = "audit"
    <2>1. /\ Pages["audit"].main = Query("audit", "list", {})
          /\ Pages["audit"].further = {}
      BY DEF Pages, AuditPage, Page
    <2>2. QED
      BY <1>3, <2>1 DEF AuditController
  <1>4. CASE p = "automation"
    <2>1. /\ Pages["automation"].main = Query("automation", "findAll", {})
          /\ Pages["automation"].further = {}
      BY DEF Pages, AutomationPage, Page
    <2>2. QED
      BY <1>4, <2>1 DEF AutomationController
  <1>5. CASE p = "branding"
    <2>1. /\ Pages["branding"].main = Query("branding", "get", {})
          /\ Pages["branding"].further = {}
      BY DEF Pages, BrandingPage, Page
    <2>2. QED
      BY <1>5, <2>1 DEF BrandingController
  <1>6. CASE p = "companies"
    <2>1. /\ Pages["companies"].main = Query("companies", "findAll", {})
          /\ Pages["companies"].further = {}
      BY DEF Pages, CompaniesPage, Page
    <2>2. QED
      BY <1>6, <2>1 DEF CompaniesController
  <1>7. CASE p = "connections"
    <2>1. /\ Pages["connections"].main = Query("connections", "list", {})
          /\ Pages["connections"].further = {Query("connections", "catalog", {})}
      BY DEF Pages, ConnectionsPage, Page
    <2>2. QED
      BY <1>7, <2>1 DEF ConnectionsController
  <1>8. CASE p = "contacts"
    <2>1. /\ Pages["contacts"].main = Query("contacts", "findAll", {})
          /\ Pages["contacts"].further = {Query("companies", "findAll", {"company.read"})}
      BY DEF Pages, ContactsPage, Page
    <2>2. QED
      BY <1>8, <2>1 DEF CompaniesController, ContactsController
  <1>9. CASE p = "customFields"
    <2>1. /\ Pages["customFields"].main = Query("customFields", "findAll", {})
          /\ Pages["customFields"].further = {}
      BY DEF Pages, CustomFieldsPage, Page
    <2>2. QED
      BY <1>9, <2>1 DEF CustomFieldsController
  <1>10. CASE p = "data"
      BY <1>10, <1>1 DEF Asked
  <1>11. CASE p = "deals"
    <2>1. /\ Pages["deals"].main = Query("deals", "board", {})
          /\ Pages["deals"].further = DealsQueries
      BY DEF Pages, DealsPage, Page
    <2>2. QED
      BY <1>11, <2>1 DEF DealsQueries, DealsController
  <1>12. CASE p = "home"
    <2>1. /\ Pages["home"].main = Query("reports", "forecast", {"deal.read"})
          /\ Pages["home"].further = HomeQueries
      BY DEF Pages, HomePage, Page
    <2>2. QED
      BY <1>12, <2>1 DEF HomeQueries, ReportsController
  <1>13. CASE p = "integrations"
    <2>1. /\ Pages["integrations"].main = Query("integrations", "list", {})
          /\ Pages["integrations"].further = IntegrationsQueries
      BY DEF Pages, IntegrationsPage, Page
    <2>2. QED
      BY <1>13, <2>1 DEF IntegrationsQueries, IntegrationsController
  <1>14. CASE p = "invoices"
    <2>1. /\ Pages["invoices"].main = Query("invoices", "findAll", {})
          /\ Pages["invoices"].further = {}
      BY DEF Pages, InvoicesPage, Page
    <2>2. QED
      BY <1>14, <2>1 DEF InvoicesController
  <1>15. CASE p = "leadForms"
    <2>1. /\ Pages["leadForms"].main = Query("leadForms", "findAll", {})
          /\ Pages["leadForms"].further = {}
      BY DEF Pages, LeadFormsPage, Page
    <2>2. QED
      BY <1>15, <2>1 DEF LeadFormsController
  <1>16. CASE p = "leads"
    <2>1. /\ Pages["leads"].main = Query("leads", "findAll", {})
          /\ Pages["leads"].further = {ConvertLeadAsks}
      BY DEF Pages, LeadsPage, Page
    <2>2. QED
      BY <1>16, <2>1 DEF ConvertLeadAsks, LeadsController
  <1>17. CASE p = "meetings"
    <2>1. /\ Pages["meetings"].main = Query("meetings", "findAll", {})
          /\ Pages["meetings"].further = {}
      BY DEF Pages, MeetingsPage, Page
    <2>2. QED
      BY <1>17, <2>1 DEF MeetingsController
  <1>18. CASE p = "pipeline"
    <2>1. /\ Pages["pipeline"].main = Query("pipelines", "list", {})
          /\ Pages["pipeline"].further = {}
      BY DEF Pages, PipelinePage, Page
    <2>2. QED
      BY <1>18, <2>1 DEF PipelinesController
  <1>19. CASE p = "products"
    <2>1. /\ Pages["products"].main = Query("products", "findAll", {})
          /\ Pages["products"].further = {}
      BY DEF Pages, ProductsPage, Page
    <2>2. QED
      BY <1>19, <2>1 DEF ProductsController
  <1>20. CASE p = "quotes"
    <2>1. /\ Pages["quotes"].main = Query("quotes", "findAll", {})
          /\ Pages["quotes"].further = QuotesQueries
      BY DEF Pages, QuotesPage, Page
    <2>2. QED
      BY <1>20, <2>1 DEF QuotesQueries, ProductsController, QuotesController
  <1>21. CASE p = "reports"
    <2>1. /\ Pages["reports"].main = Query("reports", "forecast", {})
          /\ Pages["reports"].further = ReportsQueries
      BY DEF Pages, ReportsPage, Page
    <2>2. QED
      BY <1>21, <2>1 DEF ReportsQueries, DealsController, ReportsController
  <1>22. CASE p = "roles"
    <2>1. /\ Pages["roles"].main = Query("roles", "findAll", {})
          /\ Pages["roles"].further = {}
      BY DEF Pages, RolesPage, Page
    <2>2. QED
      BY <1>22, <2>1 DEF RolesController
  <1>23. CASE p = "search"
    <2>1. /\ Pages["search"].main = Query("search", "search", {})
          /\ Pages["search"].further = {}
      BY DEF Pages, SearchPage, Page
    <2>2. QED
      BY <1>23, <2>1 DEF SearchController
  <1>24. CASE p = "tenants"
    <2>1. /\ Pages["tenants"].main = Query("tenants", "list", {})
          /\ Pages["tenants"].further = {}
      BY DEF Pages, TenantsPage, Page
    <2>2. QED
      BY <1>24, <2>1 DEF TenantsController
  <1>25. CASE p = "users"
    <2>1. /\ Pages["users"].main = Query("users", "findAll", {})
          /\ Pages["users"].further = {UserEditAsks("role.read"), UserEditAsks("role.assign")}
      BY DEF Pages, UsersPage, Page
    <2>2. QED
      BY <1>25, <2>1 DEF UserEditAsks, RolesController, UsersController
  <1>26. CASE p = "whatsapp"
    <2>1. /\ Pages["whatsapp"].main = Query("whatsapp", "conversations", {})
          /\ Pages["whatsapp"].further =
               {Query("whatsapp", "status", {}), Query("whatsapp", "thread", {})}
      BY DEF Pages, WhatsAppPage, Page
    <2>2. QED
      BY <1>26, <2>1 DEF WhatsappController
  <1>27. QED
    BY <1>2, <1>3, <1>4, <1>5, <1>6, <1>7, <1>8, <1>9, <1>10, <1>11, <1>12, <1>13, <1>14,
       <1>15, <1>16, <1>17, <1>18, <1>19, <1>20, <1>21, <1>22, <1>23, <1>24, <1>25, <1>26 DEF Pages

-----------------------------------------------------------------------------
(* The states of the tab.  TabTypeOK, its saves as records, in parts: *)
SessionTyped ==
  /\ role \in Roles /\ granted \subseteq AllPermissions /\ edits \in 0..MaxEdits
  /\ token \in {"none", "kept"}
  /\ user # Nothing => user \subseteq AllPermissions /\ token # "none"

ViewTyped ==
  /\ behind \in BOOLEAN
  /\ IF page = "login" THEN row = "none" /\ list = Nothing /\ fetch = Nothing
     ELSE /\ page \in DOMAIN Pages /\ row \in StatusesOf[Service]
          /\ list \in StatusesOf[Service] \cup {Nothing}
          /\ fetch \in StatusesOf[Service] \cup {Nothing, "asked", "refused"}

SaveOf(p, x) == x \in Save /\ x.button \in Pages[p].buttons /\ x.call \in 1..Len(x.button.calls)

SavesTyped ==
  /\ DOMAIN saves = Slots /\ saves = [i \in Slots |-> saves[i]]
  /\ page = "login" => saves = NoSave
  /\ \A i \in Slots : saves[i] = Nothing \/ SaveOf(page, saves[i])

TabInv == SessionTyped /\ ViewTyped /\ SavesTyped

(* A fair save is offered to the user, and the row is one that it is for until
   its last call was served. *)
Deserved(x) ==
  /\ user = granted /\ Reachable(page, user) /\ x.button.shown \subseteq granted
  /\ x.phase = "sent" \/ (x.phase = "ok" /\ x.call < Len(x.button.calls)) =>
       x.button.on = {} \/ row \in x.button.on

FairIsRight ==
  \A i \in Slots : saves[i] # Nothing /\ saves[i].fair => Deserved(saves[i])

(* A save that was served, wholly or in part, and will ask for the list *)
WillAsk ==
  \E i \in Slots : /\ saves[i] # Nothing /\ saves[i].button.refreshes
                   /\ saves[i].phase = "ok" \/ saves[i].call > 1

(* What is not the row as it is will be replaced: the answer on its way, and
   without one the list. *)
OldIsReplaced ==
  /\ fetch = "refused" => behind
  /\ ~behind /\ fetch \notin {Nothing, "asked", "refused"} /\ fetch # row => WillAsk
  /\ ~behind /\ fetch = Nothing /\ list # Nothing /\ list # row => WillAsk

LEMMA TabTypes ==
  TabInv => TabTypeOK
  BY DEF TabInv, SessionTyped, ViewTyped, SavesTyped, SaveOf, TabTypeOK, Settled, Service, Slots

LEMMA NoStatusIsNothing ==
  ASSUME NEW p \in DOMAIN Pages
  PROVE  /\ Nothing \notin StatusesOf[Pages[p].service]
         /\ "asked" \notin StatusesOf[Pages[p].service]
         /\ "refused" \notin StatusesOf[Pages[p].service]
         /\ Nothing # "asked" /\ Nothing # "refused"
  BY PagesRight, StatusesAreWords, NothingAssumption

LEMMA RolesKnown ==
  ASSUME NEW r \in Roles
  PROVE  r \in DOMAIN RolePermissions /\ RolePermissions[r] \subseteq AllPermissions
  <1>1. r \in DOMAIN RolePermissions
    BY ClientAssumption
  <1>2. \A x \in DOMAIN RolePermissions : RolePermissions[x] \subseteq AllPermissions
    <2>1. RolePermissions["ADMIN"] \subseteq AllPermissions
      BY DEF RolePermissions
    <2>2. RolePermissions["MANAGER"] \subseteq AllPermissions
      BY DEF RolePermissions
    <2>3. RolePermissions["SALES"] \subseteq AllPermissions
      BY DEF RolePermissions, AllPermissions
    <2>4. RolePermissions["FINANCE"] \subseteq AllPermissions
      BY DEF RolePermissions, AllPermissions
    <2>5. RolePermissions["VIEWER"] \subseteq AllPermissions
      BY DEF RolePermissions, AllPermissions
    <2>6. DOMAIN RolePermissions = {"ADMIN", "MANAGER", "SALES", "FINANCE", "VIEWER"}
      BY DEF RolePermissions
    <2>7. QED
      BY <2>1, <2>2, <2>3, <2>4, <2>5, <2>6
  <1>3. QED
    BY <1>1, <1>2

(* A save as it is made, and what becomes of it *)
LEMMA SaveMade ==
  ASSUME NEW b \in UNION {Pages[p].buttons : p \in DOMAIN Pages}, NEW f \in BOOLEAN
  PROVE  LET x == [button |-> b, call |-> 1, fair |-> f, phase |-> "sent"] IN
         x \in Save /\ x.button = b /\ x.call = 1 /\ x.fair = f /\ x.phase = "sent"
  BY DEF Save

LEMMA SaveChanged ==
  ASSUME NEW x \in Save
  PROVE  /\ x # Nothing /\ x.call \in Nat /\ x.fair \in BOOLEAN
         /\ LET y == [x EXCEPT !.fair = FALSE] IN
              /\ y \in Save /\ y.button = x.button /\ y.call = x.call
              /\ y.fair = FALSE /\ y.phase = x.phase
         /\ \A w \in {"ok", "no"} : LET y == [x EXCEPT !.phase = w] IN
              y \in Save /\ y.button = x.button /\ y.call = x.call /\ y.fair = x.fair /\ y.phase = w
         /\ LET y == [x EXCEPT !.call = @ + 1, !.phase = "sent"] IN
              /\ y \in Save /\ y.button = x.button /\ y.call = x.call + 1 /\ y.fair = x.fair
              /\ y.phase = "sent"
  <1>1. x # Nothing /\ x.call \in Nat /\ x.fair \in BOOLEAN
    BY NothingAssumption DEF Save
  <1>2. LET y == [x EXCEPT !.fair = FALSE] IN
          /\ y \in Save /\ y.button = x.button /\ y.call = x.call
          /\ y.fair = FALSE /\ y.phase = x.phase
    BY DEF Save
  <1>3. \A w \in {"ok", "no"} : LET y == [x EXCEPT !.phase = w] IN
          y \in Save /\ y.button = x.button /\ y.call = x.call /\ y.fair = x.fair /\ y.phase = w
    BY DEF Save
  <1>4. LET y == [x EXCEPT !.call = @ + 1, !.phase = "sent"] IN
          /\ y \in Save /\ y.button = x.button /\ y.call = x.call + 1 /\ y.fair = x.fair
          /\ y.phase = "sent"
    <2>1. \A n \in Nat : LET y == [x EXCEPT !.call = n, !.phase = "sent"] IN
            y \in Save /\ y.button = x.button /\ y.call = n /\ y.fair = x.fair /\ y.phase = "sent"
      BY DEF Save
    <2>2. x.call + 1 \in Nat
      BY <1>1
    <2>3. QED
      BY <2>1, <2>2
  <1>5. QED
    BY <1>1, <1>2, <1>3, <1>4

LEMMA UnfairSaves ==
  ASSUME NEW S, NEW i \in Slots, S[i] = Nothing \/ S[i] \in Save
  PROVE  /\ DOMAIN Unfair(S) = Slots
         /\ S[i] = Nothing => Unfair(S)[i] = Nothing
         /\ S[i] # Nothing =>
              LET y == Unfair(S)[i] IN
              /\ y \in Save /\ y.button = S[i].button /\ y.call = S[i].call /\ y.fair = FALSE
              /\ y.phase = S[i].phase
  BY SaveChanged DEF Unfair

(* What a slot is after a step that is not about it: as it was, and fair only
   if it was; *)
Same(x, y) ==
  IF x = Nothing THEN y = Nothing
  ELSE /\ y \in Save /\ y.button = x.button /\ y.call = x.call /\ y.phase = x.phase
       /\ y.fair => x.fair

(* or not fair any more. *)
NotFair(x) == x # Nothing => ~x.fair

Slotted(S) == DOMAIN S = Slots /\ S = [i \in Slots |-> S[i]]

LEMMA AllUnfair ==
  ASSUME NEW S, \A i \in Slots : S[i] = Nothing \/ S[i] \in Save
  PROVE  /\ Slotted(Unfair(S))
         /\ \A i \in Slots : Same(S[i], Unfair(S)[i]) /\ NotFair(Unfair(S)[i])
  <1>1. Slotted(Unfair(S))
    BY DEF Slotted, Unfair
  <1>2. ASSUME NEW i \in Slots
        PROVE  Same(S[i], Unfair(S)[i]) /\ NotFair(Unfair(S)[i])
    BY UnfairSaves DEF Same, NotFair
  <1>3. QED
    BY <1>1, <1>2

LEMMA Pressed ==
  ASSUME SavesTyped, page \in DOMAIN Pages, NEW b \in Pages[page].buttons, NEW i \in Slots,
         Press(i, b)
  PROVE  /\ Slotted(saves') /\ saves[i] = Nothing
         /\ SaveOf(page, saves'[i]) /\ saves'[i].button = b
         /\ saves'[i].call = 1 /\ saves'[i].phase = "sent"
         /\ saves'[i].fair => user = granted /\ Reachable(page, user) /\ (b.on = {} \/ list = row)
         /\ \A j \in Slots \ {i} : Same(saves[j], saves'[j]) /\ NotFair(saves'[j])
  <1> DEFINE f == /\ user = granted /\ Reachable(page, user)
                  /\ (b.on = {} \/ list = row) /\ saves = NoSave
             x == [button |-> b, call |-> 1, fair |-> f, phase |-> "sent"]
  <1>1. saves[i] = Nothing /\ saves' = [Unfair(saves) EXCEPT ![i] = x]
    BY DEF Press
  <1>2. x \in Save /\ x.button = b /\ x.call = 1 /\ x.fair = f /\ x.phase = "sent"
    <2>1. b \in UNION {Pages[p].buttons : p \in DOMAIN Pages} /\ f \in BOOLEAN
      OBVIOUS
    <2>2. QED
      BY <2>1, SaveMade
  <1>3. 1 \in 1..Len(b.calls)
    BY PagesRight DEF ButtonRight, WellFormed
  <1>4. /\ Slotted(Unfair(saves))
        /\ \A j \in Slots : Same(saves[j], Unfair(saves)[j]) /\ NotFair(Unfair(saves)[j])
    BY AllUnfair DEF SavesTyped, SaveOf
  <1> HIDE DEF x
  <1>5. /\ Slotted(saves') /\ saves'[i] = x
        /\ \A j \in Slots \ {i} : saves'[j] = Unfair(saves)[j]
    BY <1>1, <1>4 DEF Slotted
  <1>6. QED
    BY <1>1, <1>2, <1>3, <1>4, <1>5 DEF SaveOf

LEMMA Served ==
  ASSUME SavesTyped, NEW i \in Slots, SaveServed(i)
  PROVE  LET b     == saves[i].button
             c     == b.calls[saves[i].call]
             after == IF CanActivate(Needs(c), granted) THEN After(role, Service, c, row) ELSE {}
         IN
         /\ Slotted(saves') /\ SaveOf(page, saves[i]) /\ saves[i].phase = "sent"
         /\ SaveOf(page, saves'[i]) /\ saves'[i].button = b /\ saves'[i].call = saves[i].call
         /\ saves'[i].fair = saves[i].fair
         /\ \A j \in Slots \ {i} : Same(saves[j], saves'[j])
         /\ \/ /\ after = {} /\ saves'[i].phase = "no" /\ row' = row
               /\ surprise' # Nothing => saves[i].fair
                    /\ surprise' = [page |-> page, button |-> b.name,
                                    lacks |-> Needs(c) \ granted, at |-> row]
            \/ /\ row' \in after /\ saves'[i].phase = "ok" /\ surprise' = Nothing
               /\ \A j \in Slots \ {i} : NotFair(saves'[j])
  <1> DEFINE b     == saves[i].button
             c     == b.calls[saves[i].call]
             after == IF CanActivate(Needs(c), granted) THEN After(role, Service, c, row) ELSE {}
             no    == [saves[i] EXCEPT !.phase = "no"]
             ok    == [saves[i] EXCEPT !.phase = "ok"]
  <1>1. SaveOf(page, saves[i]) /\ saves[i] # Nothing /\ saves[i].phase = "sent"
    BY DEF SaveServed, SavesTyped
  <1>2. /\ SaveOf(page, no) /\ no.button = b /\ no.call = saves[i].call
        /\ no.fair = saves[i].fair /\ no.phase = "no"
    BY <1>1, SaveChanged DEF SaveOf
  <1>3. /\ SaveOf(page, ok) /\ ok.button = b /\ ok.call = saves[i].call
        /\ ok.fair = saves[i].fair /\ ok.phase = "ok"
    BY <1>1, SaveChanged DEF SaveOf
  <1>4. /\ Slotted(saves) /\ Slotted(Unfair(saves))
        /\ \A j \in Slots : Same(saves[j], Unfair(saves)[j]) /\ NotFair(Unfair(saves)[j])
        /\ \A j \in Slots : Same(saves[j], saves[j])
    <2>1. \A j \in Slots : saves[j] = Nothing \/ saves[j] \in Save
      BY DEF SavesTyped, SaveOf
    <2>2. \A j \in Slots : Same(saves[j], saves[j])
      BY <2>1 DEF Same
    <2>3. Slotted(saves)
      BY DEF SavesTyped, Slotted
    <2>4. QED
      BY <2>1, <2>2, <2>3, AllUnfair
  <1>5. \/ /\ after = {} /\ saves' = [saves EXCEPT ![i] = no] /\ row' = row
           /\ surprise' = IF ~saves[i].fair THEN Nothing
                          ELSE [page |-> page, button |-> b.name,
                                lacks |-> Needs(c) \ granted, at |-> row]
        \/ /\ row' \in after /\ saves' = [Unfair(saves) EXCEPT ![i] = ok] /\ surprise' = Nothing
    BY DEF SaveServed
  <1> HIDE DEF no, ok, after, b, c
  <1>6. CASE after = {} /\ saves' = [saves EXCEPT ![i] = no] /\ row' = row
             /\ surprise' = IF ~saves[i].fair THEN Nothing
                            ELSE [page |-> page, button |-> b.name,
                                  lacks |-> Needs(c) \ granted, at |-> row]
    <2>1. Slotted(saves') /\ saves'[i] = no /\ \A j \in Slots \ {i} : saves'[j] = saves[j]
      BY <1>4, <1>6 DEF Slotted
    <2>2. QED
      BY <1>1, <1>2, <1>4, <1>6, <2>1 DEF after, b, c
  <1>7. CASE row' \in after /\ saves' = [Unfair(saves) EXCEPT ![i] = ok] /\ surprise' = Nothing
    <2>1. Slotted(saves') /\ saves'[i] = ok /\ \A j \in Slots \ {i} : saves'[j] = Unfair(saves)[j]
      BY <1>4, <1>7 DEF Slotted
    <2>2. QED
      BY <1>1, <1>3, <1>4, <1>7, <2>1 DEF after, b, c
  <1>8. QED
    BY <1>5, <1>6, <1>7 DEF after, b, c

LEMMA AnsweredSave ==
  ASSUME SavesTyped, NEW i \in Slots, SaveAnswered(i), page \in DOMAIN Pages
  PROVE  /\ Slotted(saves') /\ SaveOf(page, saves[i]) /\ saves[i].phase = "ok"
         /\ \A j \in Slots \ {i} : saves'[j] = saves[j]
         /\ \/ /\ saves[i].call < Len(saves[i].button.calls)
               /\ SaveOf(page, saves'[i]) /\ saves'[i].button = saves[i].button
               /\ saves'[i].call = saves[i].call + 1 /\ saves'[i].phase = "sent"
               /\ saves'[i].fair = saves[i].fair
               /\ UNCHANGED <<fetch, behind>>
            \/ /\ saves'[i] = Nothing
               /\ IF saves[i].button.refreshes THEN Reask ELSE UNCHANGED <<fetch, behind>>
  <1> DEFINE n == [saves[i] EXCEPT !.call = @ + 1, !.phase = "sent"]
  <1>1. SaveOf(page, saves[i]) /\ saves[i] # Nothing /\ saves[i].phase = "ok"
    BY DEF SaveAnswered, SavesTyped
  <1>2. /\ n \in Save /\ n.button = saves[i].button /\ n.call = saves[i].call + 1
        /\ n.phase = "sent" /\ n.fair = saves[i].fair
    BY <1>1, SaveChanged DEF SaveOf
  <1>3. Slotted(saves)
    BY DEF SavesTyped, Slotted
  <1>4. \/ /\ saves[i].call < Len(saves[i].button.calls)
           /\ saves' = [saves EXCEPT ![i] = n] /\ UNCHANGED <<fetch, behind>>
        \/ /\ saves' = [saves EXCEPT ![i] = Nothing]
           /\ IF saves[i].button.refreshes THEN Reask ELSE UNCHANGED <<fetch, behind>>
    BY DEF SaveAnswered
  <1> HIDE DEF n
  <1>5. CASE /\ saves[i].call < Len(saves[i].button.calls)
             /\ saves' = [saves EXCEPT ![i] = n] /\ UNCHANGED <<fetch, behind>>
    <2>1. Slotted(saves') /\ saves'[i] = n /\ \A j \in Slots \ {i} : saves'[j] = saves[j]
      BY <1>3, <1>5 DEF Slotted
    <2>2. Len(saves[i].button.calls) \in Nat
      BY <1>1, PagesRight DEF SaveOf, ButtonRight, WellFormed
    <2>3. n.call \in 1..Len(n.button.calls)
      BY <1>1, <1>2, <1>5, <2>2 DEF SaveOf
    <2>4. QED
      BY <1>1, <1>2, <1>5, <2>1, <2>3 DEF SaveOf
  <1>6. CASE /\ saves' = [saves EXCEPT ![i] = Nothing]
             /\ IF saves[i].button.refreshes THEN Reask ELSE UNCHANGED <<fetch, behind>>
    <2>1. Slotted(saves') /\ saves'[i] = Nothing /\ \A j \in Slots \ {i} : saves'[j] = saves[j]
      BY <1>3, <1>6 DEF Slotted
    <2>2. QED
      BY <1>1, <1>6, <2>1
  <1>7. QED
    BY <1>4, <1>5, <1>6

LEMMA FailedSave ==
  ASSUME SavesTyped, NEW i \in Slots, SaveFails(i)
  PROVE  /\ Slotted(saves') /\ SaveOf(page, saves[i]) /\ saves'[i] = Nothing
         /\ \A j \in Slots \ {i} : saves'[j] = saves[j]
  BY DEF SavesTyped, SaveFails, Slotted

LEMMA MadeUnfair ==
  ASSUME SavesTyped, saves' = Unfair(saves)
  PROVE  /\ Slotted(saves')
         /\ \A i \in Slots : Same(saves[i], saves'[i]) /\ NotFair(saves'[i])
  BY AllUnfair DEF SavesTyped, SaveOf

-----------------------------------------------------------------------------
LEMMA PagesAndLogin ==
  "login" \notin DOMAIN Pages /\ "home" \in DOMAIN Pages /\ "whatsapp" \in DOMAIN Pages
  BY DEF Pages

(* A slot that was left alone still has a save of the page. *)
LEMMA SameSave ==
  ASSUME NEW p, NEW x, NEW y, x = Nothing \/ SaveOf(p, x), Same(x, y)
  PROVE  y = Nothing \/ SaveOf(p, y)
  BY DEF Same, SaveOf

LEMMA NoSaves == Slotted(NoSave) /\ \A i \in Slots : NoSave[i] = Nothing
  BY DEF Slotted, NoSave

LEMMA Opened ==
  ASSUME NEW p \in DOMAIN Pages, NEW perms, Open(p, perms)
  PROVE  page' = p /\ ViewTyped' /\ SavesTyped'
  <1>1. page' = p /\ p # "login" /\ saves' = NoSave
    BY PagesAndLogin DEF Open
  <1>2. /\ row' \in StatusesOf[Pages[p].service]
        /\ list' \in StatusesOf[Pages[p].service] \cup {Nothing}
        /\ fetch' \in {Nothing, "asked"} /\ behind' \in BOOLEAN
    BY DEF Open, YoungEnough
  <1>3. ViewTyped'
    BY <1>1, <1>2 DEF ViewTyped, Service
  <1>4. SavesTyped'
    BY <1>1, NoSaves DEF SavesTyped, Slotted
  <1>5. QED
    BY <1>1, <1>3, <1>4

LEMMA Blanked ==
  ASSUME NEW p, NEW s, Blank(p, s),
         IF p = "login" THEN s = "none"
         ELSE p \in DOMAIN Pages /\ s \in StatusesOf[Pages[p].service]
  PROVE  page' = p /\ ViewTyped' /\ SavesTyped'
  <1>1. /\ page' = p /\ row' = s /\ list' = Nothing /\ fetch' = Nothing
        /\ saves' = NoSave /\ behind' = FALSE
    BY DEF Blank
  <1>2. ViewTyped'
    BY <1>1 DEF ViewTyped, Service
  <1>3. SavesTyped'
    BY <1>1, NoSaves DEF SavesTyped, Slotted
  <1>4. QED
    BY <1>1, <1>2, <1>3

(* A step of the tab, as what it does to the parts: *)
LEMMA OnAPage ==
  ASSUME ViewTyped, SavesTyped
  PROVE  /\ fetch # Nothing => page \in DOMAIN Pages
         /\ \A i \in Slots : saves[i] # Nothing => page \in DOMAIN Pages
         /\ page # "login" => page \in DOMAIN Pages
  BY NoSaves DEF ViewTyped, SavesTyped

LEMMA SavesStay ==
  ASSUME SavesTyped, page \in DOMAIN Pages, page' = page, Slotted(saves'),
         \A i \in Slots : saves'[i] = Nothing \/ SaveOf(page, saves'[i])
  PROVE  SavesTyped'
  BY PagesAndLogin DEF SavesTyped, Slotted

LEMMA TabInitTyped ==
  TabInit => TabInv
  <1> SUFFICES ASSUME TabInit PROVE TabInv
    OBVIOUS
  <1>1. SessionTyped
    BY RolesKnown, ClientAssumption DEF TabInit, SessionTyped
  <1>2. ViewTyped
    BY DEF TabInit, ViewTyped
  <1>3. SavesTyped
    BY NoSaves DEF TabInit, SavesTyped, Slotted
  <1>4. QED
    BY <1>1, <1>2, <1>3 DEF TabInv

LEMMA TabNextTyped ==
  TabInv /\ [TabNext]_tabVars => TabInv'
  <1> SUFFICES ASSUME SessionTyped, ViewTyped, SavesTyped, [TabNext]_tabVars
               PROVE  SessionTyped' /\ ViewTyped' /\ SavesTyped'
    BY DEF TabInv
  <1>0. /\ UNCHANGED session => SessionTyped'
        /\ page \in DOMAIN Pages =>
             /\ page # "login" /\ row \in StatusesOf[Service]
             /\ list \in StatusesOf[Service] \cup {Nothing}
             /\ fetch \in StatusesOf[Service] \cup {Nothing, "asked", "refused"}
    <2>1. UNCHANGED session => SessionTyped'
      BY DEF session, SessionTyped
    <2>2. QED
      BY <2>1, PagesAndLogin DEF ViewTyped
  <1>1. CASE \E r \in Roles : SignIn(r)
    <2>1. PICK r \in Roles : SignIn(r)
      BY <1>1
    <2>2. SessionTyped'
      BY <2>1, RolesKnown, ClientAssumption DEF SignIn, SessionTyped
    <2>3. QED
      BY <2>1, <2>2, Opened, PagesAndLogin DEF SignIn
  <1>2. CASE \E p \in DOMAIN Pages : Visit(p)
    BY <1>0, <1>2, Opened DEF Visit
  <1>3. CASE Reload
    <2>1. SessionTyped'
      BY <1>3 DEF Reload, SessionTyped
    <2>2. page # "login" /\ page \in DOMAIN Pages /\ row \in StatusesOf[Pages[page].service]
      BY <1>3 DEF Reload, ViewTyped, Service
    <2>3. QED
      BY <1>3, <2>1, <2>2, Blanked DEF Reload
  <1>4. CASE LoadMe
    <2>1. SessionTyped'
      BY <1>4 DEF LoadMe, SessionTyped
    <2>2. QED
      BY <1>4, <2>1, OnAPage, Opened DEF LoadMe
  <1>5. CASE LoadMeFails
    <2>1. SessionTyped'
      BY <1>5 DEF LoadMeFails, SessionTyped
    <2>2. QED
      BY <1>5, <2>1, Blanked DEF LoadMeFails, Forget
  <1>6. CASE SignOut \/ Rejected
    <2>1. SessionTyped'
      BY <1>6 DEF SignOut, Rejected, SessionDropped, SessionTyped
    <2>2. QED
      BY <1>6, <2>1, Blanked DEF SignOut, Rejected, Forget
  <1>7. CASE ReadServed
    <2>1. page \in DOMAIN Pages
      BY <1>7, OnAPage, NothingAssumption DEF ReadServed
    <2>2. /\ fetch' \in StatusesOf[Service] \cup {"refused"} /\ behind' \in BOOLEAN
          /\ UNCHANGED <<session, page, row, list, saves>>
      BY <1>0, <1>7, <2>1 DEF ReadServed
    <2>3. ViewTyped'
      BY <1>0, <2>1, <2>2 DEF ViewTyped, Service
    <2>4. SavesTyped'
      BY <2>2 DEF SavesTyped
    <2>5. QED
      BY <1>0, <2>2, <2>3, <2>4
  <1>8. CASE ReadAnswered
    <2>1. page \in DOMAIN Pages
      BY <1>8, OnAPage DEF ReadAnswered
    <2>2. /\ list' \in StatusesOf[Service] \cup {Nothing} /\ fetch' = Nothing
          /\ UNCHANGED <<session, page, row, saves, behind>>
      BY <1>0, <1>8, <2>1 DEF ReadAnswered
    <2>3. ViewTyped'
      BY <1>0, <2>1, <2>2 DEF ViewTyped, Service
    <2>4. SavesTyped'
      BY <2>2 DEF SavesTyped
    <2>5. QED
      BY <1>0, <2>2, <2>3, <2>4
  <1>9. CASE ReadLost
    <2>1. ViewTyped'
      BY <1>9 DEF ReadLost, ViewTyped, Service
    <2>2. SavesTyped'
      BY <1>9 DEF ReadLost, SavesTyped
    <2>3. QED
      BY <1>0, <1>9, <2>1, <2>2 DEF ReadLost
  <1>10. CASE Poll
    <2>1. ViewTyped'
      BY <1>0, <1>10, PagesAndLogin DEF Poll, ViewTyped, Service
    <2>2. SavesTyped'
      BY <1>10 DEF Poll, SavesTyped
    <2>3. QED
      BY <1>0, <1>10, <2>1, <2>2 DEF Poll
  <1>11. CASE /\ page # "login" /\ user # Nothing
              /\ \E b \in Offered(page, user, list) : \E i \in Slots : Press(i, b)
    <2>1. PICK b \in Offered(page, user, list) : \E i \in Slots : Press(i, b)
      BY <1>11
    <2>2. PICK i \in Slots : Press(i, b)
      BY <2>1
    <2>3. page \in DOMAIN Pages /\ b \in Pages[page].buttons
      BY <1>11, OnAPage DEF Offered
    <2>4. UNCHANGED <<session, page, row, list, fetch, behind>>
      BY <2>2 DEF Press
    <2>5. \A j \in Slots : saves'[j] = Nothing \/ SaveOf(page, saves'[j])
      BY <2>2, <2>3, Pressed, SameSave DEF SavesTyped
    <2>6. SavesTyped'
      BY <2>2, <2>3, <2>4, <2>5, Pressed, SavesStay
    <2>7. ViewTyped'
      BY <2>4 DEF ViewTyped, Service
    <2>8. QED
      BY <1>0, <2>4, <2>6, <2>7
  <1>12. CASE \E i \in Slots : SaveServed(i)
    <2>1. PICK i \in Slots : SaveServed(i)
      BY <1>12
    <2>2. page \in DOMAIN Pages
      BY <2>1, OnAPage DEF SaveServed
    <2>3. UNCHANGED <<session, page, list, fetch, behind>>
      BY <2>1 DEF SaveServed
    <2>4. \A j \in Slots : saves'[j] = Nothing \/ SaveOf(page, saves'[j])
      BY <2>1, Served, SameSave DEF SavesTyped
    <2>5. SavesTyped'
      BY <2>1, <2>2, <2>3, <2>4, Served, SavesStay
    <2>6. row' \in StatusesOf[Service]
      <3>1. Service \in DOMAIN Controllers /\ role \in DOMAIN RolePermissions
        BY <2>2, PagesRight, RolesKnown DEF Service, SessionTyped
      <3>2. \A c : After(role, Service, c, row) \subseteq StatusesOf[Service]
        BY <1>0, <2>2, <3>1, AfterStays
      <3>3. QED
        BY <1>0, <2>1, <2>2, <3>2, Served
    <2>7. ViewTyped'
      BY <1>0, <2>2, <2>3, <2>6 DEF ViewTyped, Service
    <2>8. QED
      BY <1>0, <2>3, <2>5, <2>7
  <1>13. CASE \E i \in Slots : SaveAnswered(i)
    <2>1. PICK i \in Slots : SaveAnswered(i)
      BY <1>13
    <2>2. page \in DOMAIN Pages
      BY <2>1, OnAPage DEF SaveAnswered
    <2>3. UNCHANGED <<session, page, row, list>>
      BY <2>1 DEF SaveAnswered
    <2>4. \A j \in Slots : saves'[j] = Nothing \/ SaveOf(page, saves'[j])
      BY <2>1, <2>2, AnsweredSave DEF SavesTyped
    <2>5. SavesTyped'
      BY <2>1, <2>2, <2>3, <2>4, AnsweredSave, SavesStay
    <2>6. fetch' \in {fetch, "asked"} /\ behind' \in BOOLEAN
      BY <2>1, <2>2, AnsweredSave DEF Reask, FetchAnew, ViewTyped
    <2>7. ViewTyped'
      BY <1>0, <2>2, <2>3, <2>6 DEF ViewTyped, Service
    <2>8. QED
      BY <1>0, <2>3, <2>5, <2>7
  <1>14. CASE \E i \in Slots : SaveFails(i)
    <2>1. PICK i \in Slots : SaveFails(i)
      BY <1>14
    <2>2. page \in DOMAIN Pages
      BY <2>1, OnAPage DEF SaveFails
    <2>3. UNCHANGED <<session, page, row, list, fetch>> /\ behind' \in BOOLEAN
      BY <2>1 DEF SaveFails, ViewTyped
    <2>4. \A j \in Slots : saves'[j] = Nothing \/ SaveOf(page, saves'[j])
      BY <2>1, FailedSave DEF SavesTyped
    <2>5. SavesTyped'
      BY <2>1, <2>2, <2>3, <2>4, FailedSave, SavesStay
    <2>6. ViewTyped'
      BY <2>3 DEF ViewTyped, Service
    <2>7. QED
      BY <1>0, <2>3, <2>5, <2>6
  <1>15. CASE page # "login" /\ \E h \in DOMAIN ServiceOf("ADMIN", Service) : OthersWrite(h)
    <2>1. PICK h \in DOMAIN ServiceOf("ADMIN", Service) : OthersWrite(h)
      BY <1>15
    <2>2. page \in DOMAIN Pages
      BY <1>15, OnAPage
    <2>3. /\ UNCHANGED <<session, page, list, fetch>> /\ behind' = TRUE /\ saves' = Unfair(saves)
          /\ row' \in After("ADMIN", Service, <<Service, h>>, row)
      BY <2>1 DEF OthersWrite
    <2>4. \A j \in Slots : saves'[j] = Nothing \/ SaveOf(page, saves'[j])
      BY <2>3, MadeUnfair, SameSave DEF SavesTyped
    <2>5. SavesTyped'
      BY <2>2, <2>3, <2>4, MadeUnfair, SavesStay
    <2>6. row' \in StatusesOf[Service]
      <3>1. Service \in DOMAIN Controllers /\ "ADMIN" \in DOMAIN RolePermissions
        BY <2>2, PagesRight DEF Service, RolePermissions
      <3>2. After("ADMIN", Service, <<Service, h>>, row) \subseteq StatusesOf[Service]
        BY <1>0, <2>2, <3>1, AfterStays
      <3>3. QED
        BY <2>3, <3>2
    <2>7. ViewTyped'
      BY <1>0, <2>2, <2>3, <2>6 DEF ViewTyped, Service
    <2>8. QED
      BY <1>0, <2>3, <2>5, <2>7
  <1>16. CASE page # "login" /\ \E p \in FormPermissions \cap Relevant[page] : EditRole(p)
    <2>1. PICK p \in FormPermissions \cap Relevant[page] : EditRole(p)
      BY <1>16
    <2>2. page \in DOMAIN Pages
      BY <1>16, OnAPage
    <2>3. /\ UNCHANGED <<role, token, user, page, row, list, fetch, behind>>
          /\ saves' = Unfair(saves)
          /\ edits < MaxEdits /\ edits' = edits + 1
          /\ granted' = IF p \in granted THEN granted \ {p} ELSE granted \cup {p}
      BY <2>1 DEF EditRole
    <2>4. \A j \in Slots : saves'[j] = Nothing \/ SaveOf(page, saves'[j])
      BY <2>3, MadeUnfair, SameSave DEF SavesTyped
    <2>5. SavesTyped'
      BY <2>2, <2>3, <2>4, MadeUnfair, SavesStay
    <2>6. ViewTyped'
      BY <2>3 DEF ViewTyped, Service
    <2>7. SessionTyped'
      <3>1. p \in AllPermissions
        BY DEF FormPermissions
      <3>2. granted' \subseteq AllPermissions
        BY <2>3, <3>1 DEF SessionTyped
      <3>3. edits' \in 0..MaxEdits
        BY <2>3, ClientAssumption DEF SessionTyped
      <3>4. QED
        BY <2>3, <3>2, <3>3 DEF SessionTyped
    <2>8. QED
      BY <2>5, <2>6, <2>7
  <1>17. CASE UNCHANGED tabVars
    BY <1>0, <1>17 DEF tabVars, session, SessionTyped, ViewTyped, SavesTyped, Service
  <1>18. QED
    BY <1>1, <1>2, <1>3, <1>4, <1>5, <1>6, <1>7, <1>8, <1>9, <1>10, <1>11, <1>12, <1>13, <1>14,
       <1>15, <1>16, <1>17 DEF TabNext

(* A tab keeps to its types for every number of saves in flight and of edits of
   the role: in particular one without a token has no user (auth.tsx), and one
   that was sent to the login page waits for nothing (api.ts). *)
THEOREM TabTyped == TabSpec => []TabTypeOK
  <1>1. TabSpec => []TabInv
    BY TabInitTyped, TabNextTyped, PTL DEF TabSpec
  <1>2. QED
    BY <1>1, TabTypes, PTL

-----------------------------------------------------------------------------
(* No surprise.  Only a save that is fair is ever told of; it is right about
   the user and about the row, and the tables say what is refused then. *)
LEMMA Refused ==
  ASSUME SessionTyped, ViewTyped, SavesTyped, FairIsRight,
         NEW i \in Slots, SaveServed(i), surprise' # Nothing
  PROVE  IF surprise'.lacks = {}
         THEN <<surprise'.page, surprise'.button, surprise'.at>> \in ServiceGaps
         ELSE \A p \in surprise'.lacks : <<surprise'.page, surprise'.button, p>> \in GuardGaps
  <1> DEFINE b     == saves[i].button
             k     == saves[i].call
             c     == b.calls[k]
             lacks == Needs(c) \ granted
             after == IF CanActivate(Needs(c), granted) THEN After(role, Service, c, row) ELSE {}
             told  == [page |-> page, button |-> b.name, lacks |-> lacks, at |-> row]
  <1>1. /\ saves[i] # Nothing /\ saves[i].fair /\ saves[i].phase = "sent"
        /\ after = {} /\ surprise' = told
    BY Served, SaveChanged DEF SaveOf
  <1>2. /\ page \in DOMAIN Pages /\ row \in StatusesOf[Pages[page].service]
        /\ b \in Pages[page].buttons /\ k \in 1..Len(b.calls)
    BY <1>1, OnAPage, PagesAndLogin, Served DEF ViewTyped, Service, SaveOf
  <1>3. /\ Reachable(page, granted) /\ b.shown \subseteq granted
        /\ b.on = {} \/ row \in b.on
    BY <1>1 DEF FairIsRight, Deserved
  <1>4. ButtonRight(page, b) /\ k \in DOMAIN b.calls
    BY <1>2, PagesRight DEF ButtonRight, WellFormed
  <1>5. \A x \in lacks : <<page, b.name, x>> \in GuardGaps
    BY <1>3, <1>4 DEF ButtonRight, Guarded
  <1>6. lacks = {} => <<page, b.name, row>> \in ServiceGaps
    <2>1. SUFFICES ASSUME lacks = {} PROVE <<page, b.name, row>> \in ServiceGaps
      OBVIOUS
    <2>2. After(role, Pages[page].service, b.calls[k], row) = {}
      BY <1>1, <2>1 DEF CanActivate, Service
    <2>3. role \in DOMAIN RolePermissions
      BY RolesKnown DEF SessionTyped
    <2>4. QED
      BY <1>2, <1>3, <1>4, <2>2, <2>3 DEF ButtonRight, Answered
  <1>7. told.page = page /\ told.button = b.name /\ told.lacks = lacks /\ told.at = row
    OBVIOUS
  <1> HIDE DEF told, lacks
  <1>8. QED
    BY <1>1, <1>5, <1>6, <1>7

LEMMA FairInit ==
  TabInit => FairIsRight /\ NoSurprise
  BY NoSaves DEF TabInit, FairIsRight, NoSurprise

LEMMA NoneFair ==
  ASSUME \A i \in Slots : saves'[i] # Nothing => ~saves'[i].fair
  PROVE  FairIsRight'
  BY DEF FairIsRight

LEMMA NothingSaved ==
  ASSUME saves' = NoSave
  PROVE  FairIsRight'
  BY NoSaves DEF FairIsRight

LEMMA StillFair ==
  ASSUME FairIsRight, UNCHANGED <<session, page, row>>,
         NEW i \in Slots, Same(saves[i], saves'[i])
  PROVE  saves'[i] # Nothing /\ saves'[i].fair => Deserved(saves[i])'
  BY DEF FairIsRight, Deserved, Same, session

LEMMA FairNext ==
  TabInv /\ FairIsRight /\ NoSurprise /\ [TabNext]_tabVars => FairIsRight' /\ NoSurprise'
  <1> SUFFICES ASSUME SessionTyped, ViewTyped, SavesTyped, FairIsRight, NoSurprise,
                      [TabNext]_tabVars
               PROVE  FairIsRight' /\ NoSurprise'
    BY DEF TabInv
  <1>0. /\ surprise' = Nothing => NoSurprise'
        /\ \A i \in Slots : Same(saves[i], saves[i])
        /\ UNCHANGED <<session, page, row, saves>> => FairIsRight'
    <2>1. surprise' = Nothing => NoSurprise'
      BY DEF NoSurprise
    <2>2. \A i \in Slots : Same(saves[i], saves[i])
      BY DEF SavesTyped, SaveOf, Same
    <2>3. UNCHANGED <<session, page, row, saves>> => FairIsRight'
      BY DEF FairIsRight, Deserved, session
    <2>4. QED
      BY <2>1, <2>2, <2>3
  <1>1. CASE (\E r \in Roles : SignIn(r)) \/ (\E p \in DOMAIN Pages : Visit(p)) \/ LoadMe
    <2>1. saves' = NoSave /\ surprise' = Nothing
      BY <1>1 DEF SignIn, Visit, LoadMe, Open
    <2>2. QED
      BY <1>0, <2>1, NothingSaved
  <1>2. CASE Reload \/ LoadMeFails \/ SignOut \/ Rejected
    <2>1. saves' = NoSave /\ surprise' = Nothing
      BY <1>2 DEF Reload, LoadMeFails, SignOut, Rejected, Forget, Blank
    <2>2. QED
      BY <1>0, <2>1, NothingSaved
  <1>3. CASE ReadServed \/ ReadAnswered \/ ReadLost \/ Poll
    BY <1>0, <1>3 DEF ReadServed, ReadAnswered, ReadLost, Poll
  <1>4. CASE /\ page # "login" /\ user # Nothing
             /\ \E b \in Offered(page, user, list) : \E i \in Slots : Press(i, b)
    <2>1. PICK b \in Offered(page, user, list) : \E i \in Slots : Press(i, b)
      BY <1>4
    <2>2. PICK i \in Slots : Press(i, b)
      BY <2>1
    <2>3. /\ page \in DOMAIN Pages /\ b \in Pages[page].buttons
          /\ b.shown \subseteq user /\ (b.on = {} \/ list \in b.on)
      BY <1>4, OnAPage DEF Offered
    <2>4. UNCHANGED <<session, page, row>> /\ surprise' = Nothing
      BY <2>2 DEF Press
    <2>5. /\ saves'[i].button = b
          /\ saves'[i].fair => user = granted /\ Reachable(page, user) /\ (b.on = {} \/ list = row)
          /\ \A j \in Slots \ {i} : NotFair(saves'[j])
      BY <2>2, <2>3, Pressed
    <2>6. FairIsRight'
      BY <2>3, <2>4, <2>5 DEF FairIsRight, Deserved, NotFair, session
    <2>7. QED
      BY <1>0, <2>4, <2>6
  <1>5. CASE \E i \in Slots : SaveServed(i)
    <2>1. PICK i \in Slots : SaveServed(i)
      BY <1>5
    <2>2. UNCHANGED <<session, page>>
      BY <2>1 DEF SaveServed
    <2>3. NoSurprise'
      BY <2>1, Refused DEF NoSurprise
    <2> DEFINE b     == saves[i].button
               k     == saves[i].call
               c     == b.calls[k]
               after == IF CanActivate(Needs(c), granted) THEN After(role, Service, c, row) ELSE {}
    <2>4. /\ SaveOf(page, saves[i]) /\ saves[i].phase = "sent"
          /\ saves'[i].button = b /\ saves'[i].call = k /\ saves'[i].fair = saves[i].fair
          /\ \A j \in Slots \ {i} : Same(saves[j], saves'[j])
          /\ \/ saves'[i].phase = "no" /\ row' = row
             \/ /\ row' \in after /\ saves'[i].phase = "ok"
                /\ \A j \in Slots \ {i} : NotFair(saves'[j])
      BY <2>1, Served
    <2>5. saves[i] # Nothing /\ page \in DOMAIN Pages
      BY <2>4, SaveChanged, OnAPage DEF SaveOf
    <2>6. saves[i].fair => /\ user = granted /\ Reachable(page, user) /\ b.shown \subseteq granted
                           /\ b.on = {} \/ row \in b.on
      BY <2>4, <2>5 DEF FairIsRight, Deserved
    <2>7. k < Len(b.calls) /\ row \in b.on /\ row' \in after => row' \in b.on
      <3>1. ButtonRight(page, b) /\ k \in DOMAIN b.calls
        BY <2>4, <2>5, PagesRight DEF SaveOf, ButtonRight, WellFormed
      <3>2. role \in DOMAIN RolePermissions
        BY RolesKnown DEF SessionTyped
      <3>3. QED
        BY <3>1, <3>2 DEF ButtonRight, Steady, Service
    <2> HIDE DEF after, b, c, k
    <2>8. FairIsRight'
      <3>1. ASSUME NEW j \in Slots \ {i}, saves'[j] # Nothing, saves'[j].fair
            PROVE  Deserved(saves[j])'
        BY <2>2, <2>4, <3>1, StillFair DEF NotFair
      <3>2. saves'[i].fair => Deserved(saves[i])'
        BY <2>2, <2>4, <2>6, <2>7 DEF Deserved, session
      <3>3. QED
        BY <3>1, <3>2 DEF FairIsRight
    <2>9. QED
      BY <2>3, <2>8
  <1>6. CASE \E i \in Slots : SaveAnswered(i)
    <2>1. PICK i \in Slots : SaveAnswered(i)
      BY <1>6
    <2>2. page \in DOMAIN Pages
      BY <2>1, OnAPage DEF SaveAnswered
    <2>3. UNCHANGED <<session, page, row>> /\ surprise' = Nothing
      BY <2>1 DEF SaveAnswered
    <2>4. /\ saves[i].phase = "ok" /\ saves[i] # Nothing
          /\ \A j \in Slots \ {i} : saves'[j] = saves[j]
          /\ \/ /\ saves[i].call < Len(saves[i].button.calls)
                /\ saves'[i].button = saves[i].button /\ saves'[i].fair = saves[i].fair
             \/ saves'[i] = Nothing
      BY <2>1, <2>2, AnsweredSave DEF SaveAnswered
    <2>5. FairIsRight'
      BY <2>3, <2>4 DEF FairIsRight, Deserved, session
    <2>6. QED
      BY <1>0, <2>3, <2>5
  <1>7. CASE \E i \in Slots : SaveFails(i)
    <2>1. PICK i \in Slots : SaveFails(i)
      BY <1>7
    <2>2. UNCHANGED <<session, page, row>> /\ surprise' = Nothing
      BY <2>1 DEF SaveFails
    <2>3. saves'[i] = Nothing /\ \A j \in Slots \ {i} : saves'[j] = saves[j]
      BY <2>1, FailedSave
    <2>4. FairIsRight'
      BY <2>2, <2>3 DEF FairIsRight, Deserved, session
    <2>5. QED
      BY <1>0, <2>2, <2>4
  <1>8. CASE \/ page # "login" /\ \E h \in DOMAIN ServiceOf("ADMIN", Service) : OthersWrite(h)
             \/ page # "login" /\ \E p \in FormPermissions \cap Relevant[page] : EditRole(p)
    <2>1. saves' = Unfair(saves) /\ surprise' = Nothing
      BY <1>8 DEF OthersWrite, EditRole
    <2>2. QED
      BY <1>0, <2>1, MadeUnfair, NoneFair DEF NotFair
  <1>9. CASE UNCHANGED tabVars
    BY <1>0, <1>9 DEF tabVars, NoSurprise
  <1>10. QED
    BY <1>1, <1>2, <1>3, <1>4, <1>5, <1>6, <1>7, <1>8, <1>9 DEF TabNext

(* What a page offers, PermissionsGuard and the services do not refuse, outside
   the known gaps, for as long as the page is right about the row and about the
   permissions: also not the second and third call of a save that has several
   (UserEditModal, RoleModal, DealEditModal), whoever saves in between. *)
THEOREM OfferIsGood == TabSpec => []NoSurprise
  <1>1. TabInv /\ FairIsRight /\ NoSurprise /\ [TabNext]_tabVars =>
          (TabInv /\ FairIsRight /\ NoSurprise)'
    BY TabNextTyped, FairNext
  <1>2. TabInit => TabInv /\ FairIsRight /\ NoSurprise
    BY TabInitTyped, FairInit
  <1>3. QED
    BY <1>1, <1>2, PTL DEF TabSpec

(* Whoever gets to a page by the sidebar, the search box, the shortcuts or the
   link of the inbox may call every handler that the page asks, outside the
   known gaps, with any set of permissions that an administrator can give the
   role. *)
THEOREM MenuIsHonest == TabSpec => []MenuLeadsToAnswers
  <1>1. TabInv => MenuLeadsToAnswers
    BY PagesAnswered, OnAPage DEF TabInv, SessionTyped, MenuLeadsToAnswers
  <1>2. TabSpec => []TabInv
    BY TabInitTyped, TabNextTyped, PTL DEF TabSpec
  <1>3. QED
    BY <1>1, <1>2, PTL

-----------------------------------------------------------------------------
(* The list is current.  A served save that changed the row leaves the tab
   with something to do: it asks for the list again. *)
LEMMA OldInit ==
  TabInit => OldIsReplaced
  BY NothingAssumption DEF TabInit, OldIsReplaced

LEMMA WillStillAsk ==
  ASSUME WillAsk, \A j \in Slots : Same(saves[j], saves'[j])
  PROVE  WillAsk'
  <1>1. PICK j \in Slots : /\ saves[j] # Nothing /\ saves[j].button.refreshes
                           /\ saves[j].phase = "ok" \/ saves[j].call > 1
    BY DEF WillAsk
  <1>2. /\ saves'[j] # Nothing /\ saves'[j].button = saves[j].button
        /\ saves'[j].call = saves[j].call /\ saves'[j].phase = saves[j].phase
    BY <1>1, SaveChanged DEF Same
  <1>3. QED
    BY <1>1, <1>2 DEF WillAsk

LEMMA OtherWillAsk ==
  ASSUME WillAsk, NEW i \in Slots,
         \A j \in Slots \ {i} : Same(saves[j], saves'[j]) \/ saves'[j] = saves[j]
  PROVE  \/ WillAsk'
         \/ /\ saves[i] # Nothing /\ saves[i].button.refreshes
            /\ saves[i].phase = "ok" \/ saves[i].call > 1
  <1>1. PICK j \in Slots : /\ saves[j] # Nothing /\ saves[j].button.refreshes
                           /\ saves[j].phase = "ok" \/ saves[j].call > 1
    BY DEF WillAsk
  <1>2. CASE j = i
    BY <1>1, <1>2
  <1>3. CASE j # i
    <2>1. /\ saves'[j] # Nothing /\ saves'[j].button = saves[j].button
          /\ saves'[j].call = saves[j].call /\ saves'[j].phase = saves[j].phase
      BY <1>1, <1>3, SaveChanged DEF Same
    <2>2. QED
      BY <1>1, <2>1 DEF WillAsk
  <1>4. QED
    BY <1>2, <1>3

LEMMA OldNext ==
  TabInv /\ OldIsReplaced /\ [TabNext]_tabVars => OldIsReplaced'
  <1> SUFFICES ASSUME SessionTyped, ViewTyped, SavesTyped, OldIsReplaced, [TabNext]_tabVars
               PROVE  OldIsReplaced'
    BY DEF TabInv
  <1>0. /\ Nothing # "asked" /\ Nothing # "refused"
        /\ page \in DOMAIN Pages => row \notin {Nothing, "asked", "refused"}
    <2>1. Nothing # "asked" /\ Nothing # "refused"
      BY NothingAssumption
    <2>2. page \in DOMAIN Pages => row \notin {Nothing, "asked", "refused"}
      BY NoStatusIsNothing, PagesAndLogin DEF ViewTyped, Service
    <2>3. QED
      BY <2>1, <2>2
  <1>1. CASE (\E r \in Roles : SignIn(r)) \/ (\E p \in DOMAIN Pages : Visit(p)) \/ LoadMe
    <2>1. fetch' \in {Nothing, "asked"} /\ behind' = (fetch' = Nothing)
      BY <1>1 DEF SignIn, Visit, LoadMe, Open, YoungEnough
    <2>2. QED
      BY <1>0, <2>1 DEF OldIsReplaced
  <1>2. CASE Reload \/ LoadMeFails \/ SignOut \/ Rejected
    <2>1. fetch' = Nothing /\ list' = Nothing
      BY <1>2 DEF Reload, LoadMeFails, SignOut, Rejected, Forget, Blank
    <2>2. QED
      BY <1>0, <2>1 DEF OldIsReplaced
  <1>3. CASE ReadServed
    <2>1. row # Nothing /\ UNCHANGED <<row, list, saves>>
      BY <1>0, <1>3, OnAPage DEF ReadServed
    <2>2. (fetch' = row /\ behind' = FALSE) \/ (fetch' = "refused" /\ behind' = TRUE)
      BY <1>3 DEF ReadServed
    <2>3. row # "refused"
      BY <1>0, <1>3, OnAPage DEF ReadServed
    <2>4. QED
      BY <2>1, <2>2, <2>3 DEF OldIsReplaced
  <1>4. CASE ReadAnswered
    <2>1. /\ fetch \notin {Nothing, "asked"} /\ fetch' = Nothing
          /\ list' = IF fetch = "refused" THEN list ELSE fetch
          /\ UNCHANGED <<row, saves, behind>>
      BY <1>4 DEF ReadAnswered
    <2>2. WillAsk => WillAsk'
      BY <2>1 DEF WillAsk
    <2>3. QED
      BY <1>0, <2>1, <2>2 DEF OldIsReplaced
  <1>5. CASE ReadLost
    BY <1>0, <1>5 DEF ReadLost, OldIsReplaced
  <1>6. CASE Poll
    BY <1>0, <1>6 DEF Poll, OldIsReplaced
  <1>7. CASE /\ page # "login" /\ user # Nothing
             /\ \E b \in Offered(page, user, list) : \E i \in Slots : Press(i, b)
    <2>1. PICK b \in Offered(page, user, list) : \E i \in Slots : Press(i, b)
      BY <1>7
    <2>2. PICK i \in Slots : Press(i, b)
      BY <2>1
    <2>3. page \in DOMAIN Pages /\ b \in Pages[page].buttons
      BY <1>7, OnAPage DEF Offered
    <2>4. UNCHANGED <<row, list, fetch, behind>>
      BY <2>2 DEF Press
    <2>5. WillAsk => WillAsk'
      <3>1. saves[i] = Nothing /\ \A j \in Slots \ {i} : Same(saves[j], saves'[j])
        BY <2>2, <2>3, Pressed
      <3>2. QED
        BY <3>1, OtherWillAsk
    <2>6. QED
      BY <2>4, <2>5 DEF OldIsReplaced
  <1>8. CASE \E i \in Slots : SaveServed(i)
    <2>1. PICK i \in Slots : SaveServed(i)
      BY <1>8
    <2>2. UNCHANGED <<page, list, fetch, behind>>
      BY <2>1 DEF SaveServed
    <2> DEFINE b     == saves[i].button
               k     == saves[i].call
               c     == b.calls[k]
               after == IF CanActivate(Needs(c), granted) THEN After(role, Service, c, row) ELSE {}
    <2>3. /\ SaveOf(page, saves[i]) /\ saves[i].phase = "sent"
          /\ SaveOf(page, saves'[i]) /\ saves'[i].button = b /\ saves'[i].call = k
          /\ \A j \in Slots \ {i} : Same(saves[j], saves'[j])
          /\ row' = row \/ (row' \in after /\ saves'[i].phase = "ok")
      BY <2>1, Served
    <2>4. saves[i] # Nothing /\ saves'[i] # Nothing /\ page \in DOMAIN Pages
      BY <2>3, SaveChanged, OnAPage DEF SaveOf
    <2>5. row' \in after /\ ~b.refreshes => row' = row
      <3>1. ButtonRight(page, b) /\ k \in DOMAIN b.calls
        BY <2>3, <2>4, PagesRight DEF SaveOf, ButtonRight, WellFormed
      <3>2. role \in DOMAIN RolePermissions
        BY RolesKnown DEF SessionTyped
      <3>3. ~b.refreshes => After(role, Pages[page].service, b.calls[k], row) \subseteq {row}
        BY <3>1, <3>2 DEF ButtonRight, Quiet
      <3>4. QED
        BY <3>3 DEF Service
    <2> HIDE DEF after, c, k, b
    <2>6. WillAsk => WillAsk'
      <3>1. SUFFICES ASSUME WillAsk PROVE WillAsk'
        OBVIOUS
      <3>2. CASE b.refreshes /\ k > 1
        BY <2>3, <2>4, <3>2 DEF WillAsk
      <3>3. CASE ~(b.refreshes /\ k > 1)
        BY <2>3, <3>1, <3>3, OtherWillAsk DEF b, k
      <3>4. QED
        BY <3>2, <3>3
    <2>7. row' = row \/ WillAsk'
      BY <2>3, <2>4, <2>5 DEF WillAsk
    <2>8. QED
      BY <2>2, <2>6, <2>7 DEF OldIsReplaced
  <1>9. CASE \E i \in Slots : SaveAnswered(i)
    <2>1. PICK i \in Slots : SaveAnswered(i)
      BY <1>9
    <2>2. page \in DOMAIN Pages
      BY <2>1, OnAPage DEF SaveAnswered
    <2>3. UNCHANGED <<row, list>>
      BY <2>1 DEF SaveAnswered
    <2>4. /\ SaveOf(page, saves[i]) /\ \A j \in Slots \ {i} : saves'[j] = saves[j]
          /\ \/ /\ SaveOf(page, saves'[i]) /\ saves'[i].button = saves[i].button
                /\ saves'[i].call = saves[i].call + 1 /\ UNCHANGED <<fetch, behind>>
             \/ saves[i].button.refreshes /\ Reask
             \/ ~saves[i].button.refreshes /\ UNCHANGED <<fetch, behind>>
      BY <2>1, <2>2, AnsweredSave
    <2>5. CASE /\ SaveOf(page, saves'[i]) /\ saves'[i].button = saves[i].button
               /\ saves'[i].call = saves[i].call + 1 /\ UNCHANGED <<fetch, behind>>
      <3>1. saves'[i] # Nothing /\ saves'[i].call > 1
        <4>1. saves[i].call \in Nat /\ saves[i].call \in 1..Len(saves[i].button.calls)
          BY <2>4, SaveChanged DEF SaveOf
        <4>2. Len(saves[i].button.calls) \in Nat
          BY <2>2, <2>4, PagesRight DEF SaveOf, ButtonRight, WellFormed
        <4>3. saves[i].call >= 1
          BY <4>1, <4>2
        <4>4. saves'[i] # Nothing
          BY <2>5, NothingAssumption DEF SaveOf
        <4>5. QED
          BY <2>5, <4>1, <4>3, <4>4
      <3>2. WillAsk => WillAsk'
        BY <2>4, <2>5, <3>1, OtherWillAsk DEF WillAsk, SaveOf
      <3>3. QED
        BY <2>3, <2>5, <3>2 DEF OldIsReplaced
    <2>6. CASE Reask
      <3>1. \/ fetch' = "asked" /\ (behind => behind')
            \/ /\ fetch' = fetch /\ fetch # Nothing /\ list = Nothing
               /\ behind' = (behind \/ fetch # "asked")
        BY <2>6 DEF Reask, FetchAnew
      <3>2. QED
        BY <1>0, <2>3, <3>1 DEF OldIsReplaced
    <2>7. CASE ~saves[i].button.refreshes /\ UNCHANGED <<fetch, behind>>
      <3>1. WillAsk => WillAsk'
        BY <2>4, <2>7, OtherWillAsk
      <3>2. QED
        BY <2>3, <2>7, <3>1 DEF OldIsReplaced
    <2>8. QED
      BY <2>4, <2>5, <2>6, <2>7
  <1>10. CASE \E i \in Slots : SaveFails(i)
    <2>1. PICK i \in Slots : SaveFails(i)
      BY <1>10
    <2>2. /\ UNCHANGED <<row, list, fetch>>
          /\ behind' = (behind \/ saves[i].phase = "ok" \/ saves[i].call > 1)
      BY <2>1 DEF SaveFails
    <2>3. ~behind' /\ WillAsk => WillAsk'
      <3>1. \A j \in Slots \ {i} : saves'[j] = saves[j]
        BY <2>1, FailedSave
      <3>2. QED
        BY <2>2, <3>1, OtherWillAsk
    <2>4. (fetch = "refused" => behind') /\ (~behind' => ~behind)
      BY <2>2 DEF OldIsReplaced
    <2>5. QED
      BY <2>2, <2>3, <2>4 DEF OldIsReplaced
  <1>11. CASE page # "login" /\ \E h \in DOMAIN ServiceOf("ADMIN", Service) : OthersWrite(h)
    BY <1>11 DEF OthersWrite, OldIsReplaced
  <1>12. CASE page # "login" /\ \E p \in FormPermissions \cap Relevant[page] : EditRole(p)
    <2>1. UNCHANGED <<row, list, fetch, behind>> /\ saves' = Unfair(saves)
      BY <1>12 DEF EditRole
    <2>2. WillAsk => WillAsk'
      <3>1. \A j \in Slots : Same(saves[j], saves'[j])
        BY <2>1, MadeUnfair
      <3>2. QED
        BY <3>1, WillStillAsk
    <2>3. QED
      BY <2>1, <2>2 DEF OldIsReplaced
  <1>13. CASE UNCHANGED tabVars
    <2>1. UNCHANGED <<row, list, fetch, behind, saves>>
      BY <1>13 DEF tabVars
    <2>2. QED
      BY <2>1 DEF OldIsReplaced, WillAsk
  <1>14. QED
    BY <1>1, <1>2, <1>3, <1>4, <1>5, <1>6, <1>7, <1>8, <1>9, <1>10, <1>11, <1>12, <1>13 DEF TabNext

(* When the tab waits for nothing, it shows the row as it is: invalidateQueries
   after a save, which drops the answer that is on its way, leaves no older one
   on the page, in whatever order saves and lists are answered. *)
THEOREM ShowsTheRow == TabSpec => []ShownIsCurrent
  <1>1. OldIsReplaced => ShownIsCurrent
    BY NoSaves DEF OldIsReplaced, WillAsk, ShownIsCurrent, Settled
  <1>2. TabInv /\ OldIsReplaced /\ [TabNext]_tabVars => (TabInv /\ OldIsReplaced)'
    BY TabNextTyped, OldNext
  <1>3. TabInit => TabInv /\ OldIsReplaced
    BY TabInitTyped, OldInit
  <1>4. QED
    BY <1>1, <1>2, <1>3, PTL DEF TabSpec
=============================================================================
