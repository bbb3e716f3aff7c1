---------------------------- MODULE AccountsProofs ----------------------------
(***************************************************************************)
(* Proofs about Accounts for every set of users, tokens, handlers and      *)
(* requests, every interleaving of their statements, and every bound.      *)
(*                                                                         *)
(* The last administrator: what a request has read of the users is true    *)
(* as long as no write overtook it.  Its row then says whether the user is *)
(* an enabled administrator (Known), and when its count has let it take    *)
(* one away, another one is there (Covered).                               *)
(*                                                                         *)
(* Sessions: that one token at most is or can be exchanged is inductive    *)
(* once every session is known to descend from an issued token (Rooted).   *)
(* A session comes back to life, and a user gets a token, only by a        *)
(* request that is already under way: every step either issues one token   *)
(* or issues none (NextTokens).                                            *)
(***************************************************************************)
EXTENDS Accounts, FiniteSetTheorems, TLAPS

RefreshPcs == {"checked", "loaded", "revoked"}
AdminPcs   == {"asked", "admitted", "read", "counted"}

IsAdmin(row) == row.admin /\ row.enabled

(* What a request that nobody overtook has read still tells whether its    *)
(* user is an enabled administrator.                                       *)
Known ==
    \A h \in Handlers \ overtaken :
        req[h].pc \in {"read", "counted"} /\ req[h].wish.kind # "create" =>
            (IsAdmin(req[h].row) <=> req[h].user \in EnabledAdmins)

Covered ==
    \A h \in Handlers \ overtaken :
        req[h].pc = "counted" /\ req[h].wish.kind # "create"
            /\ TakesAdmin(req[h])
        => \E u \in EnabledAdmins : u # req[h].user

(* A new id is in one request's hands only.                                *)
Creations ==
    \A h \in Handlers :
        Administrative(h) /\ req[h].wish.kind = "create" =>
            /\ users[req[h].user] = Unborn
            /\ \A g \in Handlers \ {h} :
                  Administrative(g) => req[g].user # req[h].user

(* A token that a refresh was given was issued, and so was the first one   *)
(* of each session.                                                        *)
Shown ==
    \A h \in Handlers : req[h].pc \in RefreshPcs => tokens[req[h].token] # None

Rooted ==
    \A t \in Tokens : tokens[t] # None => tokens[tokens[t].root] # None

IInv ==
    /\ TypeOK
    /\ Shown
    /\ Rooted
    /\ OneActive
    /\ Known
    /\ Covered
    /\ Creations

-----------------------------------------------------------------------------
(* The requests, kind by kind *)

LEMMA RequestKinds ==
    ASSUME NEW r \in Request
    PROVE  /\ r.pc \in {"verified", "loaded", "revoked"} =>
                 r.user \in Users /\ r.admin \in BOOLEAN
           /\ r.pc \in RefreshPcs => r.user \in Users /\ r.token \in Tokens
           /\ r.pc \in {"changing", "ending"} => r.user \in Users
           /\ r.pc \in AdminPcs =>
                 r.actor \in Users /\ r.user \in Users /\ r.wish \in Wishes
           /\ r.pc \in {"read", "counted"} => r.row \in Row
BY DEF Request, RefreshPcs, AdminPcs

(* A request goes on to its next step.                                     *)
LEMMA RequestSteps ==
    ASSUME NEW r \in Request
    PROVE  /\ r.pc = "loaded" =>
                 LET q == [r EXCEPT !.pc = "revoked"] IN
                 q \in Request /\ q.pc = "revoked" /\ q.token = r.token
                   /\ q.user = r.user
           /\ r.pc = "changing" =>
                 LET q == [r EXCEPT !.pc = "ending"] IN
                 q \in Request /\ q.pc = "ending"
           /\ r.pc = "asked" =>
                 LET q == [r EXCEPT !.pc = "admitted"] IN
                 /\ q \in Request /\ q.pc = "admitted"
                 /\ q.user = r.user /\ q.wish = r.wish
           /\ r.pc = "read" =>
                 LET q == [r EXCEPT !.pc = "counted"] IN
                 /\ q \in Request /\ q.pc = "counted"
                 /\ q.user = r.user /\ q.wish = r.wish /\ q.row = r.row
           /\ Idle \in Request /\ Idle.pc = "idle"
<1>1. r.pc = "loaded" =>
         LET q == [r EXCEPT !.pc = "revoked"] IN
         q \in Request /\ q.pc = "revoked" /\ q.token = r.token /\ q.user = r.user
  BY DEF Request
<1>2. r.pc = "changing" =>
         LET q == [r EXCEPT !.pc = "ending"] IN q \in Request /\ q.pc = "ending"
  BY DEF Request
<1>3. r.pc = "asked" =>
         LET q == [r EXCEPT !.pc = "admitted"] IN
         q \in Request /\ q.pc = "admitted" /\ q.user = r.user /\ q.wish = r.wish
  BY DEF Request
<1>4. r.pc = "read" =>
         LET q == [r EXCEPT !.pc = "counted"] IN
         /\ q \in Request /\ q.pc = "counted"
         /\ q.user = r.user /\ q.wish = r.wish /\ q.row = r.row
  BY DEF Request
<1>5. Idle \in Request /\ Idle.pc = "idle"
  BY DEF Request, Idle
<1> QED
  BY <1>1, <1>2, <1>3, <1>4, <1>5

(* What each request of a session does to the requests.                    *)
LEMMA SessionsRequest ==
    ASSUME TypeOK, NEW h \in Handlers, Sessions(h)
    PROVE  /\ \A g \in Handlers \ {h} : req'[g] = req[g]
           /\ req' \in [Handlers -> Request]
           /\ req'[h].pc \notin AdminPcs /\ req[h].pc \notin AdminPcs
           /\ overtaken' \in {overtaken, overtaken \ {h}}
<1>0. req[h] \in Request /\ req \in [Handlers -> Request]
  BY DEF TypeOK
<1>1. ASSUME NEW u \in Users, Login(h, u)
      PROVE  /\ [pc |-> "verified", user |-> u, admin |-> users[u].admin]
                    \in Request
  BY <1>1 DEF Login, Request, Row
<1>2. ASSUME NEW t \in Tokens, Refresh(h, t)
      PROVE  [pc |-> "checked", user |-> tokens[t].user, token |-> t] \in Request
  BY <1>2 DEF Refresh, Request, TypeOK, Token
<1>3. CASE \E u \in Users : Login(h, u)
  <2>1. PICK u \in Users : Login(h, u)
    BY <1>3
  <2> DEFINE q == [pc |-> "verified", user |-> u, admin |-> users[u].admin]
  <2>2. /\ req[h].pc = "idle" /\ req' = [req EXCEPT ![h] = q]
        /\ overtaken' = overtaken /\ q \in Request
    BY <1>1, <2>1 DEF Login
  <2>3. q.pc = "verified"
    OBVIOUS
  <2> HIDE DEF q
  <2> QED
    BY <1>0, <2>2, <2>3 DEF AdminPcs
<1>4. CASE \E u \in Users : ChangePassword(h, u)
  <2>1. \A u \in Users : [pc |-> "changing", user |-> u] \in Request
    BY DEF Request
  <2> QED
    BY <1>0, <1>4, <2>1 DEF ChangePassword, AdminPcs
<1>5. CASE \E t \in Tokens : Refresh(h, t)
  <2>1. PICK t \in Tokens : Refresh(h, t)
    BY <1>5
  <2> DEFINE q == [pc |-> "checked", user |-> tokens[t].user, token |-> t]
  <2>2. /\ req[h].pc = "idle" /\ req' = [req EXCEPT ![h] = q]
        /\ overtaken' = overtaken /\ q \in Request
    BY <1>2, <2>1 DEF Refresh
  <2>3. q.pc = "checked"
    OBVIOUS
  <2> HIDE DEF q
  <2> QED
    BY <1>0, <2>2, <2>3 DEF AdminPcs
<1>6. CASE \E t \in Tokens : Logout(h, t)
  BY <1>0, <1>6 DEF Logout, AdminPcs
<1>7. CASE StoreLogin(h) \/ StoreNext(h) \/ RevokeAll(h)
  <2>1. Answer(h) /\ req[h].pc \in {"verified", "revoked", "ending"}
    BY <1>7 DEF StoreLogin, StoreNext, RevokeAll, issue
  <2> QED
    BY <1>0, <2>1, RequestSteps DEF Answer, AdminPcs
<1>8. CASE LoadUser(h)
  <2> DEFINE q == [pc |-> "loaded", user |-> req[h].user,
                   token |-> req[h].token, admin |-> users[req[h].user].admin]
  <2>1. users[req[h].user] \in Row => q \in Request
    BY <1>0, <1>8, RequestKinds DEF LoadUser, Request, Row, RefreshPcs
  <2>2. CASE users[req[h].user] \in Row
    BY <1>0, <1>8, <2>1, <2>2 DEF LoadUser, AdminPcs
  <2>3. CASE users[req[h].user] \notin Row
    BY <1>0, <1>8, <2>3, RequestSteps DEF LoadUser, Answer, AdminPcs
  <2> QED
    BY <2>2, <2>3
<1>9. CASE Rotate(h)
  <2>1. /\ req[h].pc = "loaded" /\ overtaken' = overtaken
        /\ req' = [req EXCEPT ![h] = [req[h] EXCEPT !.pc = "revoked"]]
    BY <1>0, <1>9 DEF Rotate
  <2> QED
    BY <1>0, <2>1, RequestSteps DEF AdminPcs
<1>10. CASE StorePassword(h)
  <2>1. /\ req[h].pc = "changing" /\ overtaken' = overtaken
        /\ req' = [req EXCEPT ![h] = [req[h] EXCEPT !.pc = "ending"]]
    BY <1>0, <1>10 DEF StorePassword
  <2> QED
    BY <1>0, <2>1, RequestSteps DEF AdminPcs
<1> QED
  BY <1>3, <1>4, <1>5, <1>6, <1>7, <1>8, <1>9, <1>10 DEF Sessions

(* An administrator's request goes on or ends.                             *)
LEMMA AdministrationRequest ==
    ASSUME TypeOK, NEW h \in Handlers, Administration(h)
    PROVE  /\ \A g \in Handlers \ {h} : req'[g] = req[g]
           /\ req' \in [Handlers -> Request]
           /\ req'[h].pc \in {"idle"} \cup AdminPcs
           /\ req[h].pc \in {"idle"} \cup AdminPcs
           /\ UNCHANGED <<tokens, unnoticed>>
           /\ ~Write(h) => users' = users
                             /\ overtaken' \in {overtaken, overtaken \ {h}}
           /\ req'[h].pc \in AdminPcs =>
                 \/ /\ req[h].pc \in AdminPcs
                    /\ req'[h].user = req[h].user /\ req'[h].wish = req[h].wish
                 \/ /\ req'[h].pc = "asked"
                    /\ \E a \in Users :
                          Ask(h, a, req'[h].user, req'[h].wish)
<1>0. req[h] \in Request /\ req \in [Handlers -> Request]
  BY DEF TypeOK
<1>1. ASSUME NEW a \in Users, NEW u \in Users, NEW w \in Wishes, Ask(h, a, u, w)
      PROVE  /\ req' = [req EXCEPT ![h] =
                          [pc |-> "asked", actor |-> a, user |-> u, wish |-> w]]
             /\ [pc |-> "asked", actor |-> a, user |-> u, wish |-> w] \in Request
             /\ UNCHANGED <<users, tokens, overtaken, unnoticed>>
             /\ req[h].pc = "idle"
  BY <1>1 DEF Ask, Request
<1>2. CASE \E a, u \in Users, w \in Wishes : Ask(h, a, u, w)
  <2>1. PICK a \in Users, u \in Users, w \in Wishes : Ask(h, a, u, w)
    BY <1>2
  <2> DEFINE q == [pc |-> "asked", actor |-> a, user |-> u, wish |-> w]
  <2>2. /\ req' = [req EXCEPT ![h] = q] /\ q \in Request /\ req[h].pc = "idle"
        /\ UNCHANGED <<users, tokens, overtaken, unnoticed>>
    BY <1>1, <2>1
  <2>3. q.pc = "asked" /\ q.user = u /\ q.wish = w
    OBVIOUS
  <2> HIDE DEF q
  <2>4. req'[h] = q /\ \A g \in Handlers \ {h} : req'[g] = req[g]
    BY <1>0, <2>2
  <2>5. \E b \in Users : Ask(h, b, req'[h].user, req'[h].wish)
    BY <2>1, <2>3, <2>4
  <2> QED
    BY <1>0, <2>2, <2>3, <2>4, <2>5 DEF AdminPcs
<1>3. CASE Admit(h) /\ ~Answer(h)
  <2>1. /\ req[h].pc = "asked"
        /\ req' = [req EXCEPT ![h] = [req[h] EXCEPT !.pc = "admitted"]]
        /\ UNCHANGED <<users, tokens, overtaken, unnoticed>>
    BY <1>0, <1>3 DEF Admit
  <2> QED
    BY <1>0, <2>1, RequestSteps DEF AdminPcs
<1>4. CASE Count(h) /\ ~Answer(h)
  <2>1. /\ req[h].pc = "read"
        /\ req' = [req EXCEPT ![h] = [req[h] EXCEPT !.pc = "counted"]]
        /\ UNCHANGED <<users, tokens, overtaken, unnoticed>>
    BY <1>0, <1>4 DEF Count
  <2> QED
    BY <1>0, <2>1, RequestSteps DEF AdminPcs
<1>5. CASE Read(h) /\ ~Answer(h)
  <2> DEFINE found == IF req[h].wish.kind = "create" THEN users[req[h].actor]
                                                     ELSE users[req[h].user]
             q == [pc |-> "read", actor |-> req[h].actor, user |-> req[h].user,
                   wish |-> req[h].wish, row |-> found]
  <2>1. /\ req[h].pc = "admitted" /\ found \in Row
        /\ req' = [req EXCEPT ![h] = q]
        /\ UNCHANGED <<users, tokens, overtaken, unnoticed>>
    BY <1>0, <1>5 DEF Read
  <2>2. q \in Request
    BY <1>0, <2>1, RequestKinds DEF Request, AdminPcs
  <2> QED
    BY <1>0, <2>1, <2>2 DEF AdminPcs
<1>6. CASE Answer(h) /\ (Admit(h) \/ Read(h) \/ Count(h))
  BY <1>0, <1>6, RequestSteps DEF Answer, Admit, Read, Count, AdminPcs
<1>7. CASE Write(h)
  BY <1>0, <1>7, RequestSteps DEF Write, AdminPcs
<1> QED
  BY <1>2, <1>3, <1>4, <1>5, <1>6, <1>7 DEF Administration

-----------------------------------------------------------------------------
(* Tokens: a step issues one or none *)

(* A token stays what it is, but may cease to be active.                   *)
Kept(t) ==
    /\ tokens'[t] = None <=> tokens[t] = None
    /\ tokens[t] # None =>
          /\ tokens'[t].user = tokens[t].user
          /\ tokens'[t].root = tokens[t].root
          /\ tokens'[t].state = "active" => tokens[t].state = "active"

(* Request h stores t as the first or the next token of its session.       *)
Issues(h, t) ==
    /\ req[h].pc \in {"verified", "revoked"}
    /\ tokens[t] = None
    /\ tokens'[t] # None
    /\ tokens'[t].user = req[h].user
    /\ tokens'[t].root = IF req[h].pc = "verified" THEN t
                         ELSE tokens[req[h].token].root
    /\ \A k \in Tokens \ {t} : tokens'[k] = tokens[k]
    /\ req' = [req EXCEPT ![h] = Idle]
    /\ UNCHANGED <<users, unnoticed>>

LEMMA RevokeKeeps ==
    ASSUME TypeOK, NEW S, revoke(S)
    PROVE  /\ tokens' \in [Tokens -> Token \cup {None}]
           /\ \A t \in Tokens : Kept(t)
           /\ \A t \in Tokens \ S : tokens'[t] = tokens[t]
           /\ \A t \in Tokens : tokens'[t] # tokens[t] =>
                 /\ tokens[t] # None /\ tokens[t].state = "active"
                 /\ tokens'[t].state = "revoked"
<1>1. PICK done \in BOOLEAN :
         tokens' = [t \in Tokens |->
                     IF done /\ t \in S /\ tokens[t] # None
                          /\ tokens[t].state = "active"
                     THEN [tokens[t] EXCEPT !.state = "revoked"]
                     ELSE tokens[t]]
  BY DEF revoke
<1>2. ASSUME NEW t \in Tokens
      PROVE  \/ tokens'[t] = tokens[t]
             \/ /\ t \in S /\ tokens[t] \in Token /\ tokens[t].state = "active"
                /\ tokens'[t] \in Token /\ tokens'[t].state = "revoked"
                /\ tokens'[t].user = tokens[t].user
                /\ tokens'[t].root = tokens[t].root
  <2>1. CASE tokens'[t] # tokens[t]
    <3>1. /\ t \in S /\ tokens[t] \in Token /\ tokens[t].state = "active"
          /\ tokens'[t] = [tokens[t] EXCEPT !.state = "revoked"]
      BY <1>1, <2>1 DEF TypeOK
    <3> QED
      BY <3>1 DEF Token
  <2> QED
    BY <2>1
<1>3. \A t \in Tokens : tokens[t] \in Token \cup {None}
  BY DEF TypeOK
<1>4. tokens' \in [Tokens -> Token \cup {None}]
  <2>1. \A t \in Tokens : tokens'[t] \in Token \cup {None}
    BY <1>2, <1>3
  <2> QED
    BY <1>1, <2>1
<1>5. None \notin Token
  BY AccountsAssumption
<1>6. \A t \in Tokens : Kept(t)
  BY <1>2, <1>5 DEF Kept
<1> QED
  BY <1>2, <1>4, <1>5, <1>6

LEMMA IssueAdds ==
    ASSUME TypeOK, Shown, NEW h \in Handlers, StoreLogin(h) \/ StoreNext(h)
    PROVE  /\ tokens' \in [Tokens -> Token \cup {None}]
           /\ access' \subseteq Users \X BOOLEAN
           /\ \E t \in Tokens : Issues(h, t)
<1>0. /\ req[h] \in Request /\ req[h].pc \in {"verified", "revoked"}
      /\ req[h].user \in Users /\ req[h].admin \in BOOLEAN
      /\ req[h].pc = "revoked" => req[h].token \in Tokens
      /\ UNCHANGED <<users, unnoticed>>
  BY RequestKinds DEF StoreLogin, StoreNext, TypeOK, RefreshPcs
<1> DEFINE t == CHOOSE k \in FreeTokens : TRUE
           r == IF req[h].pc = "verified" THEN t ELSE tokens[req[h].token].root
<1>1. t \in Tokens /\ tokens[t] = None
  BY DEF StoreLogin, StoreNext, FreeTokens
<1>2. r \in Tokens
  BY <1>0, <1>1 DEF Shown, TypeOK, Token, RefreshPcs
<1>3. issue(h, t, r)
  BY <1>0 DEF StoreLogin, StoreNext
<1> HIDE DEF t
<1>4. PICK s \in {"active", "missing"} :
         tokens' = [tokens EXCEPT ![t] =
                      [user |-> req[h].user, root |-> r, state |-> s]]
  BY <1>3 DEF issue
<1>5. [user |-> req[h].user, root |-> r, state |-> s] \in Token
  BY <1>0, <1>2 DEF Token
<1>6. /\ tokens'[t] \in Token /\ tokens'[t].user = req[h].user
      /\ tokens'[t].root = r
      /\ \A k \in Tokens \ {t} : tokens'[k] = tokens[k]
      /\ tokens' \in [Tokens -> Token \cup {None}]
  BY <1>1, <1>4, <1>5 DEF TypeOK
<1>7. access' \subseteq Users \X BOOLEAN
  BY <1>0, <1>3 DEF issue, TypeOK
<1>8. req' = [req EXCEPT ![h] = Idle]
  BY <1>3 DEF issue, Answer
<1>9. Issues(h, t)
  BY <1>0, <1>1, <1>6, <1>8, AccountsAssumption DEF Issues
<1> QED
  BY <1>1, <1>6, <1>7, <1>9

LEMMA NextTokens ==
    ASSUME TypeOK, Shown, Next
    PROVE  \/ \A t \in Tokens : Kept(t)
           \/ \E h \in Handlers, t \in Tokens : Issues(h, t)
<1>1. CASE tokens' = tokens
  BY <1>1 DEF Kept
<1>2. ASSUME NEW h \in Handlers, NEW S, revoke(S)
      PROVE  \A t \in Tokens : Kept(t)
  BY <1>2, RevokeKeeps
<1>3. ASSUME NEW h \in Handlers,
             (\E t \in Tokens : Logout(h, t)) \/ Rotate(h) \/ RevokeAll(h)
      PROVE  \A t \in Tokens : Kept(t)
  BY <1>2, <1>3 DEF Logout, Rotate, RevokeAll
<1>4. ASSUME NEW h \in Handlers, StoreLogin(h) \/ StoreNext(h)
      PROVE  \E t \in Tokens : Issues(h, t)
  BY <1>4, IssueAdds
<1>5. ASSUME NEW h \in Handlers, Sessions(h)
      PROVE  \/ tokens' = tokens
             \/ (\E t \in Tokens : Logout(h, t)) \/ Rotate(h) \/ RevokeAll(h)
             \/ StoreLogin(h) \/ StoreNext(h)
  BY <1>5 DEF Sessions, Login, ChangePassword, Refresh, LoadUser, StorePassword
<1>6. ASSUME NEW h \in Handlers, Administration(h) \/ Fail(h)
      PROVE  tokens' = tokens
  BY <1>6, AdministrationRequest DEF Fail
<1>7. CASE Crash
  BY <1>1, <1>7 DEF Crash
<1> QED
  BY <1>1, <1>3, <1>4, <1>5, <1>6, <1>7 DEF Next

-----------------------------------------------------------------------------
(* Requests that deal with tokens: one that a step puts there *)

(* What g has of a token it had before, but for a refresh that begins with *)
(* an active one, and for what it has just read of its user.               *)
Proceeds(g) ==
    /\ req'[g].pc \in RefreshPcs =>
          \/ /\ req[g].pc \in RefreshPcs
             /\ req'[g].token = req[g].token
             /\ req'[g].pc = "revoked" => req[g].pc = "revoked" \/ Rotate(g)
          \/ /\ req'[g].pc = "checked"
             /\ req'[g].token \in Tokens
             /\ tokens[req'[g].token] # None
             /\ tokens[req'[g].token].state = "active"
    /\ req'[g].pc \in {"verified", "loaded", "revoked"} =>
          \/ /\ req[g].pc \in {"verified", "loaded", "revoked"}
             /\ req'[g].user = req[g].user
          \/ users[req'[g].user] \in Row

LEMMA NextRequests ==
    ASSUME TypeOK, Next
    PROVE  \A g \in Handlers : Proceeds(g)
<1>0. req \in [Handlers -> Request]
  BY DEF TypeOK
<1>1. ASSUME NEW g \in Handlers, req'[g] = req[g]
      PROVE  Proceeds(g)
  BY <1>1 DEF Proceeds
<1>2. ASSUME NEW g \in Handlers,
             req'[g].pc \notin {"verified"} \cup RefreshPcs
      PROVE  Proceeds(g)
  BY <1>2 DEF Proceeds, RefreshPcs
<1>3. ASSUME NEW h \in Handlers, Sessions(h)
      PROVE  Proceeds(h)
  <2>1. CASE \E u \in Users : Login(h, u)
    <3>1. PICK u \in Users : Login(h, u)
      BY <2>1
    <3>2. req'[h].pc = "verified" /\ req'[h].user = u /\ users[u] \in Row
      BY <1>0, <3>1 DEF Login
    <3> QED
      BY <3>2 DEF Proceeds, RefreshPcs
  <2>2. CASE \E t \in Tokens : Refresh(h, t)
    <3>1. PICK t \in Tokens : Refresh(h, t)
      BY <2>2
    <3>2. /\ req'[h].pc = "checked" /\ req'[h].token = t
          /\ tokens[t] # None /\ tokens[t].state = "active"
      BY <1>0, <3>1 DEF Refresh
    <3> QED
      BY <3>2 DEF Proceeds
  <2>3. CASE LoadUser(h)
    <3>1. \/ req'[h] = Idle
          \/ /\ req'[h].pc = "loaded" /\ req'[h].token = req[h].token
             /\ req[h].pc = "checked" /\ users[req'[h].user] \in Row
      BY <1>0, <2>3 DEF LoadUser, Answer
    <3> QED
      BY <1>2, <3>1 DEF Proceeds, RefreshPcs, Idle
  <2>4. CASE Rotate(h)
    <3>1. req[h].pc = "loaded" /\ req'[h] = [req[h] EXCEPT !.pc = "revoked"]
      BY <1>0, <2>4 DEF Rotate
    <3>2. /\ req'[h].pc = "revoked" /\ req'[h].token = req[h].token
          /\ req'[h].user = req[h].user
      BY <1>0, <3>1, RequestSteps
    <3> QED
      BY <2>4, <3>1, <3>2 DEF Proceeds, RefreshPcs
  <2>5. CASE StoreLogin(h) \/ StoreNext(h) \/ RevokeAll(h)
    <3>1. Answer(h)
      BY <2>5 DEF StoreLogin, StoreNext, RevokeAll, issue
    <3> QED
      BY <1>0, <1>2, <3>1 DEF Answer, Idle, RefreshPcs
  <2>6. CASE \E u \in Users : ChangePassword(h, u)
    BY <1>0, <1>2, <2>6 DEF ChangePassword, RefreshPcs
  <2>7. CASE \E t \in Tokens : Logout(h, t)
    BY <1>1, <2>7 DEF Logout
  <2>8. CASE StorePassword(h)
    <3>1. req[h].pc = "changing" /\ req'[h] = [req[h] EXCEPT !.pc = "ending"]
      BY <1>0, <2>8 DEF StorePassword
    <3>2. req'[h].pc = "ending"
      BY <1>0, <3>1, RequestSteps
    <3> QED
      BY <1>2, <3>2 DEF RefreshPcs
  <2> QED
    BY <1>3, <2>1, <2>2, <2>3, <2>4, <2>5, <2>6, <2>7, <2>8 DEF Sessions
<1>4. ASSUME NEW h \in Handlers, Administration(h)
      PROVE  Proceeds(h)
  BY <1>2, <1>4, AdministrationRequest DEF RefreshPcs, AdminPcs
<1>5. ASSUME NEW h \in Handlers, Fail(h)
      PROVE  /\ Proceeds(h)
             /\ \A g \in Handlers \ {h} : req'[g] = req[g]
  BY <1>0, <1>2, <1>5 DEF Fail, Answer, Idle, RefreshPcs
<1>6. ASSUME NEW h \in Handlers, Sessions(h) \/ Administration(h)
      PROVE  \A g \in Handlers \ {h} : req'[g] = req[g]
  BY <1>6, SessionsRequest, AdministrationRequest
<1>7. CASE Crash
  BY <1>2, <1>7 DEF Crash, Idle, RefreshPcs
<1>8. ASSUME NEW h \in Handlers, Sessions(h) \/ Administration(h) \/ Fail(h)
      PROVE  \A g \in Handlers : Proceeds(g)
  BY <1>1, <1>3, <1>4, <1>5, <1>6, <1>8
<1> QED
  BY <1>7, <1>8 DEF Next

-----------------------------------------------------------------------------
(* Types *)

LEMMA WrittenType ==
    ASSUME TypeOK, NEW r,
           r.user \in Users, r.wish \in Wishes, r.row \in Row
    PROVE  Written(r) \in Row \cup Absent
<1>1. users[r.user] \in Row \cup Absent /\ r.wish \in Wish
  BY AccountsAssumption DEF TypeOK
<1>2. CASE r.wish.kind = "create"
  <2>1. r.wish.admin \in BOOLEAN
    BY <1>1, <1>2 DEF Wish
  <2> QED
    BY <1>2, <2>1 DEF Written, Row
<1>3. CASE r.wish.kind = "delete"
  BY <1>3 DEF Written, Absent
<1>4. CASE r.wish.kind = "reset"
  BY <1>1, <1>4 DEF Written, Row
<1>5. CASE r.wish.kind = "update"
  <2>1. r.wish.admin \in Choice /\ r.wish.enabled \in Choice
    BY <1>1, <1>5 DEF Wish
  <2>2. Updated(r.wish, r.row) \in Row
    BY <2>1 DEF Updated, Row, Choice
  <2> QED
    BY <1>1, <1>5, <2>2 DEF Written, Row
<1> QED
  BY <1>1, <1>2, <1>3, <1>4, <1>5 DEF Wish

LEMMA NextType ==
    ASSUME TypeOK, Shown, Next
    PROVE  TypeOK'
<1>1. ASSUME NEW h \in Handlers, Sessions(h)
      PROVE  TypeOK'
  <2>0. /\ req[h] \in Request /\ req' \in [Handlers -> Request]
        /\ overtaken' \subseteq Handlers
    BY <1>1, SessionsRequest DEF TypeOK
  <2>1. CASE \/ \E u \in Users : Login(h, u) \/ ChangePassword(h, u)
             \/ (\E t \in Tokens : Refresh(h, t)) \/ LoadUser(h)
    <3>1. events' \in 0..MaxEvents
      BY <2>1, AccountsAssumption
         DEF Login, ChangePassword, Refresh, LoadUser, TypeOK
    <3> QED
      BY <2>0, <2>1, <3>1
         DEF Login, ChangePassword, Refresh, LoadUser, TypeOK
  <2>2. CASE (\E t \in Tokens : Logout(h, t)) \/ RevokeAll(h)
    <3>1. ASSUME NEW t \in Tokens, Logout(h, t)
          PROVE  tokens' \in [Tokens -> Token \cup {None}]
      BY <3>1, RevokeKeeps DEF Logout
    <3>2. tokens' \in [Tokens -> Token \cup {None}]
      BY <2>2, <3>1, RevokeKeeps DEF RevokeAll
    <3> QED
      BY <2>0, <2>2, <3>2 DEF Logout, RevokeAll, TypeOK
  <2>3. CASE Rotate(h)
    <3>1. revoke({req[h].token}) /\ req[h].pc = "loaded"
      BY <2>3 DEF Rotate
    <3>2. tokens' \in [Tokens -> Token \cup {None}]
      BY <3>1, RevokeKeeps
    <3>3. req[h].token \in Tokens /\ tokens[req[h].token] \in Token
      BY <2>0, <3>1, RequestKinds DEF RefreshPcs, Shown, TypeOK
    <3>4. unnoticed' \subseteq Tokens
      BY <2>3, <3>3 DEF Rotate, TypeOK, Token
    <3> QED
      BY <2>0, <2>3, <3>2, <3>4 DEF Rotate, TypeOK
  <2>4. CASE StoreLogin(h) \/ StoreNext(h)
    BY <2>0, <2>4, IssueAdds DEF StoreLogin, StoreNext, TypeOK
  <2>5. CASE StorePassword(h)
    <3>1. req[h].user \in Users
      BY <2>0, <2>5, RequestKinds DEF StorePassword
    <3>2. users' \in [Users -> Row \cup Absent]
      BY <2>5, <3>1 DEF StorePassword, TypeOK, Row
    <3> QED
      BY <2>0, <2>5, <3>2 DEF StorePassword, TypeOK
  <2> QED
    BY <1>1, <2>1, <2>2, <2>3, <2>4, <2>5 DEF Sessions
<1>2. ASSUME NEW h \in Handlers, Administration(h)
      PROVE  TypeOK'
  <2>0. /\ req[h] \in Request /\ req' \in [Handlers -> Request]
        /\ UNCHANGED <<tokens, unnoticed>>
    BY <1>2, AdministrationRequest DEF TypeOK
  <2>1. access' = access /\ events' \in 0..MaxEvents
    <3>1. CASE \E a, u \in Users, w \in Wishes : Ask(h, a, u, w)
      BY <3>1, AccountsAssumption DEF Ask, TypeOK
    <3>2. CASE Admit(h) \/ Read(h) \/ Count(h) \/ Write(h)
      BY <3>2 DEF Admit, Read, Count, Write, TypeOK
    <3> QED
      BY <1>2, <3>1, <3>2 DEF Administration
  <2>2. CASE Write(h)
    <3>1. /\ req[h].user \in Users /\ req[h].wish \in Wishes
          /\ req[h].row \in Row
      BY <2>0, <2>2, RequestKinds DEF Write, AdminPcs
    <3>2. Written(req[h]) \in Row \cup Absent
      BY <3>1, WrittenType
    <3>3. users' \in [Users -> Row \cup Absent]
      BY <2>2, <3>2 DEF Write, TypeOK
    <3>4. overtaken' \subseteq Handlers
      BY <2>2 DEF Write, TypeOK
    <3> QED
      BY <2>0, <2>1, <3>3, <3>4 DEF TypeOK
  <2>3. CASE ~Write(h)
    <3>1. users' = users /\ overtaken' \subseteq Handlers
      BY <1>2, <2>3, AdministrationRequest DEF TypeOK
    <3> QED
      BY <2>0, <2>1, <3>1 DEF TypeOK
  <2> QED
    BY <2>2, <2>3
<1>3. ASSUME NEW h \in Handlers, Fail(h)
      PROVE  TypeOK'
  BY <1>3, RequestSteps DEF Fail, Answer, TypeOK
<1>4. CASE Crash
  <2>1. req' \in [Handlers -> Request]
    BY <1>4 DEF Crash, Request, Idle
  <2>2. users' \in [Users -> Row \cup Absent]
    <3>1. [admin |-> TRUE, enabled |-> TRUE, changed |-> FALSE] \in Row
      BY DEF Row
    <3> QED
      BY <1>4, <3>1 DEF Crash, TypeOK
  <2>3. events' \in 0..MaxEvents
    BY <1>4, AccountsAssumption DEF Crash, TypeOK
  <2> QED
    BY <1>4, <2>1, <2>2, <2>3 DEF Crash, TypeOK
<1> QED
  BY <1>1, <1>2, <1>3, <1>4 DEF Next

-----------------------------------------------------------------------------
(* Sessions do not split *)

LEMMA ShownKeeps ==
    ASSUME TypeOK, Shown, Rooted, Next
    PROVE  Shown' /\ Rooted'
<1>1. \A g \in Handlers : req'[g].pc \in RefreshPcs =>
         /\ req'[g].token \in Tokens
         /\ tokens[req'[g].token] # None
  BY NextRequests, RequestKinds DEF Proceeds, Shown, TypeOK
<1>2. \A t \in Tokens : tokens[t] # None => tokens[t].root \in Tokens
  BY DEF TypeOK, Token
<1>3. CASE \A t \in Tokens : Kept(t)
  BY <1>1, <1>2, <1>3 DEF Kept, Shown, Rooted
<1>4. ASSUME NEW h \in Handlers, NEW t \in Tokens, Issues(h, t)
      PROVE  Shown' /\ Rooted'
  <2>1. \A k \in Tokens : tokens[k] # None =>
           tokens'[k] # None /\ tokens'[k] = tokens[k]
    BY <1>4 DEF Issues
  <2>2. /\ tokens'[t] # None
        /\ tokens'[t].root \in Tokens /\ tokens'[tokens'[t].root] # None
    <3>1. req[h].pc = "revoked" =>
             /\ req[h].token \in Tokens /\ tokens[req[h].token] # None
             /\ tokens[req[h].token].root \in Tokens
             /\ tokens[tokens[req[h].token].root] # None
      BY <1>2, RequestKinds DEF RefreshPcs, Shown, Rooted, TypeOK
    <3> QED
      BY <1>4, <2>1, <3>1 DEF Issues
  <2>3. \A k \in Tokens \ {t} : tokens'[k] = tokens[k]
    BY <1>4 DEF Issues
  <2>4. Rooted'
    BY <1>2, <2>1, <2>2, <2>3 DEF Rooted
  <2>5. Shown'
    BY <1>1, <2>1 DEF Shown
  <2> QED
    BY <2>4, <2>5
<1> QED
  BY <1>3, <1>4, NextTokens

(* What is under way or can be exchanged of a session is no more than it   *)
(* was.                                                                    *)
LEMMA OneActiveLess ==
    ASSUME OneActive, unnoticed \subseteq unnoticed',
           \A r \in Tokens \ unnoticed' :
              /\ ActiveTokens(r)' \subseteq ActiveTokens(r)
              /\ Exchanged(r)' \subseteq Exchanged(r)
    PROVE  OneActive'
BY DEF OneActive

LEMMA RotateOneActive ==
    ASSUME TypeOK, Shown, OneActive, NEW h \in Handlers, Rotate(h)
    PROVE  OneActive'
<1>0. /\ req[h] \in Request /\ req[h].pc = "loaded"
      /\ req[h].token \in Tokens /\ tokens[req[h].token] # None
      /\ tokens[req[h].token].root \in Tokens
  BY RequestKinds DEF Rotate, RefreshPcs, Shown, TypeOK, Token
<1> PICK t \in Tokens : t = req[h].token
  BY <1>0
<1> PICK r \in Tokens : r = tokens[t].root
  BY <1>0
<1>1. /\ req[h] \in Request /\ req[h].pc = "loaded"
      /\ revoke({t})
      /\ unnoticed' = IF tokens'[t] = tokens[t] THEN unnoticed \cup {r}
                                                ELSE unnoticed
      /\ req' = [req EXCEPT ![h] = [req[h] EXCEPT !.pc = "revoked"]]
  BY DEF Rotate, TypeOK
<1>2. tokens[t] # None
  BY <1>0
<1>3. /\ \A k \in Tokens : Kept(k)
      /\ \A k \in Tokens \ {t} : tokens'[k] = tokens[k]
      /\ tokens'[t] # tokens[t] =>
            tokens[t].state = "active" /\ tokens'[t].state = "revoked"
  BY <1>1, <1>2, RevokeKeeps
<1>4. /\ req'[h].pc = "revoked" /\ req'[h].token = t
      /\ \A g \in Handlers \ {h} : req'[g] = req[g]
  BY <1>1, RequestSteps DEF TypeOK
<1>5. \A g \in Handlers : req[g].pc = "revoked" =>
         req[g].token \in Tokens /\ tokens[req[g].token] # None
  BY RequestKinds DEF RefreshPcs, Shown, TypeOK
<1>6. \A k \in Tokens : ActiveTokens(k)' \subseteq ActiveTokens(k)
  BY <1>3 DEF Kept, ActiveTokens
<1>7. \A k \in Tokens \ {r} : Exchanged(k)' \subseteq Exchanged(k)
  BY <1>2, <1>3, <1>4, <1>5 DEF Kept, Exchanged, Under
<1>8. CASE tokens'[t] = tokens[t]
  BY <1>1, <1>6, <1>7, <1>8, OneActiveLess
<1>9. CASE tokens'[t] # tokens[t]
  <2>1. t \in ActiveTokens(r) /\ t \notin ActiveTokens(r)'
    BY <1>2, <1>3, <1>9 DEF ActiveTokens
  <2>2. unnoticed' = unnoticed
    BY <1>1, <1>9
  <2>3. Exchanged(r)' \subseteq Exchanged(r) \cup {h}
    BY <1>3, <1>4, <1>5 DEF Kept, Exchanged, Under
  <2>4. r \notin unnoticed => ActiveTokens(r)' = {} /\ Exchanged(r) = {}
    BY <1>2, <1>6, <2>1 DEF OneActive
  <2>5. ASSUME NEW k \in Tokens \ unnoticed'
        PROVE  /\ \A s, u \in ActiveTokens(k)' : s = u
               /\ \A f, g \in Exchanged(k)' : f = g
               /\ Exchanged(k)' # {} => ActiveTokens(k)' = {}
    <3>1. CASE k = r
      BY <2>2, <2>3, <2>4, <2>5, <3>1
    <3>2. CASE k # r
      BY <1>6, <1>7, <2>2, <2>5, <3>2 DEF OneActive
    <3> QED
      BY <3>1, <3>2
  <2> QED
    BY <2>5 DEF OneActive
<1> QED
  BY <1>8, <1>9

LEMMA IssueOneActive ==
    ASSUME TypeOK, Shown, Rooted, OneActive,
           NEW h \in Handlers, NEW t \in Tokens, Issues(h, t)
    PROVE  OneActive'
<1>1. /\ tokens[t] = None /\ unnoticed' = unnoticed
      /\ \A k \in Tokens \ {t} : tokens'[k] = tokens[k]
      /\ req'[h].pc = "idle" /\ \A g \in Handlers \ {h} : req'[g] = req[g]
  BY DEF Issues, Idle, TypeOK
<1>2. \A g \in Handlers : req[g].pc = "revoked" =>
         req[g].token \in Tokens \ {t} /\ tokens[req[g].token] # None
  BY <1>1, RequestKinds DEF RefreshPcs, Shown, TypeOK
<1>3. \A k \in Tokens : Exchanged(k)' \subseteq Exchanged(k) \ {h}
  BY <1>1, <1>2 DEF Exchanged, Under
<1>4. \A k \in Tokens : ActiveTokens(k)' \subseteq ActiveTokens(k) \cup {t}
  BY <1>1 DEF ActiveTokens
<1>5. \A k \in Tokens : tokens'[t].root # k =>
         ActiveTokens(k)' \subseteq ActiveTokens(k)
  BY <1>1 DEF ActiveTokens
<1>6. ASSUME NEW r \in Tokens \ unnoticed, r = tokens'[t].root
      PROVE  ActiveTokens(r) = {} /\ Exchanged(r)' = {}
  <2>1. CASE req[h].pc = "verified"
    <3>1. r = t
      BY <1>6, <2>1 DEF Issues
    <3>2. \A k \in Tokens : tokens[k] # None => tokens[k].root # r
      BY <1>1, <3>1 DEF Rooted
    <3>3. Exchanged(r) = {}
      BY <1>2, <3>2 DEF Exchanged, Under
    <3> QED
      BY <1>3, <3>2, <3>3 DEF ActiveTokens
  <2>2. CASE req[h].pc = "revoked"
    <3>1. h \in Exchanged(r)
      BY <1>6, <2>2 DEF Issues, Exchanged, Under
    <3> QED
      BY <1>3, <1>6, <3>1 DEF OneActive
  <2> QED
    BY <2>1, <2>2 DEF Issues
<1>7. ASSUME NEW r \in Tokens \ unnoticed'
      PROVE  /\ \A s, u \in ActiveTokens(r)' : s = u
             /\ \A f, g \in Exchanged(r)' : f = g
             /\ Exchanged(r)' # {} => ActiveTokens(r)' = {}
  <2>1. CASE r = tokens'[t].root
    BY <1>1, <1>4, <1>6, <1>7, <2>1
  <2>2. CASE r # tokens'[t].root
    BY <1>1, <1>3, <1>5, <1>7, <2>2 DEF OneActive
  <2> QED
    BY <2>1, <2>2
<1> QED
  BY <1>7 DEF OneActive

LEMMA NextOneActive ==
    ASSUME TypeOK, Shown, Rooted, OneActive, Next
    PROVE  OneActive'
<1>1. ASSUME NEW h \in Handlers, Rotate(h)
      PROVE  OneActive'
  BY <1>1, RotateOneActive
<1>2. ASSUME NEW h \in Handlers, NEW t \in Tokens, Issues(h, t)
      PROVE  OneActive'
  BY <1>2, IssueOneActive
<1>3. CASE /\ \A t \in Tokens : Kept(t)
           /\ \A h \in Handlers : ~Rotate(h)
  <2>1. unnoticed' = unnoticed
    <3>1. ASSUME NEW h \in Handlers, Sessions(h)
          PROVE  unnoticed' = unnoticed
      BY <1>3, <3>1
         DEF Sessions, Login, ChangePassword, Refresh, Logout, StoreLogin,
             LoadUser, StoreNext, StorePassword, RevokeAll
    <3>2. ASSUME NEW h \in Handlers, Administration(h) \/ Fail(h)
          PROVE  unnoticed' = unnoticed
      BY <3>2, AdministrationRequest DEF Fail
    <3> QED
      BY <3>1, <3>2 DEF Next, Crash
  <2>2. \A r \in Tokens : ActiveTokens(r)' \subseteq ActiveTokens(r)
    BY <1>3 DEF Kept, ActiveTokens
  <2>3. \A g \in Handlers : req'[g].pc = "revoked" =>
           /\ req[g].pc = "revoked" /\ req'[g].token = req[g].token
           /\ req[g].token \in Tokens /\ tokens[req[g].token] # None
    BY <1>3, NextRequests, RequestKinds
       DEF Proceeds, RefreshPcs, Shown, TypeOK
  <2>4. \A r \in Tokens : Exchanged(r)' \subseteq Exchanged(r)
    BY <1>3, <2>3 DEF Kept, Exchanged, Under
  <2> QED
    BY <2>1, <2>2, <2>4, OneActiveLess
<1> QED
  BY <1>1, <1>2, <1>3, NextTokens

-----------------------------------------------------------------------------
(* The last enabled administrator *)

(* More than one enabled administrator: another one than u.                *)
LEMMA AnotherAdmin ==
    ASSUME NEW u \in Users, ~isLastEnabledAdmin
    PROVE  \E v \in EnabledAdmins : v # u
<1> SUFFICES ASSUME EnabledAdmins \subseteq {u} PROVE FALSE
  OBVIOUS
<1>1. IsFiniteSet({u}) /\ Cardinality({u}) = 1
  BY FS_Singleton
<1>2. IsFiniteSet(EnabledAdmins) /\ Cardinality(EnabledAdmins) <= 1
  BY <1>1, FS_Subset
<1> QED
  BY <1>2 DEF isLastEnabledAdmin

(* A write that nobody overtook leaves an administrator where there was    *)
(* one.                                                                    *)
LEMMA WriteGuarded ==
    ASSUME TypeOK, Known, Covered, Creations, NEW h \in Handlers \ overtaken,
           Write(h), EnabledAdmins # {}
    PROVE  EnabledAdmins' # {}
<1> DEFINE r == req[h]
           u == req[h].user
<1>1. /\ r \in Request /\ r.pc = "counted"
      /\ u \in Users /\ r.wish \in Wish /\ r.row \in Row
  BY RequestKinds, AccountsAssumption DEF Write, TypeOK, AdminPcs
<1>2. /\ users' = [users EXCEPT ![u] = Written(r)]
      /\ users \in [Users -> Row \cup Absent]
  BY DEF Write, TypeOK
<1>3. \A v \in EnabledAdmins : v # u => v \in EnabledAdmins'
  BY <1>1, <1>2 DEF EnabledAdmins
<1>4. CASE u \notin EnabledAdmins
  BY <1>3, <1>4
<1>5. CASE u \in EnabledAdmins /\ r.wish.kind = "create"
  <2>1. users[u] = Unborn
    BY <1>1, <1>5 DEF Creations, Administrative
  <2>2. users[u] \in Row
    BY <1>5 DEF EnabledAdmins
  <2> QED
    BY <2>1, <2>2, AccountsAssumption DEF Absent
<1>6. CASE u \in EnabledAdmins /\ r.wish.kind # "create" /\ TakesAdmin(r)
  <2>1. PICK v \in EnabledAdmins : v # u
    BY <1>1, <1>6 DEF Covered
  <2> QED
    BY <1>3, <2>1
<1>7. CASE u \in EnabledAdmins /\ r.wish.kind = "reset"
  <2>1. /\ users[u] \in Row /\ users[u].admin /\ users[u].enabled
        /\ Written(r) = [users[u] EXCEPT !.changed = FALSE]
    BY <1>7 DEF EnabledAdmins, Written
  <2>2. Written(r) \in Row /\ Written(r).admin /\ Written(r).enabled
    BY <2>1 DEF Row
  <2> QED
    BY <1>1, <1>2, <2>2 DEF EnabledAdmins
<1>8. CASE /\ u \in EnabledAdmins /\ r.wish.kind \in {"update", "delete"}
           /\ ~TakesAdmin(r)
  <2>1. users[u] \in Row /\ users[u].admin /\ users[u].enabled
    BY <1>8 DEF EnabledAdmins
  <2>2. r.row.admin /\ r.row.enabled
    BY <1>1, <1>8 DEF Known, IsAdmin
  <2>3. /\ r.wish.kind = "update"
        /\ Updated(r.wish, r.row).admin /\ Updated(r.wish, r.row).enabled
    BY <1>8, <2>2 DEF TakesAdmin
  <2>4. r.wish.admin \in Choice /\ r.wish.enabled \in Choice
    BY <1>1, <2>3 DEF Wish
  <2>5. Updated(r.wish, r.row) \in Row
    BY <1>1, <2>4 DEF Updated, Row, Choice
  <2>6. Written(r) = [Updated(r.wish, r.row) EXCEPT !.changed = users[u].changed]
    BY <2>1, <2>3 DEF Written
  <2>7. Written(r) \in Row /\ Written(r).admin /\ Written(r).enabled
    BY <2>1, <2>3, <2>5, <2>6 DEF Row
  <2> QED
    BY <1>1, <1>2, <2>7 DEF EnabledAdmins
<1> QED
  BY <1>1, <1>4, <1>5, <1>6, <1>7, <1>8 DEF Wish

(* No step but a write changes who is an enabled administrator while there *)
(* is one.                                                                 *)
LEMMA AdminsSame ==
    ASSUME TypeOK, Next, \A h \in Handlers : ~Write(h),
           EnabledAdmins # {} \/ ~Crash
    PROVE  /\ EnabledAdmins' = EnabledAdmins
           /\ \A u \in Users : users[u] = Unborn <=> users'[u] = Unborn
<1>1. CASE users' = users
  BY <1>1 DEF EnabledAdmins
<1>2. ASSUME NEW h \in Handlers, StorePassword(h)
      PROVE  /\ EnabledAdmins' = EnabledAdmins
             /\ \A u \in Users : users[u] = Unborn <=> users'[u] = Unborn
  <2>1. req[h].user \in Users
    BY <1>2, RequestKinds DEF StorePassword, TypeOK
  <2>2. \A u \in Users :
           \/ users'[u] = users[u]
           \/ /\ users[u] \in Row /\ users'[u] \in Row
              /\ users'[u].admin = users[u].admin
              /\ users'[u].enabled = users[u].enabled
    BY <1>2, <2>1 DEF StorePassword, TypeOK, Row
  <2> QED
    BY <2>2, AccountsAssumption DEF EnabledAdmins, Absent
<1>3. ASSUME NEW h \in Handlers, Sessions(h), ~StorePassword(h)
      PROVE  users' = users
  BY <1>3 DEF Sessions, Login, ChangePassword, Refresh, Logout, StoreLogin,
              LoadUser, Rotate, StoreNext, RevokeAll
<1>4. ASSUME NEW h \in Handlers, Administration(h) \/ Fail(h)
      PROVE  users' = users
  BY <1>4, AdministrationRequest DEF Fail
<1>5. CASE Crash
  <2>1. \E u \in Users : users[u] \in Row
    BY <1>5 DEF EnabledAdmins
  <2> QED
    BY <1>1, <1>5, <2>1 DEF Crash
<1> QED
  BY <1>1, <1>2, <1>3, <1>4, <1>5 DEF Next

(* Requests of administrators: of a step of h, every other one is as it    *)
(* was, and so are the history and the administrators, but for a write.    *)
LEMMA NextCreations ==
    ASSUME TypeOK, Creations, Next
    PROVE  Creations'
<1>0. \A g \in Handlers : Administrative(g) => req[g].user \in Users
  BY RequestKinds DEF Administrative, TypeOK, AdminPcs
<1>1. ASSUME NEW h \in Handlers,
             \A g \in Handlers \ {h} : req'[g] = req[g],
             ~Administrative(h)',
             \A g \in Handlers \ {h} : Administrative(g)
                /\ req[g].wish.kind = "create" => users'[req[g].user] = Unborn
      PROVE  Creations'
  BY <1>1 DEF Creations, Administrative
<1>2. ASSUME NEW h \in Handlers, Sessions(h) \/ Fail(h)
      PROVE  Creations'
  <2>1. /\ \A g \in Handlers \ {h} : req'[g] = req[g]
        /\ ~Administrative(h)'
    BY <1>2, SessionsRequest
       DEF Fail, Answer, Idle, Administrative, AdminPcs, TypeOK
  <2>2. \A u \in Users : users[u] = Unborn => users'[u] = Unborn
    <3>1. CASE StorePassword(h)
      <4>1. req[h].user \in Users
        BY <3>1, RequestKinds DEF StorePassword, TypeOK
      <4> QED
        BY <3>1, <4>1, AccountsAssumption DEF StorePassword, TypeOK, Absent
    <3>2. CASE ~StorePassword(h)
      <4>1. users' = users
        BY <1>2, <3>2
           DEF Fail, Sessions, Login, ChangePassword, Refresh, Logout,
               StoreLogin, LoadUser, Rotate, StoreNext, RevokeAll
      <4> QED
        BY <4>1
    <3> QED
      BY <3>1, <3>2
  <2> QED
    BY <1>0, <1>1, <2>1, <2>2 DEF Creations
<1>3. ASSUME NEW h \in Handlers, Write(h)
      PROVE  Creations'
  <2>1. /\ \A g \in Handlers \ {h} : req'[g] = req[g]
        /\ ~Administrative(h)' /\ Administrative(h)
        /\ users' = [users EXCEPT ![req[h].user] = Written(req[h])]
    BY <1>3 DEF Write, Idle, Administrative, TypeOK
  <2>2. \A g \in Handlers \ {h} : Administrative(g)
           /\ req[g].wish.kind = "create" =>
               users[req[g].user] = Unborn /\ req[g].user # req[h].user
    BY <2>1 DEF Creations
  <2> QED
    BY <1>0, <1>1, <2>1, <2>2 DEF TypeOK
<1>4. ASSUME NEW h \in Handlers, Administration(h), ~Write(h)
      PROVE  Creations'
  <2>1. /\ \A g \in Handlers \ {h} : req'[g] = req[g]
        /\ users' = users
        /\ req'[h].pc \in {"idle"} \cup AdminPcs
    BY <1>4, AdministrationRequest
  <2>2. CASE req'[h].pc = "idle"
    BY <1>1, <2>1, <2>2 DEF Creations, Administrative
  <2>3. CASE /\ req[h].pc \in AdminPcs
             /\ req'[h].user = req[h].user /\ req'[h].wish = req[h].wish
    BY <2>1, <2>3 DEF Creations, Administrative, AdminPcs
  <2>4. ASSUME NEW a \in Users, Ask(h, a, req'[h].user, req'[h].wish)
        PROVE  Creations'
    <3>1. /\ req'[h].wish.kind = "create" =>
                /\ users[req'[h].user] = Unborn
                /\ \A g \in Handlers : Administrative(g) =>
                      req[g].user # req'[h].user
          /\ req'[h].wish.kind # "create" => users[req'[h].user] # Unborn
      BY <2>4 DEF Ask, Fresh
    <3> QED
      BY <2>1, <3>1 DEF Creations, Administrative
  <2> QED
    BY <1>4, <2>1, <2>2, <2>3, <2>4, AdministrationRequest
<1>5. CASE Crash
  BY <1>5 DEF Crash, Creations, Administrative, Idle
<1> QED
  BY <1>2, <1>3, <1>4, <1>5 DEF Next

(* A step of request h: the others keep what they know, unless they were   *)
(* overtaken.                                                              *)
LEMMA OneMoves ==
    ASSUME Known, Covered, NEW h \in Handlers,
           \A g \in Handlers \ {h} : req'[g] = req[g],
           \A g \in Handlers \ {h} :
              g \notin overtaken' /\ req[g].pc \in {"read", "counted"} =>
                  g \notin overtaken /\ EnabledAdmins' = EnabledAdmins,
           h \notin overtaken' /\ req'[h].pc \in {"read", "counted"}
             /\ req'[h].wish.kind # "create" =>
               /\ IsAdmin(req'[h].row) <=> req'[h].user \in EnabledAdmins'
               /\ req'[h].pc = "counted" /\ TakesAdmin(req'[h]) =>
                     \E u \in EnabledAdmins' : u # req'[h].user
    PROVE  Known' /\ Covered'
<1>1. Known'
  BY DEF Known
<1>2. Covered'
  BY DEF Covered
<1> QED
  BY <1>1, <1>2

LEMMA NextKnown ==
    ASSUME TypeOK, Known, Covered, Next
    PROVE  Known' /\ Covered'
<1>1. ASSUME NEW h \in Handlers, Sessions(h) \/ Fail(h)
      PROVE  Known' /\ Covered'
  <2>1. /\ \A g \in Handlers \ {h} : req'[g] = req[g]
        /\ req'[h].pc \notin AdminPcs
        /\ overtaken' \in {overtaken, overtaken \ {h}}
    BY <1>1, SessionsRequest DEF Fail, Answer, Idle, AdminPcs, TypeOK
  <2>2. EnabledAdmins' = EnabledAdmins
    <3>1. CASE StorePassword(h)
      <4>1. req[h].user \in Users
        BY <3>1, RequestKinds DEF StorePassword, TypeOK
      <4>2. \A u \in Users :
               \/ users'[u] = users[u]
               \/ /\ users[u] \in Row /\ users'[u] \in Row
                  /\ users'[u].admin = users[u].admin
                  /\ users'[u].enabled = users[u].enabled
        BY <3>1, <4>1 DEF StorePassword, TypeOK, Row
      <4> QED
        BY <4>2 DEF EnabledAdmins
    <3>2. CASE ~StorePassword(h)
      <4>1. users' = users
        BY <1>1, <3>2
           DEF Fail, Sessions, Login, ChangePassword, Refresh, Logout,
               StoreLogin, LoadUser, Rotate, StoreNext, RevokeAll
      <4> QED
        BY <4>1 DEF EnabledAdmins
    <3> QED
      BY <3>1, <3>2
  <2> QED
    BY <2>1, <2>2, OneMoves DEF AdminPcs
<1>2. ASSUME NEW h \in Handlers, Write(h)
      PROVE  Known' /\ Covered'
  <2>1. /\ \A g \in Handlers \ {h} : req'[g] = req[g]
        /\ req'[h].pc = "idle"
        /\ \A g \in Handlers \ {h} :
              g \notin overtaken' /\ req[g].pc \in {"read", "counted"} =>
                  g \notin overtaken /\ EnabledAdmins' = EnabledAdmins
    BY <1>2 DEF Write, Idle, TypeOK
  <2> QED
    BY <2>1, OneMoves
<1>3. ASSUME NEW h \in Handlers, Administration(h), ~Write(h)
      PROVE  Known' /\ Covered'
  <2>0. req[h] \in Request
    BY DEF TypeOK
  <2>1. /\ \A g \in Handlers \ {h} : req'[g] = req[g]
        /\ users' = users
        /\ overtaken' \in {overtaken, overtaken \ {h}}
    BY <1>3, AdministrationRequest
  <2>2. EnabledAdmins' = EnabledAdmins
    BY <2>1 DEF EnabledAdmins
  <2>3. CASE req'[h].pc \notin {"read", "counted"}
    BY <2>1, <2>2, <2>3, OneMoves
  <2>4. CASE Read(h) /\ req'[h].pc \in {"read", "counted"}
    <3> DEFINE found == IF req[h].wish.kind = "create" THEN users[req[h].actor]
                                                       ELSE users[req[h].user]
               q == [pc |-> "read", actor |-> req[h].actor,
                     user |-> req[h].user, wish |-> req[h].wish, row |-> found]
    <3>1. found \in Row /\ req'[h] = q /\ req[h].user \in Users
      BY <2>0, <2>4, RequestKinds DEF Read, Answer, Idle, AdminPcs, TypeOK
    <3>2. /\ req'[h].pc = "read" /\ req'[h].row = found
          /\ req'[h].user = req[h].user /\ req'[h].wish = req[h].wish
      BY <3>1
    <3>3. req'[h].wish.kind # "create" =>
             (IsAdmin(req'[h].row) <=> req'[h].user \in EnabledAdmins')
      BY <2>2, <3>1, <3>2 DEF EnabledAdmins, IsAdmin
    <3> QED
      BY <2>1, <2>2, <3>2, <3>3, OneMoves
  <2>5. CASE Count(h) /\ req'[h].pc \in {"read", "counted"}
    <3>1. /\ req[h].pc = "read" /\ req'[h] = [req[h] EXCEPT !.pc = "counted"]
          /\ overtaken' = overtaken
          /\ ~(TakesAdmin(req[h]) /\ isLastEnabledAdmin)
      BY <2>5 DEF Count, Answer, Idle, TypeOK
    <3>2. /\ req'[h].pc = "counted" /\ req'[h].row = req[h].row
          /\ req'[h].user = req[h].user /\ req'[h].wish = req[h].wish
          /\ req[h].user \in Users
      BY <2>0, <3>1, RequestSteps, RequestKinds DEF AdminPcs
    <3>3. TakesAdmin(req'[h]) => \E u \in EnabledAdmins' : u # req'[h].user
      BY <2>2, <3>1, <3>2, AnotherAdmin DEF TakesAdmin
    <3>4. h \notin overtaken' /\ req'[h].wish.kind # "create" =>
             (IsAdmin(req'[h].row) <=> req'[h].user \in EnabledAdmins')
      BY <2>2, <3>1, <3>2 DEF Known
    <3> QED
      BY <2>1, <2>2, <3>3, <3>4, OneMoves
  <2>6. CASE Admit(h)
    <3>1. req'[h] = Idle \/ req'[h] = [req[h] EXCEPT !.pc = "admitted"]
      BY <2>6 DEF Admit, Answer, TypeOK
    <3>2. req'[h].pc \notin {"read", "counted"}
      BY <2>0, <2>6, <3>1, RequestSteps DEF Admit
    <3> QED
      BY <2>3, <3>2
  <2>7. CASE \E a, u \in Users, w \in Wishes : Ask(h, a, u, w)
    <3>1. req'[h].pc \notin {"read", "counted"}
      BY <2>7 DEF Ask, TypeOK
    <3> QED
      BY <2>3, <3>1
  <2> QED
    BY <1>3, <2>3, <2>4, <2>5, <2>6, <2>7 DEF Administration
<1>4. CASE Crash
  BY <1>4 DEF Crash, Known, Covered, Idle
<1> QED
  BY <1>1, <1>2, <1>3, <1>4 DEF Next

-----------------------------------------------------------------------------
(* The theorems *)

LEMMA InitInv == Init => IInv
<1> SUFFICES ASSUME Init PROVE IInv
  OBVIOUS
<1>1. \A h \in Handlers : req[h] = Idle /\ req[h].pc = "idle"
  BY DEF Init, Idle
<1>2. TypeOK
  <2>1. req \in [Handlers -> Request]
    BY DEF Init, Request, Idle
  <2>2. users \in [Users -> Row \cup Absent]
    BY DEF Init, Absent
  <2>3. events \in 0..MaxEvents
    BY AccountsAssumption DEF Init
  <2> QED
    BY <2>1, <2>2, <2>3 DEF Init, TypeOK
<1>3. Shown /\ Rooted
  BY <1>1 DEF Init, Shown, Rooted, RefreshPcs
<1>4. \A r \in Tokens : ActiveTokens(r) = {} /\ Exchanged(r) = {}
  BY <1>1 DEF Init, ActiveTokens, Exchanged, Under
<1>5. OneActive
  BY <1>4 DEF OneActive
<1>6. Known /\ Covered /\ Creations
  BY <1>1 DEF Known, Covered, Creations, Administrative
<1> QED
  BY <1>2, <1>3, <1>5, <1>6 DEF IInv

LEMMA NextInv == IInv /\ [Next]_vars => IInv'
<1> SUFFICES ASSUME IInv, [Next]_vars PROVE IInv'
  OBVIOUS
<1>1. CASE Next
  BY <1>1, NextType, ShownKeeps, NextOneActive, NextKnown, NextCreations DEF IInv
<1>2. CASE UNCHANGED vars
  BY <1>2 DEF vars, IInv, TypeOK, Shown, Rooted, OneActive, ActiveTokens,
              Exchanged, Under, Known, Covered, Creations, Administrative,
              EnabledAdmins
<1> QED
  BY <1>1, <1>2

(* The inductive invariant holds in every reachable state.                 *)
THEOREM Invariance == Spec => []IInv
<1> QED
  BY InitInv, NextInv, PTL DEF Spec

(* Whatever requests, failures and crashes come together, the tables and   *)
(* the requests are well formed.                                           *)
THEOREM TypeCorrect == Spec => []TypeOK
<1>1. IInv => TypeOK
  BY DEF IInv
<1> QED
  BY <1>1, Invariance, PTL

(* A session splits only where a refresh went on although its UPDATE       *)
(* changed no row (auth_handler.go:141), for any number of requests at     *)
(* once and any failures.                                                  *)
THEOREM OneActiveHolds == Spec => []OneActive
<1>1. IInv => OneActive
  BY DEF IInv
<1> QED
  BY <1>1, Invariance, PTL

(* The last-admin protection of Update and Delete fails only to a write    *)
(* that came between the statements of another request, for any number of  *)
(* administrators and of requests at once.                                 *)
THEOREM LastAdminGuardedHolds == Spec => LastAdminGuarded
<1> DEFINE A == EnabledAdmins # {} /\ EnabledAdmins' = {} =>
                  \E h \in overtaken : req[h].pc = "counted" /\ req'[h] = Idle
<1>1. IInv /\ [Next]_vars => [A]_vars
  <2> SUFFICES ASSUME IInv, Next, EnabledAdmins # {}, EnabledAdmins' = {}
               PROVE  \E h \in overtaken : req[h].pc = "counted" /\ req'[h] = Idle
    OBVIOUS
  <2>1. PICK h \in Handlers : Write(h)
    BY AdminsSame DEF IInv
  <2>2. h \in overtaken
    BY <2>1, WriteGuarded DEF IInv
  <2>3. req[h].pc = "counted" /\ req'[h] = Idle
    BY <2>1 DEF Write, IInv, TypeOK
  <2> QED
    BY <2>2, <2>3
<1> QED
  BY <1>1, Invariance, PTL DEF Spec, LastAdminGuarded

LEMMA OverStep ==
    ASSUME IInv, Next, NEW r \in Tokens, Over(r)
    PROVE  Over(r)'
<1> USE DEF IInv
<1>1. \A t \in Tokens : tokens[t] # None /\ tokens[t].root = r =>
         tokens[t].state # "active"
  BY DEF Over, ActiveTokens
<1>2. \A g \in Handlers : req[g].pc \in RefreshPcs =>
         /\ req[g].token \in Tokens /\ tokens[req[g].token] # None
         /\ tokens[req[g].token].root # r
  BY RequestKinds DEF Over, Refreshing, Under, RefreshPcs, Shown, TypeOK
<1>3. \A g \in Handlers : req'[g].pc \in RefreshPcs =>
         /\ req'[g].token \in Tokens /\ tokens[req'[g].token] # None
         /\ tokens[req'[g].token].root # r
  BY <1>1, <1>2, NextRequests DEF Proceeds
<1>4. CASE \A t \in Tokens : Kept(t)
  BY <1>1, <1>3, <1>4
     DEF Kept, Over, ActiveTokens, Refreshing, Under, RefreshPcs
<1>5. ASSUME NEW h \in Handlers, NEW t \in Tokens, Issues(h, t)
      PROVE  Over(r)'
  <2>1. /\ tokens[t] = None
        /\ \A k \in Tokens \ {t} : tokens'[k] = tokens[k]
    BY <1>5 DEF Issues
  <2>2. r # t /\ tokens'[r] # None
    BY <2>1 DEF Over
  <2>3. tokens'[t].root # r
    BY <1>2, <1>5, <2>2 DEF Issues, RefreshPcs
  <2>4. ActiveTokens(r)' = {}
    BY <1>1, <2>1, <2>3 DEF ActiveTokens
  <2>5. Refreshing(r)' = {}
    BY <1>3, <2>1 DEF Refreshing, Under, RefreshPcs
  <2> QED
    BY <2>2, <2>4, <2>5 DEF Over
<1> QED
  BY <1>4, <1>5, NextTokens

(* A session that is over and of which no refresh is under way stays so,   *)
(* whatever tokens are shown, and whatever fails.                          *)
THEOREM OverStaysOverHolds == Spec => OverStaysOver
<1>1. IInv /\ [Next]_vars =>
         [\A r \in Tokens : Over(r) => Over(r)']_vars
  BY OverStep
<1> QED
  BY <1>1, Invariance, PTL DEF Spec, OverStaysOver

LEMMA ShutOutStep ==
    ASSUME IInv, Next, NEW u \in Users, ShutOut(u)
    PROVE  ShutOut(u)' /\ Issued(u)' = Issued(u)
<1> USE DEF IInv
<1>1. users[u] = Gone /\ Gone \notin Row /\ Gone # Unborn
  BY AccountsAssumption DEF ShutOut, Absent
<1>2. users'[u] = Gone
  <2>1. ASSUME NEW h \in Handlers, Write(h), req[h].user = u
        PROVE  users'[u] = Gone
    <3>1. /\ req[h] \in Request /\ req[h].wish \in Wish
          /\ users'[u] = Written(req[h])
      BY <2>1, RequestKinds, AccountsAssumption DEF Write, TypeOK, AdminPcs
    <3>2. req[h].wish.kind # "create"
      BY <1>1, <2>1 DEF Creations, Write, Administrative
    <3> QED
      BY <1>1, <2>1, <3>1, <3>2 DEF Written, Wish
  <2>2. ASSUME NEW h \in Handlers, Write(h), req[h].user # u
        PROVE  users'[u] = Gone
    BY <1>1, <2>2 DEF Write, TypeOK
  <2>3. ASSUME NEW h \in Handlers, StorePassword(h)
        PROVE  users'[u] = Gone
    BY <1>1, <2>3 DEF StorePassword, TypeOK
  <2>4. ASSUME NEW h \in Handlers, Sessions(h), ~StorePassword(h)
        PROVE  users' = users
    BY <2>4 DEF Sessions, Login, ChangePassword, Refresh, Logout, StoreLogin,
                LoadUser, Rotate, StoreNext, RevokeAll
  <2>5. ASSUME NEW h \in Handlers, Administration(h) \/ Fail(h), ~Write(h)
        PROVE  users' = users
    BY <2>5, AdministrationRequest DEF Fail
  <2>6. CASE Crash
    BY <1>1, <2>6 DEF Crash, TypeOK
  <2> QED
    BY <1>1, <2>1, <2>2, <2>3, <2>4, <2>5, <2>6 DEF Next
<1>3. \A g \in Handlers : req'[g].pc \in {"verified", "loaded", "revoked"} =>
         req'[g].user # u
  BY <1>1, NextRequests DEF Proceeds, ShutOut
<1>4. Issued(u)' = Issued(u)
  <2>1. CASE \A t \in Tokens : Kept(t)
    BY <2>1 DEF Kept, Issued
  <2>2. ASSUME NEW h \in Handlers, NEW t \in Tokens, Issues(h, t)
        PROVE  Issued(u)' = Issued(u)
    BY <2>2 DEF Issues, Issued, ShutOut
  <2> QED
    BY <2>1, <2>2, NextTokens
<1> QED
  BY <1>2, <1>3, <1>4 DEF ShutOut

(* A deleted user gets no token, but from a request that had read the row  *)
(* before it went (auth_handler.go:127).                                   *)
THEOREM IssuedToUsersHolds == Spec => IssuedToUsers
<1>1. IInv /\ [Next]_vars =>
         [\A u \in Users : ShutOut(u) =>
             ShutOut(u)' /\ Issued(u)' = Issued(u)]_vars
  BY ShutOutStep
<1> QED
  BY <1>1, Invariance, PTL DEF Spec, IssuedToUsers
=============================================================================
