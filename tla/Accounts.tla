------------------------------- MODULE Accounts -------------------------------
(***************************************************************************)
(* Users, their sessions and the requests that change them                 *)
(*   internal/api/handler/auth_handler.go   Login, RefreshToken, Logout,   *)
(*                                          ChangePassword                 *)
(*   internal/api/handler/users_handler.go  Create, Update, Delete,        *)
(*                                          ResetPassword                  *)
(*   internal/api/middleware/{auth,force_password}.go                      *)
(*   internal/db/db.go                      SeedAdminUser                  *)
(*   web/src/lib/api.ts                     the browser's side of refresh  *)
(*                                                                         *)
(* A session is a chain of refresh tokens: a login stores the first, each  *)
(* refresh revokes the one it was given and stores the next.  A handler is *)
(* several statements without a transaction, so requests interleave        *)
(* between them, a crash may come between them, and a statement may fail:  *)
(* the request ends with an error, or goes on where nobody looks at the    *)
(* result.  Clients show any token they were ever given, as often as they  *)
(* like and at once: a page that gets 401 on several calls does (api.ts).  *)
(*                                                                         *)
(* Abstracted: passwords are right (a wrong one changes nothing), names    *)
(* are unique, a token that expires is one that is not shown again (no     *)
(* step becomes possible by it), roles are admin or not.  Two-factor codes *)
(* are in WebSettings, the browser's side of a session in WebSession.      *)
(***************************************************************************)
EXTENDS Naturals, FiniteSets

CONSTANTS
    Users,      \* ids of users: an id is never given out twice
    Tokens,     \* refresh tokens (bound: each is issued once)
    Handlers,   \* HTTP request goroutines
    Unborn,     \* row of an id that was not created yet
    Gone,       \* row of an id that was deleted
    Wishes,     \* what administrators ask for
    None,       \* no token, a field that a request does not name
    MaxEvents   \* bound: requests of administrators, password changes, crashes

VARIABLES
    users,      \* table users: id -> row
    tokens,     \* table refresh_tokens: token -> row
    access,     \* users and roles of the access tokens issued
    req,        \* the request goroutines
    events,     \* requests and crashes so far
    overtaken,  \* history: requests that read the users before another's write
    unnoticed   \* history: sessions in which a refresh's UPDATE changed no row

vars == <<users, tokens, access, req, events, overtaken, unnoticed>>

Row    == [admin : BOOLEAN, enabled : BOOLEAN, changed : BOOLEAN]
Absent == {Unborn, Gone}

(* root is the login that the token descends from.  A token is "missing"   *)
(* when its INSERT failed; revoked_at is set by a refresh, a logout or a   *)
(* password change.                                                        *)
Token == [user : Users, root : Tokens,
          state : {"missing", "active", "revoked"}]

Choice == BOOLEAN \cup {None}

Wish == [kind : {"update"}, admin : Choice, enabled : Choice]
          \cup [kind : {"delete", "reset"}]
          \cup [kind : {"create"}, admin : BOOLEAN]

Request ==
    [pc : {"idle"}]
      \cup [pc : {"verified"}, user : Users, admin : BOOLEAN]
      \cup [pc : {"checked"}, user : Users, token : Tokens]
      \cup [pc : {"loaded", "revoked"}, user : Users, token : Tokens,
            admin : BOOLEAN]
      \cup [pc : {"changing", "ending"}, user : Users]
      \cup [pc : {"asked", "admitted"}, actor : Users, user : Users,
            wish : Wishes]
      \cup [pc : {"read", "counted"}, actor : Users, user : Users,
            wish : Wishes, row : Row]

ASSUME AccountsAssumption ==
    /\ IsFiniteSet(Users)
    /\ Unborn # Gone
    /\ Row \cap Absent = {}
    /\ None \notin Token \cup BOOLEAN
    /\ Wishes \subseteq Wish
    /\ MaxEvents \in Nat

Idle == [pc |-> "idle"]

TypeOK ==
    /\ users \in [Users -> Row \cup Absent]
    /\ tokens \in [Tokens -> Token \cup {None}]
    /\ access \subseteq Users \X BOOLEAN
    /\ req \in [Handlers -> Request]
    /\ events \in 0..MaxEvents
    /\ overtaken \subseteq Handlers
    /\ unnoticed \subseteq Tokens

EnabledAdmins ==
    {u \in Users : users[u] \in Row /\ users[u].admin /\ users[u].enabled}

Administrative(h) == req[h].pc \in {"asked", "admitted", "read", "counted"}

-----------------------------------------------------------------------------
Init ==
    /\ users \in [Users -> Row \cup {Unborn}]
    /\ EnabledAdmins # {}
    /\ tokens = [t \in Tokens |-> None]
    /\ access = {}
    /\ req = [h \in Handlers |-> Idle]
    /\ events = 0
    /\ overtaken = {}
    /\ unnoticed = {}

Answer(h) ==
    /\ req' = [req EXCEPT ![h] = Idle]
    /\ overtaken' = overtaken \ {h}

(* A statement, or GenerateTokens, fails where the handler looks at it.    *)
Fail(h) ==
    /\ req[h].pc \notin {"idle", "revoked", "ending"}
    /\ Answer(h)
    /\ UNCHANGED <<users, tokens, access, events, unnoticed>>

-----------------------------------------------------------------------------
(* Refresh tokens *)

FreeTokens == {t \in Tokens : tokens[t] = None}

(* GenerateTokens and storeRefreshToken, whose error is ignored: the       *)
(* client gets token t, of the session that began with r, whether or not   *)
(* the table does.                                                         *)
issue(h, t, r) ==
    /\ \E state \in {"active", "missing"} :
          tokens' = [tokens EXCEPT ![t] =
                       [user |-> req[h].user, root |-> r, state |-> state]]
    /\ access' = access \cup {<<req[h].user, req[h].admin>>}
    /\ Answer(h)

(* UPDATE refresh_tokens SET revoked_at ... WHERE revoked_at IS NULL, for  *)
(* the tokens in S; the error is ignored.                                  *)
revoke(S) ==
    \E done \in BOOLEAN :
        tokens' = [t \in Tokens |->
                     IF done /\ t \in S /\ tokens[t] # None
                          /\ tokens[t].state = "active"
                     THEN [tokens[t] EXCEPT !.state = "revoked"]
                     ELSE tokens[t]]

(* Login: the row is read, the password verified, the account enabled.     *)
Login(h, u) ==
    /\ req[h].pc = "idle"
    /\ users[u] \in Row
    /\ users[u].enabled
    /\ req' = [req EXCEPT ![h] = [pc |-> "verified", user |-> u,
                                  admin |-> users[u].admin]]
    /\ UNCHANGED <<users, tokens, access, events, overtaken, unnoticed>>

StoreLogin(h) ==
    /\ req[h].pc = "verified"
    /\ FreeTokens # {}
    /\ LET t == CHOOSE t \in FreeTokens : TRUE IN issue(h, t, t)
    /\ UNCHANGED <<users, events, unnoticed>>

(* Mutant: a token that was revoked is accepted.                           *)
RefreshRevoked(h, t) ==
    /\ req[h].pc = "idle"
    /\ tokens[t] # None
    /\ tokens[t].state # "missing"
    /\ req' = [req EXCEPT ![h] =
                 [pc |-> "checked", user |-> tokens[t].user, token |-> t]]
    /\ UNCHANGED <<users, tokens, access, events, overtaken, unnoticed>>

(* A client shows refresh token t: refreshTokenRevoked.  Any other token   *)
(* is refused and nothing changes.                                         *)
Refresh(h, t) ==
    /\ req[h].pc = "idle"
    /\ tokens[t] # None
    /\ tokens[t].state = "active"
    /\ req' = [req EXCEPT ![h] =
                 [pc |-> "checked", user |-> tokens[t].user, token |-> t]]
    /\ UNCHANGED <<users, tokens, access, events, overtaken, unnoticed>>

(* Mutant: a user that is gone is taken for a plain one.                   *)
LoadUserAny(h) ==
    /\ req[h].pc = "checked"
    /\ LET u == req[h].user IN
       req' = [req EXCEPT ![h] =
                 [pc |-> "loaded", user |-> u, token |-> req[h].token,
                  admin |-> users[u] \in Row /\ users[u].admin]]
    /\ UNCHANGED <<users, tokens, access, events, overtaken, unnoticed>>

(* The user of the token; a missing one ends the request with 401.         *)
LoadUser(h) ==
    /\ req[h].pc = "checked"
    /\ LET u == req[h].user IN
       IF users[u] \in Row
       THEN /\ req' = [req EXCEPT ![h] =
                         [pc |-> "loaded", user |-> u, token |-> req[h].token,
                          admin |-> users[u].admin]]
            /\ UNCHANGED overtaken
       ELSE Answer(h)
    /\ UNCHANGED <<users, tokens, access, events, unnoticed>>

(* Mutant: the old token is left as it is.                                 *)
RotateKeeps(h) ==
    /\ req[h].pc = "loaded"
    /\ req' = [req EXCEPT ![h].pc = "revoked"]
    /\ UNCHANGED <<users, tokens, access, events, overtaken, unnoticed>>

(* Neither an error nor the number of rows that the UPDATE changed is      *)
(* looked at: it may be none.                                              *)
Rotate(h) ==
    /\ req[h].pc = "loaded"
    /\ LET t == req[h].token IN
       /\ revoke({t})
       /\ unnoticed' = IF tokens'[t] = tokens[t]
                       THEN unnoticed \cup {tokens[t].root} ELSE unnoticed
    /\ req' = [req EXCEPT ![h].pc = "revoked"]
    /\ UNCHANGED <<users, access, events, overtaken>>

StoreNext(h) ==
    /\ req[h].pc = "revoked"
    /\ FreeTokens # {}
    /\ LET t == CHOOSE t \in FreeTokens : TRUE IN
       issue(h, t, tokens[req[h].token].root)
    /\ UNCHANGED <<users, events, unnoticed>>

Logout(h, t) ==
    /\ req[h].pc = "idle"
    /\ tokens[t] # None
    /\ revoke({t})
    /\ UNCHANGED <<users, access, req, events, overtaken, unnoticed>>

(* ChangePassword: the hash is read and verified ...                       *)
ChangePassword(h, u) ==
    /\ \E role \in BOOLEAN : <<u, role>> \in access
    /\ req[h].pc = "idle"
    /\ users[u] \in Row
    /\ events < MaxEvents
    /\ events' = events + 1
    /\ req' = [req EXCEPT ![h] = [pc |-> "changing", user |-> u]]
    /\ UNCHANGED <<users, tokens, access, overtaken, unnoticed>>

(* ... the new one is written (to no row if the user was deleted) ...      *)
StorePassword(h) ==
    /\ req[h].pc = "changing"
    /\ LET u == req[h].user IN
       users' = IF users[u] \in Row
                THEN [users EXCEPT ![u].changed = TRUE] ELSE users
    /\ req' = [req EXCEPT ![h].pc = "ending"]
    /\ UNCHANGED <<tokens, access, events, overtaken, unnoticed>>

(* ... and every session of the user ends.                                 *)
RevokeAll(h) ==
    /\ req[h].pc = "ending"
    /\ revoke({t \in Tokens : tokens[t] # None /\ tokens[t].user = req[h].user})
    /\ Answer(h)
    /\ UNCHANGED <<users, access, events, unnoticed>>

-----------------------------------------------------------------------------
(* Administration *)

(* generateUUID gives u to nobody else.                                    *)
Fresh(u) ==
    /\ users[u] = Unborn
    /\ \A g \in Handlers : Administrative(g) => req[g].user # u

(* A request with an admin's access token, whose role may be outdated.     *)
Ask(h, a, u, w) ==
    /\ <<a, TRUE>> \in access
    /\ req[h].pc = "idle"
    /\ IF w.kind = "create" THEN Fresh(u) ELSE users[u] # Unborn
    /\ events < MaxEvents
    /\ events' = events + 1
    /\ req' = [req EXCEPT ![h] =
                 [pc |-> "asked", actor |-> a, user |-> u, wish |-> w]]
    /\ UNCHANGED <<users, tokens, access, overtaken, unnoticed>>

(* ForcePasswordChange: the actor exists and has changed the password.     *)
Admit(h) ==
    /\ req[h].pc = "asked"
    /\ LET a == req[h].actor IN
       IF users[a] \in Row /\ users[a].changed
       THEN req' = [req EXCEPT ![h].pc = "admitted"] /\ UNCHANGED overtaken
       ELSE Answer(h)
    /\ UNCHANGED <<users, tokens, access, events, unnoticed>>

(* The row that an update would write, given the row it read.              *)
Updated(w, row) ==
    [row EXCEPT !.admin = IF w.admin = None THEN @ ELSE w.admin,
                !.enabled = IF w.enabled = None THEN @ ELSE w.enabled]

(* Nobody deletes or disables the own account.                             *)
AgainstOneself(r, row) ==
    /\ r.actor = r.user
    /\ \/ r.wish.kind = "delete"
       \/ r.wish.kind = "update" /\ ~Updated(r.wish, row).enabled

(* The first SELECT of each handler: the target's row, or for Create the   *)
(* creator's.                                                              *)
Read(h) ==
    /\ req[h].pc = "admitted"
    /\ LET r == req[h]
           found == IF r.wish.kind = "create" THEN users[r.actor]
                                              ELSE users[r.user] IN
       IF found \notin Row \/ AgainstOneself(r, found)
       THEN Answer(h)
       ELSE /\ req' = [req EXCEPT ![h] =
                         [pc |-> "read", actor |-> r.actor, user |-> r.user,
                          wish |-> r.wish, row |-> found]]
            /\ UNCHANGED overtaken
    /\ UNCHANGED <<users, tokens, access, events, unnoticed>>

(* The request takes away an enabled administrator, as far as it has read. *)
TakesAdmin(r) ==
    /\ r.row.admin /\ r.row.enabled
    /\ \/ r.wish.kind = "delete"
       \/ /\ r.wish.kind = "update"
          /\ ~(Updated(r.wish, r.row).admin /\ Updated(r.wish, r.row).enabled)

(* Mutant: disabled administrators are counted, too.                       *)
isLastEnabledAdminAny ==
    Cardinality({u \in Users : users[u] \in Row /\ users[u].admin}) <= 1

isLastEnabledAdmin == Cardinality(EnabledAdmins) <= 1

(* The second SELECT, where it is needed.                                  *)
Count(h) ==
    /\ req[h].pc = "read"
    /\ IF TakesAdmin(req[h]) /\ isLastEnabledAdmin
       THEN Answer(h)
       ELSE req' = [req EXCEPT ![h].pc = "counted"] /\ UNCHANGED overtaken
    /\ UNCHANGED <<users, tokens, access, events, unnoticed>>

(* What the statement leaves of the user's row.  UPDATE writes role and    *)
(* enabled, both as read or as wished, and no other column.                *)
Written(r) ==
    LET now == users[r.user] IN
    CASE r.wish.kind = "create" ->
            [admin |-> r.wish.admin, enabled |-> TRUE, changed |-> FALSE]
      [] r.wish.kind = "delete" -> Gone
      [] r.wish.kind = "reset" /\ now \in Row ->
            [now EXCEPT !.changed = FALSE]
      [] r.wish.kind = "update" /\ now \in Row ->
            [Updated(r.wish, r.row) EXCEPT !.changed = now.changed]
      [] OTHER -> now

(* The others that have read the users by now were overtaken, if the       *)
(* enabled administrators change.                                          *)
Write(h) ==
    /\ req[h].pc = "counted"
    /\ users' = [users EXCEPT ![req[h].user] = Written(req[h])]
    /\ req' = [req EXCEPT ![h] = Idle]
    /\ overtaken' = (overtaken \cup
                       {g \in Handlers : /\ EnabledAdmins' # EnabledAdmins
                                         /\ req[g].pc \in {"read", "counted"}})
                    \ {h}
    /\ UNCHANGED <<tokens, access, events, unnoticed>>

-----------------------------------------------------------------------------
(* The process ends and starts again: the tables stay, and an empty table  *)
(* of users gets a new administrator (SeedAdminUser).                      *)
Crash ==
    /\ events < MaxEvents
    /\ events' = events + 1
    /\ req' = [h \in Handlers |-> Idle]
    /\ overtaken' = {}
    /\ IF \A u \in Users : users[u] \notin Row
       THEN users' \in {[users EXCEPT ![u] = [admin |-> TRUE, enabled |-> TRUE,
                                              changed |-> FALSE]] :
                          u \in {u \in Users : users[u] = Unborn}}
       ELSE users' = users
    /\ UNCHANGED <<tokens, access, unnoticed>>

Sessions(h) ==
    \/ \E u \in Users : Login(h, u) \/ ChangePassword(h, u)
    \/ \E t \in Tokens : Refresh(h, t) \/ Logout(h, t)
    \/ StoreLogin(h) \/ LoadUser(h) \/ Rotate(h) \/ StoreNext(h)
    \/ StorePassword(h) \/ RevokeAll(h)

Administration(h) ==
    \/ \E a, u \in Users, w \in Wishes : Ask(h, a, u, w)
    \/ Admit(h) \/ Read(h) \/ Count(h) \/ Write(h)

Next ==
    \/ \E h \in Handlers : Sessions(h) \/ Administration(h) \/ Fail(h)
    \/ Crash

Spec == Init /\ [][Next]_vars

-----------------------------------------------------------------------------
(* Properties *)

(* "last-admin protection" checks before it writes: the last enabled       *)
(* administrator goes only by a write that another request's write         *)
(* overtook, between its own first SELECT and its statement.  Neither a    *)
(* crash, nor a statement that fails, nor a role in an access token that   *)
(* is no longer true does it alone.                                        *)
LastAdminGuarded ==
    [][EnabledAdmins # {} /\ EnabledAdmins' = {} =>
          \E h \in overtaken : req[h].pc = "counted" /\ req'[h] = Idle]_vars

(* Of the session that began with r: the tokens that can be exchanged, the *)
(* refreshes between their UPDATE and their INSERT, and all its refreshes. *)
ActiveTokens(r) ==
    {t \in Tokens : /\ tokens[t] # None
                    /\ tokens[t].root = r
                    /\ tokens[t].state = "active"}
Under(r, pcs) ==
    {h \in Handlers : req[h].pc \in pcs /\ tokens[req[h].token].root = r}
Exchanged(r)  == Under(r, {"revoked"})
Refreshing(r) == Under(r, {"checked", "loaded", "revoked"})

(* A session does not split: of all tokens that descend from one login,    *)
(* one at most can be exchanged or is being exchanged, however many        *)
(* refreshes, logouts and password changes come together.  The one way it  *)
(* can: a refresh went on although its UPDATE changed no row, because it   *)
(* failed or because the token had been revoked since it was checked.      *)
OneActive ==
    \A r \in Tokens \ unnoticed :
        /\ \A s, t \in ActiveTokens(r) : s = t
        /\ \A g, h \in Exchanged(r) : g = h
        /\ Exchanged(r) # {} => ActiveTokens(r) = {}

(* A session that is over (logged out, ended by a password change, broken  *)
(* off in the middle of a refresh) and of which no refresh is under way    *)
(* does not come back to life, whatever token of it is shown.              *)
Over(r) ==
    /\ tokens[r] # None
    /\ ActiveTokens(r) = {}
    /\ Refreshing(r) = {}

OverStaysOver == [][\A r \in Tokens : Over(r) => Over(r)']_vars

(* A deleted user gets nothing more: once the row is gone and no request   *)
(* that has read it is on its way, none gets that far and no token of that *)
(* user is issued, though the old ones stay in the table unrevoked.        *)
Issued(u) == {t \in Tokens : tokens[t] # None /\ tokens[t].user = u}
ShutOut(u) ==
    /\ users[u] = Gone
    /\ \A h \in Handlers :
          req[h].pc \in {"verified", "loaded", "revoked"} => req[h].user # u

IssuedToUsers ==
    [][\A u \in Users :
          ShutOut(u) => ShutOut(u)' /\ Issued(u)' = Issued(u)]_vars
=============================================================================
