----------------------------- MODULE WebSession -----------------------------
(***************************************************************************)
(* The web UI's session, in the tabs of one browser                        *)
(*   web/src/lib/api.ts        api, refreshAccessToken, set/clearTokens    *)
(*   web/src/stores/auth.ts    login, logout, fetchUser                    *)
(*   web/src/App.tsx           App, ProtectedRoute                         *)
(*   web/src/pages/Login.tsx, components/layout/Header.tsx                 *)
(*   internal/api/handler/auth_handler.go   RefreshToken                   *)
(*                                                                         *)
(* A tab keeps the pair of tokens in two variables of its own and a copy   *)
(* in localStorage, which it reads only when it loads.  Any call that      *)
(* answers 401 exchanges the refresh token and is sent once more; if the   *)
(* exchange fails the tokens are cleared and the tab goes to /login by a   *)
(* full load.  The server checks a refresh token, and a moment later       *)
(* revokes it and issues the next pair.                                    *)
(*                                                                         *)
(* Abstracted: a pair of tokens is a number.  The server handles a call at *)
(* the moment its answer is taken up; a refresh is handled in steps.  When *)
(* the code sets location.href the old page is gone at once.               *)
(***************************************************************************)
EXTENDS Naturals, FiniteSets

CONSTANTS
    Tabs,
    Calls,     \* calls the tabs can have in flight together
    People,    \* who logs in in this browser
    Nobody,
    MaxPairs,  \* bound: pairs of tokens issued
    MaxExpired \* bound: pairs whose access token runs out

ASSUME SessionAssumption ==
    /\ IsFiniteSet(Calls) /\ "" \notin Tabs
    /\ Nobody \notin People
    /\ MaxPairs \in Nat \ {0} /\ MaxExpired \in Nat

NoPair == 0
Pairs == 1..MaxPairs

VARIABLES
    owner,     \* whose the pairs issued so far are
    expired,   \* the access tokens of pairs 1..expired have run out
    revoked,   \* pairs whose refresh token is revoked or has run out
    over,      \* history: whether a session was ended
    stored,    \* the pair in localStorage
    mine,      \* tab -> accessToken, refreshToken
    user,      \* tab -> useAuth().user
    loading,   \* tab -> useAuth().loading
    path,      \* tab -> "/login", or "/" for any page behind ProtectedRoute
    call,      \* call -> how far it is
    exchanged, \* history: pairs whose successor reached a tab
    overlap    \* history: tab -> its user changed while a call was in flight

serverVars == <<owner, expired, revoked, over>>
tokenVars == <<stored, mine, exchanged>>
viewVars == <<user, loading, path, overlap>>
sessionVars == <<serverVars, tokenVars, viewVars, call>>

Issued == DOMAIN owner
CallsOf(t) == {c \in Calls : call[c].tab = t}
Idle == [tab |-> "", pc |-> "idle", what |-> "get", pair |-> NoPair, key |-> NoPair]
Sent(t, what, pair) ==
    [tab |-> t, pc |-> "sent", what |-> what, pair |-> pair, key |-> NoPair]

SessionTypeOK ==
    /\ \E n \in 0..MaxPairs : owner \in [1..n -> People]
    /\ expired \in Issued \cup {NoPair}
    /\ revoked \subseteq Issued
    /\ over \in BOOLEAN
    /\ stored \in Issued \cup {NoPair}
    /\ mine \in [Tabs -> Issued \cup {NoPair}]
    /\ user \in [Tabs -> People \cup {Nobody}]
    /\ loading \in [Tabs -> BOOLEAN]
    /\ path \in [Tabs -> {"/", "/login"}]
    /\ call \in [Calls ->
           [tab  : Tabs \cup {""},
            pc   : {"idle", "sent", "refresh", "checked", "rotated", "refused", "again",
                    "lost"},
            what : {"get", "me", "login"},
            pair : Issued \cup {NoPair},    \* the access token it left with
            key  : Issued \cup {NoPair}]]   \* the refresh token it exchanges
    /\ exchanged \subseteq Issued
    /\ overlap \in [Tabs -> BOOLEAN]

(* A tab loads: the module variables are read from localStorage, and where *)
(* there is a token App asks who it belongs to.                            *)
Loaded(t, n) ==
    LET rest == [c \in Calls |-> IF call[c].tab = t THEN Idle ELSE call[c]]
    IN  IF n = NoPair THEN {rest}
        ELSE {[rest EXCEPT ![c] = Sent(t, "me", n)] : c \in {d \in Calls : rest[d] = Idle}}

SessionInit ==
    /\ \E n \in 0..1 : owner \in [1..n -> People]
    /\ expired \in 0..Cardinality(Issued) /\ revoked = {} /\ over = FALSE
    /\ stored = Cardinality(Issued)
    /\ mine = [t \in Tabs |-> stored]
    /\ user = [t \in Tabs |-> Nobody]
    /\ loading = [t \in Tabs |-> stored # NoPair]
    /\ path = [t \in Tabs |-> IF stored = NoPair THEN "/login" ELSE "/"]
    /\ call \in {f \in [Calls -> {Idle} \cup {Sent(t, "me", stored) : t \in Tabs}] :
          \A t \in Tabs : Cardinality({c \in Calls : f[c].tab = t}) =
                              IF stored = NoPair THEN 0 ELSE 1}
    /\ exchanged = {}
    /\ overlap = [t \in Tabs |-> FALSE]

-----------------------------------------------------------------------------
(* The server *)

(* GenerateTokens and storeRefreshToken.                                   *)
Fresh == Cardinality(Issued) + 1
Issue(p) ==
    /\ Fresh <= MaxPairs
    /\ owner' = [n \in 1..Fresh |-> IF n = Fresh THEN p ELSE owner[n]]

(* All have the same 15 minutes.                                           *)
AccessExpires ==
    /\ expired + 1 \in Issued /\ expired < MaxExpired
    /\ expired' = expired + 1
    /\ UNCHANGED <<owner, revoked, over, tokenVars, viewVars, call>>

(* The password was changed or reset, the user deleted, or seven days have *)
(* passed.  Bound: once.                                                   *)
SessionEnds(p) ==
    LET his == {n \in Issued : owner[n] = p}
    IN  /\ his # {} /\ ~over
        /\ over' = TRUE
        /\ revoked' = revoked \cup his
        /\ UNCHANGED <<owner, expired, tokenVars, viewVars, call>>

RefreshCheck(c) ==
    /\ call[c].pc = "refresh"
    /\ call[c].key \notin revoked
    /\ call' = [call EXCEPT ![c].pc = "checked"]
    /\ UNCHANGED <<serverVars, tokenVars, viewVars>>

RefreshRefused(c) ==
    /\ call[c].pc = "refresh"
    /\ call[c].key \in revoked
    /\ call' = [call EXCEPT ![c].pc = "refused", ![c].pair = NoPair, ![c].key = NoPair]
    /\ UNCHANGED <<serverVars, tokenVars, viewVars>>

Rotate(c) ==
    LET key == call[c].key
    IN  /\ call[c].pc = "checked"
        /\ Issue(owner[key])
        /\ revoked' = revoked \cup {key}
        /\ call' = [call EXCEPT ![c].pc = "rotated", ![c].pair = Fresh]
        /\ UNCHANGED <<expired, over, tokenVars, viewVars>>

-----------------------------------------------------------------------------
(* api.ts *)

(* Mutant: localStorage keeps the token it has.                            *)
setTokensUnsaved(t, n) ==
    /\ mine' = [mine EXCEPT ![t] = n]
    /\ stored' = IF stored = NoPair THEN n ELSE stored

(* The two writes to localStorage are one step: no script of a tab runs    *)
(* between them.  (Another tab, of a process of its own, would have to     *)
(* load in that very moment to read half a pair.)                          *)
setTokens(t, n) ==
    /\ mine' = [mine EXCEPT ![t] = n]
    /\ stored' = n

clearTokens(t) ==
    /\ mine' = [mine EXCEPT ![t] = NoPair]
    /\ stored' = NoPair

Done(c) == call' = [call EXCEPT ![c] = Idle]
Waiting(c) == call[c].pc \in {"sent", "again"}

(* The old page goes, its calls with it (a refresh among them may still be *)
(* done, its answer goes nowhere); the new one starts from localStorage,   *)
(* which holds the pair n.                                                 *)
Reload(t, n, where) ==
    /\ \E done \in SUBSET {c \in CallsOf(t) : call[c].pc \in {"refresh", "checked"}} :
          revoked' = revoked \cup {call[c].key : c \in done}
    /\ stored' = n
    /\ mine' = [mine EXCEPT ![t] = n]
    /\ user' = [user EXCEPT ![t] = Nobody]
    /\ loading' = [loading EXCEPT ![t] = n # NoPair]
    /\ path' = [path EXCEPT ![t] = IF n = NoPair THEN "/login" ELSE where]
    /\ call' \in Loaded(t, n)
    /\ overlap' = [overlap EXCEPT ![t] = FALSE]
    /\ UNCHANGED <<owner, expired, over, exchanged>>

(* What the server may answer to a call, by the token it left with.  A     *)
(* login needs none; it is refused with the same status.                   *)
Valid(n) == n > expired
Welcome(k) == Valid(k.pair) \/ k.what = "login"
Unauthorized(k) == ~Valid(k.pair) \/ k.what = "login"

(* Any other error (the rate limit comes before the token is looked at),   *)
(* and a 401 where there is no refresh token or to the second try, is      *)
(* handed to the caller as an answer like any other: fetchUser does        *)
(* nothing, Login says "Invalid credentials".                              *)
AnsweredError(c) ==
    /\ Waiting(c)
    /\ Done(c)
    /\ UNCHANGED <<serverVars, tokenVars, viewVars>>

(* 403, password change required: the tab loads /settings (the promise is  *)
(* resolved first).                                                        *)
MustChange(c) ==
    LET k == call[c]
    IN  /\ k.pc = "sent" /\ k.what = "get" /\ Welcome(k)
        /\ Reload(call[c].tab, stored, "/")

(* refreshAccessToken                                                      *)
Got401(c) ==
    LET k == call[c]
    IN  /\ k.pc = "sent" /\ Unauthorized(k) /\ mine[call[c].tab] # NoPair
        /\ call' = [call EXCEPT ![c].pc = "refresh",
                                   ![c].pair = NoPair, ![c].key = mine[k.tab]]
        /\ UNCHANGED <<serverVars, tokenVars, viewVars>>

(* Its request or its answer is lost.                                      *)
RefreshLost(c) ==
    /\ call[c].pc \in {"refresh", "rotated"}
    /\ call' = [call EXCEPT ![c].pc = "refused", ![c].pair = NoPair, ![c].key = NoPair]
    /\ UNCHANGED <<serverVars, tokenVars, viewVars>>

Retry(c) ==
    LET k == call[c]
    IN  /\ k.pc = "rotated"
        /\ setTokens(call[c].tab, k.pair)
        /\ exchanged' = exchanged \cup {k.key}
        /\ call' = [call EXCEPT ![c] = [Sent(k.tab, k.what, k.pair) EXCEPT !.pc = "again"]]
        /\ UNCHANGED <<serverVars, viewVars>>

(* The caller's catch, where it has one.  Login has none: its button stays *)
(* disabled until the tab is loaded again.                                 *)
Throw(c) ==
    /\ IF call[c].what = "login" THEN call' = [call EXCEPT ![c].pc = "lost"] ELSE Done(c)
    /\ IF call[c].what = "me"
       THEN /\ user' = [user EXCEPT ![call[c].tab] = Nobody]
            /\ loading' = [loading EXCEPT ![call[c].tab] = FALSE]
            /\ path' = [path EXCEPT ![call[c].tab] = "/login"]
       ELSE UNCHANGED <<user, loading, path>>

(* "Session expired": clearTokens, then a load of /login.                  *)
Expel(c) ==
    /\ call[c].pc = "refused"
    /\ Reload(call[c].tab, NoPair, "/login")

CallLost(c) ==
    /\ Waiting(c)
    /\ Throw(c)
    /\ UNCHANGED <<serverVars, tokenVars, overlap>>

-----------------------------------------------------------------------------
(* auth.ts and the pages *)

Alone(c) == CallsOf(call[c].tab) = {c}
Show(t, p) == user' = [user EXCEPT ![t] = p]
Go(t, where) == path' = [path EXCEPT ![t] = where]

(* A page reads or writes something.                                       *)
Get(t, c) ==
    /\ path[t] = "/" /\ ~loading[t] /\ user[t] # Nobody
    /\ call[c].pc = "idle"
    /\ call' = [call EXCEPT ![c] = Sent(t, "get", mine[t])]
    /\ UNCHANGED <<serverVars, tokenVars, viewVars>>

GetAnswered(c) ==
    /\ Waiting(c) /\ call[c].what = "get" /\ Welcome(call[c])
    /\ Done(c)
    /\ UNCHANGED <<serverVars, tokenVars, viewVars>>

UserFetched(c) ==
    LET k == call[c]
    IN  /\ Waiting(c) /\ k.what = "me" /\ Welcome(k)
        /\ Show(call[c].tab, owner[k.pair])
        /\ loading' = [loading EXCEPT ![call[c].tab] = FALSE]
        /\ Done(c)
        /\ UNCHANGED <<serverVars, tokenVars, path, overlap>>

(* The button is disabled while a login is on its way.                     *)
Login(t, c) ==
    /\ Fresh <= MaxPairs
    /\ path[t] = "/login"
    /\ \A d \in CallsOf(t) : call[d].what # "login"
    /\ call[c].pc = "idle"
    /\ call' = [call EXCEPT ![c] = Sent(t, "login", mine[t])]
    /\ UNCHANGED <<serverVars, tokenVars, viewVars>>

(* Mutant: whom the page shows is left to fetchUser.                       *)
LoggedInUnseen(c, p) ==
    /\ Waiting(c) /\ call[c].what = "login"
    /\ Issue(p)
    /\ setTokens(call[c].tab, Fresh)
    /\ Go(call[c].tab, "/")
    /\ overlap' = [overlap EXCEPT ![call[c].tab] = @ \/ ~Alone(c)]
    /\ Done(c)
    /\ UNCHANGED <<expired, revoked, over, exchanged, user, loading>>

LoggedIn(c, p) ==
    /\ Waiting(c) /\ call[c].what = "login"
    /\ Issue(p)
    /\ setTokens(call[c].tab, Fresh)
    /\ Show(call[c].tab, p)
    /\ Go(call[c].tab, "/")
    /\ overlap' = [overlap EXCEPT ![call[c].tab] = @ \/ ~Alone(c)]
    /\ Done(c)
    /\ UNCHANGED <<expired, revoked, over, exchanged, loading>>

(* The server is not told.                                                 *)
logout(t) ==
    /\ path[t] = "/" /\ ~loading[t] /\ user[t] # Nobody
    /\ clearTokens(t)
    /\ Show(t, Nobody)
    /\ Go(t, "/login")
    /\ overlap' = [overlap EXCEPT ![t] = @ \/ CallsOf(t) # {}]
    /\ UNCHANGED <<serverVars, exchanged, loading, call>>

-----------------------------------------------------------------------------
SessionStep(c) ==
    \/ RefreshCheck(c) \/ RefreshRefused(c) \/ Rotate(c)
    \/ AnsweredError(c) \/ MustChange(c) \/ Got401(c)
    \/ RefreshLost(c) \/ Retry(c) \/ Expel(c) \/ CallLost(c)
    \/ GetAnswered(c) \/ UserFetched(c)
    \/ \E t \in Tabs : Get(t, c) \/ Login(t, c)
    \/ \E p \in People : LoggedIn(c, p)

SessionNext ==
    \/ AccessExpires
    \/ \E p \in People : SessionEnds(p)
    \/ \E c \in Calls : SessionStep(c)
    \/ \E t \in Tabs : logout(t) \/ Reload(t, stored, path[t])

SessionSpec == SessionInit /\ [][SessionNext]_sessionVars

-----------------------------------------------------------------------------
(* Properties *)

(* The pair a tab would load is never one that a tab has already exchanged *)
(* (its refresh token would be refused), in whatever order the tabs are    *)
(* answered.                                                               *)
NoStaleToken == stored \notin exchanged

(* Unless the user logged in or out while a call was in flight, the user   *)
(* shown is the one the tab's tokens belong to, whatever other tabs did.   *)
SessionAgrees ==
    \A t \in Tabs :
        ~overlap[t] /\ user[t] # Nobody /\ mine[t] # NoPair
            => owner[mine[t]] = user[t]
=============================================================================
