----------------------------- MODULE WebSettings ----------------------------
(***************************************************************************)
(* The settings page of the web UI                                         *)
(*   web/src/pages/Settings.tsx              password and two-factor cards *)
(*   internal/api/handler/auth_handler.go    ChangePassword, *2FA, Me      *)
(*                                                                         *)
(* Each button sends a call and goes on when it is answered; two of them   *)
(* then ask again who the user is, which is where the "Enabled" badge      *)
(* comes from.  The buttons are not disabled meanwhile.  api.ts hands the  *)
(* body of an error to the caller like any other, so that a catch runs     *)
(* only when no answer came.                                               *)
(*                                                                         *)
(* Abstracted: a handler does its work at one instant; a code is right for *)
(* one secret, or for none.                                                *)
(***************************************************************************)
EXTENDS Naturals, FiniteSets

CONSTANTS
    Asks,      \* calls the page can have in flight
    Passwords,
    MaxSecrets \* bound: secrets handed out

ASSUME SettingsAssumption == "" \notin Passwords /\ MaxSecrets \in Nat \ {0}

NoSecret == 0
Secrets == 0..MaxSecrets

VARIABLES
    password,  \* the server's: the user's password
    secret,    \* otp_secret
    otp,       \* otp_enabled
    proven,    \* history: the secret a right code was given for
    given,     \* secrets handed out so far
    badge,     \* user.otp_enabled in the store
    shown,     \* otpSecret
    entered,   \* passwordForm: old and new
    message,   \* passwordMsg
    ask,       \* the calls in flight
    crossed    \* history: two of them overlapped, or one brought no success

accountVars == <<password, secret, otp, proven, given>>
cardVars == <<badge, shown, entered, message>>
settingsVars == <<accountVars, cardVars, ask, crossed>>

Blank == [old |-> "", new |-> ""]
Forms == {f \in [old : Passwords, new : Passwords] : f.old # f.new} \cup {Blank}
Quiet == [pc |-> "idle", what |-> "me", form |-> Blank, code |-> NoSecret,
          secret |-> NoSecret, otp |-> FALSE]

SettingsTypeOK ==
    /\ password \in Passwords
    /\ secret \in Secrets /\ proven \in Secrets /\ given \in Secrets
    /\ otp \in BOOLEAN /\ badge \in BOOLEAN
    /\ shown \in Secrets
    /\ entered \in Forms
    /\ message \in {"", "changed", "failed"}
    /\ ask \in [Asks -> [pc     : {"idle", "sent", "ok", "error"},
                         what   : {"password", "setup", "enable", "disable", "me"},
                         form   : Forms,
                         code   : Secrets,
                         secret : Secrets,     \* Setup2FA's answer
                         otp    : BOOLEAN]]    \* Me's answer
    /\ crossed \in BOOLEAN

SettingsInit ==
    /\ password \in Passwords
    /\ otp \in BOOLEAN
    /\ secret = IF otp THEN 1 ELSE NoSecret
    /\ proven = secret /\ given = secret
    /\ badge = otp /\ shown = NoSecret
    /\ entered = Blank /\ message = ""
    /\ ask = [a \in Asks |-> Quiet]
    /\ crossed = FALSE

-----------------------------------------------------------------------------
(* The handlers *)

Asked(a, what) == ask[a].pc = "sent" /\ ask[a].what = what
Reply(a) == ask' = [ask EXCEPT ![a].pc = "ok"]

ChangePassword(a) ==
    /\ Asked(a, "password") /\ ask[a].form.old = password
    /\ password' = ask[a].form.new
    /\ Reply(a)
    /\ UNCHANGED <<secret, otp, proven, given, cardVars, crossed>>

(* The new secret replaces the one stored.                                 *)
Setup2FA(a) ==
    /\ Asked(a, "setup") /\ given < MaxSecrets
    /\ given' = given + 1
    /\ secret' = given + 1
    /\ ask' = [ask EXCEPT ![a].pc = "ok", ![a].secret = given + 1]
    /\ UNCHANGED <<password, otp, proven, cardVars, crossed>>

(* Mutant: any code will do.                                               *)
Enable2FAUnchecked(a) ==
    /\ Asked(a, "enable") /\ secret # NoSecret
    /\ otp' = TRUE
    /\ proven' = ask[a].code
    /\ Reply(a)
    /\ UNCHANGED <<password, secret, given, cardVars, crossed>>

Enable2FA(a) ==
    /\ Asked(a, "enable") /\ secret # NoSecret /\ ask[a].code = secret
    /\ otp' = TRUE
    /\ proven' = ask[a].code
    /\ Reply(a)
    /\ UNCHANGED <<password, secret, given, cardVars, crossed>>

Disable2FA(a) ==
    /\ Asked(a, "disable")
    /\ otp' = FALSE /\ secret' = NoSecret
    /\ Reply(a)
    /\ UNCHANGED <<password, proven, given, cardVars, crossed>>

Me(a) ==
    /\ Asked(a, "me")
    /\ ask' = [ask EXCEPT ![a].pc = "ok", ![a].otp = otp]
    /\ UNCHANGED <<accountVars, cardVars, crossed>>

(* A wrong password or code, the rate limit, a failed query.               *)
Refuse(a) ==
    /\ ask[a].pc = "sent"
    /\ ask' = [ask EXCEPT ![a].pc = "error"]
    /\ crossed' = TRUE
    /\ UNCHANGED <<accountVars, cardVars>>

-----------------------------------------------------------------------------
(* The buttons *)

Send(a, request) ==
    /\ ask[a].pc = "idle"
    /\ ask' = [ask EXCEPT ![a] = [request EXCEPT !.pc = "sent"]]
    /\ crossed' = (crossed \/ \E b \in Asks : ask[b].pc # "idle")

Enter(f) ==
    /\ f # entered
    /\ entered' = f
    /\ UNCHANGED <<accountVars, badge, shown, message, ask, crossed>>

(* The new password and its confirmation agree and are long enough; else   *)
(* the card says so and nothing is sent.                                   *)
changePassword(a) ==
    /\ entered # Blank
    /\ Send(a, [Quiet EXCEPT !.what = "password", !.form = entered])
    /\ UNCHANGED <<accountVars, cardVars>>

Enable(a) ==
    /\ ~badge
    /\ Send(a, [Quiet EXCEPT !.what = "setup"])
    /\ UNCHANGED <<accountVars, cardVars>>

(* A code for the secret that is shown, or a mistyped one.                 *)
Verify(a) ==
    /\ shown # NoSecret /\ ~badge
    /\ \E code \in {shown, NoSecret} :
          Send(a, [Quiet EXCEPT !.what = "enable", !.code = code])
    /\ UNCHANGED <<accountVars, cardVars>>

Disable(a) ==
    /\ badge
    /\ Send(a, [Quiet EXCEPT !.what = "disable"])
    /\ UNCHANGED <<accountVars, cardVars>>

-----------------------------------------------------------------------------
(* What comes back *)

Back(a, what) == ask[a].pc \in {"ok", "error"} /\ ask[a].what = what
End(a) == ask' = [ask EXCEPT ![a] = Quiet]
fetchUser(a) == ask' = [ask EXCEPT ![a] = [Quiet EXCEPT !.pc = "sent"]]

PasswordBack(a) ==
    /\ Back(a, "password")
    /\ message' = "changed" /\ entered' = Blank
    /\ End(a)
    /\ UNCHANGED <<accountVars, badge, shown, crossed>>

SetupBack(a) ==
    /\ Back(a, "setup")
    /\ shown' = IF ask[a].pc = "ok" THEN ask[a].secret ELSE shown
    /\ End(a)
    /\ UNCHANGED <<accountVars, badge, entered, message, crossed>>

EnableBack(a) ==
    /\ Back(a, "enable")
    /\ shown' = NoSecret
    /\ fetchUser(a)
    /\ UNCHANGED <<accountVars, badge, entered, message, crossed>>

(* Mutant: the user is not asked for again.                                *)
DisableBackUnseen(a) ==
    /\ Back(a, "disable")
    /\ End(a)
    /\ UNCHANGED <<accountVars, cardVars, crossed>>

DisableBack(a) ==
    /\ Back(a, "disable")
    /\ fetchUser(a)
    /\ UNCHANGED <<accountVars, cardVars, crossed>>

UserBack(a) ==
    /\ Back(a, "me")
    /\ badge' = IF ask[a].pc = "ok" THEN ask[a].otp ELSE badge
    /\ End(a)
    /\ UNCHANGED <<accountVars, shown, entered, message, crossed>>

(* No answer: the catch (that of fetchUser leaves the page: WebSession).   *)
Nothing(a) ==
    /\ ask[a].pc # "idle"
    /\ message' = IF ask[a].what = "password" THEN "failed" ELSE message
    /\ End(a)
    /\ crossed' = TRUE
    /\ UNCHANGED <<accountVars, badge, shown, entered>>

-----------------------------------------------------------------------------
SettingsNext ==
    \/ \E f \in Forms : Enter(f)
    \/ \E a \in Asks :
          \/ ChangePassword(a) \/ Setup2FA(a) \/ Enable2FA(a) \/ Disable2FA(a)
          \/ Me(a) \/ Refuse(a)
          \/ changePassword(a) \/ Enable(a) \/ Verify(a) \/ Disable(a)
          \/ PasswordBack(a) \/ SetupBack(a) \/ EnableBack(a) \/ DisableBack(a)
          \/ UserBack(a) \/ Nothing(a)

SettingsSpec == SettingsInit /\ [][SettingsNext]_settingsVars

-----------------------------------------------------------------------------
(* As long as the user waits for one call before making the next and none  *)
(* fails: when all is quiet the badge tells the truth, and two-factor is   *)
(* on only with the secret a right code was given for.                     *)
TwoFactorSettles ==
    ~crossed /\ (\A a \in Asks : ask[a].pc = "idle") =>
        /\ badge = otp
        /\ otp => secret = proven /\ secret # NoSecret
=============================================================================
