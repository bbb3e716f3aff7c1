----------------------------- MODULE AcmeEngine -----------------------------
(***************************************************************************)
(* The certificates                                                        *)
(*   internal/engine/acme/acme.go               Engine                     *)
(*   internal/service/wire.go                   acmeDB                     *)
(*   internal/api/handler/module_handlers.go    ACMEHandler                *)
(*                                                                         *)
(* Start orders the certificates that are pending, a ticker those that are *)
(* valid and due.  An order is a goroutine: it reads or makes the account  *)
(* key, talks to the authority, writes the key file, the certificate file  *)
(* and the row.  Wherever it fails it writes "error" into the row, and     *)
(* nobody tries that row again.  Writes to the row fail unnoticed.  A      *)
(* write to a file truncates first: one that fails or is cut off by the    *)
(* end of the process may leave the file torn.                             *)
(*                                                                         *)
(* Abstracted: the conversation with the authority is one step that ends   *)
(* well or not (each of its calls has a timeout); the paths and the expiry *)
(* that a row holds.  The ticker (12 h) finds the earlier orders ended: an *)
(* order takes eleven minutes a domain at most.  What sets a key apart is  *)
(* the certificate it belongs to.                                          *)
(***************************************************************************)
EXTENDS Naturals, FiniteSets

CONSTANTS
    Certs,
    MaxTurns    \* bound: starts, statements that fail, and certificates that fall due

ASSUME AcmeAssumption == MaxTurns \in Nat

VARIABLES
    certs,    \* the table; "new": not yet created, "gone": deleted
    keyFile,  \* certificate -> what is in <id>.key
    crtFile,  \* certificate -> the key that <id>.crt is for
    account,  \* acme-account.key
    order,    \* certificate -> how far its order is
    ticking,  \* autoRenewLoop runs
    turns,    \* those of MaxTurns so far
    cut       \* history: orders that broke off at the files and could not say so

fileVars == <<keyFile, crtFile, account>>
acmeVars == <<certs, fileVars, order, ticking, turns, cut>>

Keys == {"k1", "k2"}
File == Keys \cup {"none", "torn"}

(* "due" is valid, but expires soon and is to be renewed.                  *)
Statuses == {"pending", "valid", "due", "error"}
Stages == {"account", "newkey", "writekey", "obtain", "savecrt", "finish", "failing"}

AcmeTypeOK ==
    /\ certs \in [Certs -> Statuses \cup {"new", "gone"}]
    /\ keyFile \in [Certs -> File] /\ crtFile \in [Certs -> File]
    /\ account \in File
    /\ order \in [Certs -> Stages \cup {"idle"}]
    /\ ticking \in BOOLEAN
    /\ turns \in 0..MaxTurns
    /\ cut \subseteq Certs

Stored(c) == certs[c] \in Statuses
Due(c) == certs[c] = "due"
Ordering(c) == order[c] # "idle"

(* A new key: not the one of this file.                                    *)
Another(file) == CHOOSE k \in Keys : k # file

AcmeInit ==
    /\ certs = [c \in Certs |-> "new"]
    /\ keyFile = [c \in Certs |-> "none"] /\ crtFile = [c \in Certs |-> "none"]
    /\ account = "none"
    /\ order = [c \in Certs |-> "idle"]
    /\ ticking = FALSE
    /\ turns = 0
    /\ cut = {}

Turn == turns < MaxTurns /\ turns' = turns + 1

-----------------------------------------------------------------------------
(* ACMEHandler *)

CreateCert(c) ==
    /\ certs[c] = "new"
    /\ certs' = [certs EXCEPT ![c] = "pending"]
    /\ UNCHANGED <<fileVars, order, ticking, turns, cut>>

(* The files stay, an order under way goes on.                             *)
DeleteCert(c) ==
    /\ Stored(c)
    /\ certs' = [certs EXCEPT ![c] = "gone"]
    /\ UNCHANGED <<fileVars, order, ticking, turns, cut>>

(* Time passes, or UpdateCert changes auto_renew or renew_days.            *)
GrowsDue(c) ==
    /\ certs[c] = "valid" /\ Turn
    /\ certs' = [certs EXCEPT ![c] = "due"]
    /\ UNCHANGED <<fileVars, order, ticking, cut>>

(* UpdateCert as well.                                                     *)
NotDue(c) ==
    /\ certs[c] = "due"
    /\ certs' = [certs EXCEPT ![c] = "valid"]
    /\ UNCHANGED <<fileVars, order, ticking, turns, cut>>

-----------------------------------------------------------------------------
(* Engine *)

Begin(chosen) == order' = [c \in Certs |-> IF c \in chosen THEN "account" ELSE order[c]]

(* The rows of other providers are not ordered.  Where the rows cannot be  *)
(* read, the loop is not started either: as if it had not been tried.      *)
StartOrders ==
    /\ ~ticking /\ \A c \in Certs : ~Ordering(c)
    /\ Turn
    /\ ticking' = TRUE
    /\ \E chosen \in SUBSET {c \in Certs : certs[c] = "pending"} : Begin(chosen)
    /\ UNCHANGED <<certs, fileVars, cut>>

(* Mutant: the comparison of renewDue is the wrong way round.              *)
TickEarly ==
    /\ ticking /\ \A c \in Certs : ~Ordering(c)
    /\ \E c \in Certs : certs[c] = "valid"
    /\ Begin({c \in Certs : certs[c] = "valid"})
    /\ UNCHANGED <<certs, fileVars, ticking, turns, cut>>

(* A round in which the rows cannot be read is skipped.                    *)
Tick ==
    /\ ticking /\ \A c \in Certs : ~Ordering(c)
    /\ \E c \in Certs : Due(c)
    /\ Begin({c \in Certs : Due(c)})
    /\ UNCHANGED <<certs, fileVars, ticking, turns, cut>>

Goes(c, step) == order' = [order EXCEPT ![c] = step]

(* What os.WriteFile, or the Chmod that follows it, may leave where it     *)
(* fails.                                                                  *)
Spoilt(old, new) == {old, "torn", new}

(* A file that is damaged, or cannot be read, ends the order, and so does  *)
(* a row without domains.                                                  *)
LoadAccountKey(c) ==
    /\ order[c] = "account"
    /\ \/ account = "none" /\ Goes(c, "newkey")
       \/ account \in Keys /\ Goes(c, "obtain")
       \/ Goes(c, "failing")
    /\ UNCHANGED <<certs, fileVars, ticking, turns, cut>>

(* The file is truncated first: another order may read it before it is     *)
(* written.                                                                *)
CreateAccountKey(c) ==
    /\ \/ order[c] = "newkey" /\ account' = "torn" /\ Goes(c, "writekey")
       \/ order[c] = "newkey" /\ UNCHANGED account /\ Goes(c, "failing")
       \/ order[c] = "writekey" /\ account' = Another(account) /\ Goes(c, "obtain")
       \/ /\ order[c] = "writekey"
          /\ account' \in Spoilt(account, Another(account))
          /\ Goes(c, "failing")
    /\ UNCHANGED <<certs, keyFile, crtFile, ticking, turns, cut>>

(* Register, AuthorizeOrder, the challenges, CreateOrderCert and the file   *)
(* of the new key.                                                         *)
ObtainAndSaveKey(c) ==
    LET new == Another(crtFile[c]) IN
    /\ order[c] = "obtain"
    /\ \/ keyFile' = [keyFile EXCEPT ![c] = new] /\ Goes(c, "savecrt")
       \/ \E f \in Spoilt(keyFile[c], new) :
             keyFile' = [keyFile EXCEPT ![c] = f] /\ Goes(c, "failing")
    /\ UNCHANGED <<certs, crtFile, account, ticking, turns, cut>>

(* Mutant: a certificate that could not be written is recorded all the     *)
(* same.                                                                   *)
SaveCrtUnchecked(c) ==
    /\ order[c] = "savecrt"
    /\ \E f \in {keyFile[c], "torn"} : crtFile' = [crtFile EXCEPT ![c] = f]
    /\ Goes(c, "finish")
    /\ UNCHANGED <<certs, keyFile, account, ticking, turns, cut>>

SaveCrt(c) ==
    /\ order[c] = "savecrt"
    /\ \/ crtFile' = [crtFile EXCEPT ![c] = keyFile[c]] /\ Goes(c, "finish")
       \/ \E f \in Spoilt(crtFile[c], crtFile[c]) :
             crtFile' = [crtFile EXCEPT ![c] = f] /\ Goes(c, "failing")
    /\ UNCHANGED <<certs, keyFile, account, ticking, turns, cut>>

(* UpdateCertificate: a row that was deleted meanwhile stays so.           *)
Record(c, result) ==
    certs' = IF Stored(c) THEN [certs EXCEPT ![c] = result] ELSE certs

(* The end of issue, and fail.                                             *)
EndOrder(c) ==
    /\ \/ order[c] = "finish" /\ Record(c, "valid") /\ cut' = cut \ {c} /\ UNCHANGED turns
       \/ order[c] = "failing" /\ Record(c, "error") /\ UNCHANGED <<cut, turns>>
       \/ order[c] = "finish" /\ Turn /\ UNCHANGED <<certs, cut>>
       \/ order[c] = "failing" /\ Turn /\ cut' = cut \cup {c} /\ UNCHANGED certs
    /\ Goes(c, "idle")
    /\ UNCHANGED <<fileVars, ticking>>

Order(c) ==
    \/ LoadAccountKey(c) \/ CreateAccountKey(c)
    \/ ObtainAndSaveKey(c) \/ SaveCrt(c) \/ EndOrder(c)

(* Nothing waits for an order when the process ends, orderly or not.       *)
ProcessEnds ==
    /\ ticking \/ \E c \in Certs : Ordering(c)
    /\ ticking' = FALSE
    /\ order' = [c \in Certs |-> "idle"]
    /\ cut' = cut \cup {c \in Certs : order[c] \in {"obtain", "savecrt", "failing"}}
    /\ keyFile' \in {f \in [Certs -> File] : \A c \in Certs :
                        f[c] \in {keyFile[c]} \cup IF order[c] = "obtain" THEN {"torn"} ELSE {}}
    /\ crtFile' \in {f \in [Certs -> File] : \A c \in Certs :
                        f[c] \in {crtFile[c]} \cup IF order[c] = "savecrt" THEN {"torn"} ELSE {}}
    /\ UNCHANGED <<certs, account, turns>>

AcmeNext ==
    \/ StartOrders \/ Tick \/ ProcessEnds
    \/ \E c \in Certs :
          Order(c) \/ CreateCert(c) \/ NotDue(c) \/ DeleteCert(c) \/ GrowsDue(c)

AcmeSpec == AcmeInit /\ [][AcmeNext]_acmeVars

-----------------------------------------------------------------------------
(* Properties *)

(* A certificate that the table calls valid has a key file and a           *)
(* certificate file that belong together, except between the two writes of *)
(* an order and after an order that was cut off.                           *)
PairMatches ==
    \A c \in Certs :
        (/\ certs[c] \in {"valid", "due"}
         /\ order[c] \notin {"savecrt", "failing"} /\ c \notin cut)
        => keyFile[c] = crtFile[c] /\ keyFile[c] \in Keys

(* Every order ends, and a certificate that falls due while the loop runs  *)
(* is renewed or shows an error: it does not run out unnoticed.            *)
CertificatesSettle ==
    \A c \in Certs :
        /\ Ordering(c) ~> ~Ordering(c)
        /\ (Due(c) /\ ticking) ~> (~Due(c) \/ ~ticking)
=============================================================================
