------------------------------- MODULE DataDir -------------------------------
(***************************************************************************)
(* What the process keeps on its disk: the database, and the certificates  *)
(* beside it.  Both survive the process, and whatever it leaves half done. *)
(*                                                                         *)
(* They have no file in common, so one of them at a time is looked at      *)
(* while the other rests.                                                  *)
(***************************************************************************)
EXTENDS DatabaseLife, AcmeEngine

VARIABLE part    \* the one that is looked at

vars == <<part, databaseVars, acmeVars>>

Init ==
    /\ part \in {"database", "certificates"}
    /\ DatabaseInit
    /\ AcmeInit

Database     == part = "database" /\ DatabaseNext /\ UNCHANGED <<part, acmeVars>>
Certificates == part = "certificates" /\ AcmeNext /\ UNCHANGED <<part, databaseVars>>

Next == Database \/ Certificates

Spec == Init /\ [][Next]_vars
=============================================================================
