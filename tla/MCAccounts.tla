------------------------------ MODULE MCAccounts ------------------------------
(* Symmetry of Accounts' constants for TLC.  Every property is a safety    *)
(* property, users differ only in their rows, tokens in the order of use.  *)
EXTENDS Accounts, TLC

MCWishes ==
    [kind : {"delete", "reset"}]
      \cup [kind : {"create"}, admin : {TRUE}]
      \cup [kind : {"update"}, admin : {None}, enabled : {FALSE}]
      \cup [kind : {"update"}, admin : BOOLEAN, enabled : {TRUE}]

Symmetry == Permutations(Users) \cup Permutations(Handlers)
=============================================================================
