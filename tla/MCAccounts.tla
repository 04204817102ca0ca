----------------------------- MODULE MCAccounts -----------------------------
(* Instances of Accounts: the accounts there are at the start. *)
EXTENDS Accounts, TLC

CONSTANTS a, b, h, k

OneAccount == a :> h

(* adminOff has the script of deactivate. *)
AllOps == DOMAIN Script \ {"adminOff"}
Moves == {"migrate"}
=============================================================================
