----------------------------- MODULE MCSessions -----------------------------
(* Instances of Sessions: which operations race. *)
EXTENDS Sessions

AllOps == {"login", "appLogin", "refresh", "logout", "takedown", "restore", "password", "revokeApp"}
=============================================================================
