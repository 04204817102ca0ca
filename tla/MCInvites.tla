----------------------------- MODULE MCInvites -----------------------------
(* Instances of Invites: which operations race. *)
EXTENDS Invites

AllOps == {"list", "signup", "gift", "disable", "disableAll", "stop", "resume", "takedown", "restore"}
=============================================================================
