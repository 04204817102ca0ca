--------------------------- MODULE MCCredentials ---------------------------
(* Instances of Credentials. *)
EXTENDS Credentials

(* Bound: more than two requests are all about OAuth, or all about mail. *)
OAuthOps == {"ask", "signOut", "signIn", "grant", "deny", "exchange", "refresh", "revoke"}
MailOps == PurposeSet \cup {"mail", "adminEmail", "adminPassword"}
Begun(S) == Cardinality({r \in Requests : req[r].op \in S})
Mixed == Begun(OAuthOps) * Begun(MailOps) <= 1
=============================================================================
