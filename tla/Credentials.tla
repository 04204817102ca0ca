---------------------------- MODULE Credentials ----------------------------
(***************************************************************************)
(* What lets somebody act for an account besides its sessions: its OAuth   *)
(* tokens and the tokens mailed to it, with what is about both, the        *)
(* deletion of the account and its return.                                 *)
(***************************************************************************)
EXTENDS OAuthStore, EmailTokens

vars == <<status, password, req, oauthVars, mailVars>>

Init == RequestsInit /\ OAuthInit /\ MailInit

(* A DID whose account is gone is moved in again, to another address. *)
ReturnStart(r) ==
  /\ status = "none"
  /\ Begin(r, [op |-> "return", at |-> "start"])
  /\ UNCHANGED <<status, password, oauthVars, mailVars>>

(* deleteAccount of the account manager: its statements about tokens, the  *)
(* first of which is about the mailed ones.                                *)
DeleteMail(r) ==
  /\ At(r, "delete", "store")
  /\ mail' = Nothing
  /\ To(r, "rows")
  /\ UNCHANGED <<status, password, oauthVars, email, confirmed, sent, finished, proven, raced>>

(* The rows of account and actor go, with what refers to the account by a  *)
(* foreign key: devices do, tokens do not.                                 *)
DeleteRows(r) ==
  /\ At(r, "delete", "rows")
  /\ status' = "none" /\ device' = FALSE
  /\ finished' = finished \cup {req[r].n}
  /\ raced' = (raced \/ Relying # {} \/ mail # Nothing)
  /\ End(r)
  /\ UNCHANGED <<password, asked, tokens, used, drawn, taken, email, confirmed, mail, sent, proven>>

(* createAccount *)
Return(r) ==
  /\ At(r, "return", "start")
  /\ IF status # "none" THEN UNCHANGED <<status, password, email, confirmed>>
     ELSE /\ status' = "up" /\ password' = password + 1
          /\ email' = email + 1 /\ confirmed' = FALSE
  /\ End(r)
  /\ UNCHANGED <<oauthVars, mail, sent, finished, proven, raced>>

Start(r) ==
  \/ OAuthStart(r) /\ UNCHANGED mailVars
  \/ MailStart(r) /\ UNCHANGED oauthVars
  \/ ReturnStart(r)

Next ==
  \/ \E r \in Requests :
       \/ Start(r)
       \/ OAuthStep(r) /\ UNCHANGED mailVars
       \/ MailStep(r) /\ UNCHANGED oauthVars
       \/ DeleteMail(r) \/ DeleteRows(r) \/ Return(r)
  \/ RemoveOldExpired /\ UNCHANGED <<status, password, mailVars>>

Spec == Init /\ [][Next]_vars

-----------------------------------------------------------------------------
(* Properties. *)

(* Where a handler may stand. *)
Steps == {"new", "start", "verify", "bind", "update", "create", "find", "row", "rotate",
          "delete", "check", "store", "sign", "rows", "end"}

(* Rows, requests and what was mailed have their types. *)
TypeOK ==
  /\ status \in {"up", "down", "none"} /\ password \in Nat
  /\ \A r \in Requests : req[r].at \in Steps
  /\ OAuthTypeOK /\ MailTypeOK

(* A token that is kept while its account is deleted and returns: what the *)
(* deletion leaves behind acts for the account that comes after.           *)
TokensOfThisAccount ==
  [][status = "none" /\ status' = "up" => Rows' = {}]_vars
=============================================================================
