---------------------------- MODULE EmailTokens ----------------------------
(***************************************************************************)
(* The e-mail address of one account and the tokens mailed to it, one for  *)
(* each purpose: to confirm the address, to change it, to set a new        *)
(* password, to delete the account, to sign an operation of its DID.       *)
(*                                                                         *)
(* The handler of a request for a token reads the address, then stores the *)
(* token, then mails it; the handler of a use reads the account, checks    *)
(* the token, and only then changes the account and deletes the token.     *)
(* How the verifiers tell who calls is in Access.                          *)
(***************************************************************************)
EXTENDS Requests

VARIABLES
  email,      \* the address of the account, a number
  confirmed,  \* the address is confirmed
  mail,       \* email_token: purpose -> the token and whether it has expired, or None
  sent,       \* history: the tokens mailed so far, for what and to which address
  finished,   \* history: the tokens that have taken effect
  proven,     \* history: the addresses at which a token was received that confirmed one
  raced       \* history: the address changed while a request relied on the old one

mailVars == <<email, confirmed, mail, sent, finished, proven, raced>>

Purposes == <<"confirm", "reset", "delete", "plc", "update">>
PurposeSet == {Purposes[i] : i \in DOMAIN Purposes}

Stored(n) == [n |-> n, old |-> FALSE]

(* Every token was asked for; one to change the address only if it is      *)
(* confirmed.                                                              *)
MailInit ==
  /\ email = 1 /\ confirmed \in BOOLEAN
  /\ LET had(p) == p = "update" => confirmed
     IN  /\ mail = [p \in PurposeSet |->
                      IF had(p) THEN Stored(CHOOSE i \in DOMAIN Purposes : Purposes[i] = p) ELSE None]
         /\ sent = {[n |-> i, for |-> Purposes[i], to |-> 1] : i \in {i \in DOMAIN Purposes : had(Purposes[i])}}
  /\ finished = {} /\ raced = FALSE
  /\ proven = IF confirmed THEN {1} ELSE {}

Mailed(p) == {m.n : m \in {m \in sent : m.for = p}}

(* checkTakedown of the verifiers, which run before anything is read. *)
Verified(ps, p) == p \in ps => status = "up"

(* A user asks for a token, or brings one from a mail; to change an        *)
(* address, or as an administrator, also without one.                      *)
MailStart(r) ==
  /\ \/ \E p \in PurposeSet :
          Verified({"confirm", "update", "delete"}, p) /\ Begin(r, [op |-> "mail", at |-> "start", for |-> p, to |-> 0])
     \/ \E p \in PurposeSet \ {"update"} : \E n \in Mailed(p) :
          /\ Verified({"confirm"}, p)
          /\ Begin(r, [op |-> p, at |-> "start", n |-> n, address |-> email, password |-> password])
     \/ \E n \in Mailed("update") \cup {None} :
          Verified({"update"}, "update") /\ Begin(r, [op |-> "update", at |-> "start", n |-> n])
     \/ \E op \in {"adminEmail", "adminPassword"} : Begin(r, [op |-> op, at |-> "start", n |-> None])
  /\ UNCHANGED <<mailVars, status, password>>

-----------------------------------------------------------------------------
(* A token is asked for. *)

(* The account and its address are read. *)
Ask(r, p, may) ==
  /\ At(r, "mail", "start") /\ req[r].for = p
  /\ IF status # "none" /\ may THEN Go(r, [req[r] EXCEPT !.at = "create", !.to = email]) ELSE End(r)
  /\ UNCHANGED <<mailVars, status, password>>

RequestPasswordReset(r) == Ask(r, "reset", TRUE)
RequestEmailConfirmation(r) == Ask(r, "confirm", TRUE)
RequestAccountDelete(r) == Ask(r, "delete", TRUE)
RequestPlcOperationSignature(r) == Ask(r, "plc", TRUE)

(* An address that is not confirmed needs no token to be changed. *)
RequestEmailUpdate(r) == Ask(r, "update", confirmed)

(* createEmailToken, in the place of an earlier one, and the mail. *)
MailCreate(r) ==
  LET q == req[r]
      n == Cardinality(sent) + 1
  IN  /\ At(r, "mail", "create")
      /\ mail' = [mail EXCEPT ![q.for] = Stored(n)]
      /\ sent' = sent \cup {[n |-> n, for |-> q.for, to |-> q.to]}
      /\ End(r)
      /\ UNCHANGED <<email, confirmed, finished, proven, raced, status, password>>

-----------------------------------------------------------------------------
(* A token is used. *)

(* What the handlers read before the token: confirmEmail and updateEmail   *)
(* an account that is not taken down, deleteAccount the password.          *)
ConfirmUser(r) ==
  /\ At(r, "confirm", "start")
  /\ IF status = "up" /\ req[r].address = email THEN To(r, "check") ELSE End(r)
  /\ UNCHANGED <<mailVars, status, password>>
UpdateUser(r) ==
  /\ At(r, "update", "start")
  /\ IF status # "up" \/ (confirmed /\ req[r].n = None) THEN End(r)
     ELSE To(r, IF confirmed THEN "check" ELSE "store")
  /\ UNCHANGED <<mailVars, status, password>>
DeleteUser(r) ==
  /\ At(r, "delete", "start")
  /\ IF status # "none" /\ req[r].password = password THEN To(r, "check") ELSE End(r)
  /\ UNCHANGED <<mailVars, status, password>>

(* A token is good for 15 minutes; whether they have passed matters only   *)
(* when it is looked up.                                                   *)
Valid(p, n) == mail[p] # None /\ mail[p].n = n /\ ~mail[p].old
Check(r, p) ==
  /\ \/ Valid(p, req[r].n) /\ To(r, "store") /\ UNCHANGED mail
     \/ Valid(p, req[r].n) /\ End(r) /\ mail' = [mail EXCEPT ![p].old = TRUE]
     \/ ~Valid(p, req[r].n) /\ End(r) /\ UNCHANGED mail
  /\ UNCHANGED <<email, confirmed, sent, finished, proven, raced, status, password>>

(* assertValidToken, of the account of the caller. *)
AssertValidToken(r) ==
  \/ \E p \in {"confirm", "update", "delete"} : At(r, p, "check") /\ Check(r, p)
  \/ At(r, "plc", "start") /\ Check(r, "plc")

(* assertValidTokenAndFindDid: the token tells whose password is reset. *)
AssertValidTokenAndFindDid(r) == At(r, "reset", "start") /\ Check(r, "reset")

Without(p) == [mail EXCEPT ![p] = None]
Nothing == [p \in PurposeSet |-> None]

(* confirmEmail, its transaction. *)
ConfirmStore(r) ==
  /\ At(r, "confirm", "store")
  /\ mail' = Without("confirm")
  /\ confirmed' = (confirmed \/ status # "none")
  /\ finished' = finished \cup {req[r].n}
  /\ proven' = proven \cup {m.to : m \in {m \in sent : m.n = req[r].n}}
  /\ End(r)
  /\ UNCHANGED <<email, sent, raced, status, password>>

(* Requests that have read the address, and will act on it. *)
Relying == {s \in Requests : At(s, "mail", "create") \/ At(s, "confirm", "check") \/ At(s, "confirm", "store")}

(* Mutant: only the token that was used is deleted. *)
NewEmailKeepsTokens(r) ==
  /\ email' = email + 1 /\ confirmed' = FALSE
  /\ mail' = Without("update")
  /\ finished' = finished \cup (IF req[r].n = None THEN {} ELSE {req[r].n})
  /\ raced' = (raced \/ Relying # {})
  /\ UNCHANGED <<sent, proven, status, password>>

(* updateEmail, its transaction: another address, all tokens go. *)
NewEmail(r) ==
  /\ email' = email + 1 /\ confirmed' = FALSE
  /\ mail' = Nothing
  /\ finished' = finished \cup (IF req[r].n = None THEN {} ELSE {req[r].n})
  /\ raced' = (raced \/ Relying # {})
  /\ UNCHANGED <<sent, proven, status, password>>
UpdateEmail(r) ==
  /\ At(r, "update", "store")
  /\ IF status = "none" THEN mail' = Nothing /\ UNCHANGED <<email, confirmed, sent, finished, proven, raced, status, password>>
     ELSE NewEmail(r)
  /\ End(r)
AdminEmail(r) ==
  /\ \/ At(r, "adminEmail", "start") /\ UNCHANGED mailVars
        /\ IF status = "none" THEN End(r) ELSE To(r, "store")
     \/ At(r, "adminEmail", "store") /\ status # "none" /\ NewEmail(r) /\ End(r)
     \/ /\ At(r, "adminEmail", "store") /\ status = "none"
        /\ mail' = Nothing /\ End(r)
        /\ UNCHANGED <<email, confirmed, sent, finished, proven, raced>>
  /\ UNCHANGED <<status, password>>

(* Mutant: the token stays. *)
PasswordOnly(r) ==
  /\ password' = (IF status = "none" THEN password ELSE password + 1)
  /\ finished' = finished \cup (IF req[r].n = None THEN {} ELSE {req[r].n})
  /\ End(r)
  /\ UNCHANGED <<email, confirmed, mail, sent, proven, raced, status>>

(* updateAccountPassword, its transaction, once the password is hashed. *)
UpdateAccountPassword(r) ==
  /\ password' = (IF status = "none" THEN password ELSE password + 1)
  /\ mail' = Without("reset")
  /\ finished' = finished \cup (IF req[r].n = None THEN {} ELSE {req[r].n})
  /\ End(r)
  /\ UNCHANGED <<email, confirmed, sent, proven, raced, status>>

ResetPassword(r) == At(r, "reset", "store") /\ UpdateAccountPassword(r)
AdminPassword(r) == At(r, "adminPassword", "start") /\ UpdateAccountPassword(r)

(* signPlcOperation: the token is deleted, then the operation signed. *)
PlcCleanup(r) ==
  /\ At(r, "plc", "store")
  /\ mail' = Without("plc")
  /\ To(r, "sign")
  /\ UNCHANGED <<email, confirmed, sent, finished, proven, raced, status, password>>
PlcSign(r) ==
  /\ At(r, "plc", "sign")
  /\ finished' = finished \cup {req[r].n}
  /\ End(r)
  /\ UNCHANGED <<email, confirmed, mail, sent, proven, raced, status, password>>

MailStep(r) ==
  \/ RequestPasswordReset(r) \/ RequestEmailConfirmation(r) \/ RequestAccountDelete(r)
  \/ RequestPlcOperationSignature(r) \/ RequestEmailUpdate(r) \/ MailCreate(r)
  \/ AssertValidToken(r) \/ AssertValidTokenAndFindDid(r)
  \/ ConfirmUser(r) \/ ConfirmStore(r)
  \/ UpdateUser(r) \/ UpdateEmail(r) \/ AdminEmail(r)
  \/ ResetPassword(r) \/ AdminPassword(r) \/ PlcCleanup(r) \/ PlcSign(r)
  \/ DeleteUser(r)

-----------------------------------------------------------------------------
(* Properties. *)

MailTypeOK ==
  /\ email \in Nat /\ confirmed \in BOOLEAN /\ raced \in BOOLEAN
  /\ \A p \in PurposeSet : mail[p] = None \/ (mail[p].old \in BOOLEAN /\ mail[p].n \in Mailed(p))
  /\ \A m \in sent : m.for \in PurposeSet /\ m.to \in 1..email
  /\ finished \subseteq {m.n : m \in sent} /\ proven \subseteq 1..email

(* tests/account.test.ts:458, "allows only single-use of password reset    *)
(* token", of all purposes: a token that has taken effect is not stored    *)
(* any more, whatever was asked for and used beside it.  Two requests that *)
(* both checked it before that both take effect, see SingleUse.            *)
UsedIsGone == \A p \in PurposeSet : mail[p] # None => mail[p].n \notin finished

(* The address of an account is confirmed only if a token that was mailed  *)
(* to that very address came back: through all changes of the address, as  *)
(* long as none happened between the steps of another request.             *)
ConfirmedIsProven == confirmed /\ ~raced => email \in proven

(* The same test, of requests at the same time. *)
SingleUse ==
  [][\A r \in Requests : At(r, "reset", "store") /\ req'[r].at = "end" => req[r].n \notin finished]_<<req, mailVars>>

(* updateEmail.ts:66: "require valid token if account email is confirmed". *)
ConfirmedNeedsToken ==
  [][\A r \in Requests : At(r, "update", "store") /\ req'[r].at = "end" /\ confirmed => req[r].n # None]_<<req, mailVars>>
=============================================================================
