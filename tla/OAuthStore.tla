----------------------------- MODULE OAuthStore -----------------------------
(***************************************************************************)
(* The OAuth tables of one account, as the authorization server library    *)
(* drives them: authorization requests, the codes they end with, token     *)
(* rows, the refresh tokens a row has had, and the device the user is      *)
(* signed in on.                                                           *)
(*                                                                         *)
(* A row is looked up by one query and changed by another, by the id of    *)
(* its token, which every rotation changes.  Everything drawn (codes,      *)
(* token ids, refresh tokens) is a number that is never drawn twice; so    *)
(* the refusal of a refresh token that is already in use never happens.    *)
(***************************************************************************)
EXTENDS Requests

(* The absence of a row is not a row. *)
ASSUME NoneAssumption == None \notin [tid : Nat, code : Nat, current : Nat \cup {None}]

VARIABLES
  asked,   \* authorization_request: number of the request -> its row
  tokens,  \* token: id of the row -> the row, or None
  used,    \* used_refresh_token: pairs of a refresh token and the id of its row
  device,  \* account_device: the user is signed in on the device
  drawn,   \* the last number drawn
  taken    \* history: what was exchanged for which refresh token of which row

oauthVars == <<asked, tokens, used, device, drawn, taken>>

Rows == {i \in DOMAIN tokens : tokens[i] # None}

(* A client has a token, and the code of another request. *)
OAuthInit ==
  /\ asked = <<[code |-> 2, is |-> "coded"]>>
  /\ tokens = <<[tid |-> 1, code |-> 0, current |-> 1]>>
  /\ used = {} /\ device = TRUE /\ drawn = 2
  /\ taken = {[by |-> <<"code", 0>>, refresh |-> 1, row |-> 1]}

(* Mutant: a foreign key that does not cascade. *)
DropNoCascade(S) ==
  /\ tokens' = [i \in DOMAIN tokens |-> IF i \in S THEN None ELSE tokens[i]]
  /\ UNCHANGED used

(* The rows S go, and by the foreign key the refresh tokens they have had. *)
Drop(S) ==
  /\ tokens' = [i \in DOMAIN tokens |-> IF i \in S THEN None ELSE tokens[i]]
  /\ used' = {u \in used : u[2] \notin S}

(* findByQB joins the account, which a takedown hides. *)
Visible == IF status = "up" THEN Rows ELSE {}

(* What a client may bring: refresh tokens it was given, codes, its tokens. *)
OAuthStart(r) ==
  /\ \/ \E op \in {"ask", "signOut", "takedown", "restore"} : Begin(r, [op |-> op, at |-> "start"])
     \/ Begin(r, [op |-> "signIn", at |-> "start", password |-> password, down |-> FALSE])
     \/ \E a \in DOMAIN asked :
          \/ asked[a].is = "open" /\ \E op \in {"grant", "deny"} : Begin(r, [op |-> op, at |-> "start", a |-> a])
          \/ asked[a].code # 0 /\ Begin(r, [op |-> "exchange", at |-> "start", code |-> asked[a].code, tid |-> 0])
     \/ \E g \in taken : Begin(r, [op |-> "refresh", at |-> "start", token |-> g.refresh, row |-> 0, tid |-> 0])
     \/ \E i \in Rows : Begin(r, [op |-> "revoke", at |-> "start", row |-> i, tid |-> 0])
  /\ UNCHANGED <<oauthVars, status, password>>

-----------------------------------------------------------------------------
(* Signing in and out. *)

(* login: the account is read, and whether it is taken down. *)
SignInUser(r) ==
  /\ At(r, "signIn", "start")
  /\ IF status = "none" THEN End(r)
     ELSE Go(r, [req[r] EXCEPT !.at = "verify", !.down = status = "down"])
  /\ UNCHANGED <<oauthVars, status, password>>

(* authenticateAccount: no app password, and no account that was down. *)
SignInVerify(r) ==
  /\ At(r, "signIn", "verify")
  /\ IF status # "none" /\ req[r].password = password /\ ~req[r].down THEN To(r, "bind") ELSE End(r)
  /\ UNCHANGED <<oauthVars, status, password>>

(* upsertDeviceAccount, which refers to the row of the account. *)
SignInBind(r) ==
  /\ At(r, "signIn", "bind")
  /\ device' = (device \/ status # "none")
  /\ End(r)
  /\ UNCHANGED <<asked, tokens, used, drawn, taken, status, password>>

(* removeDeviceAccount, deleteDevice *)
SignOut(r) ==
  /\ At(r, "signOut", "start")
  /\ device' = FALSE
  /\ End(r)
  /\ UNCHANGED <<asked, tokens, used, drawn, taken, status, password>>

-----------------------------------------------------------------------------
(* An authorization request and its code. *)

CreateRequest(r) ==
  /\ At(r, "ask", "start")
  /\ asked' = Append(asked, [code |-> 0, is |-> "open"])
  /\ End(r)
  /\ UNCHANGED <<tokens, used, device, drawn, taken, status, password>>

(* getDeviceAccount: the session of the user who grants. *)
GrantDevice(r) ==
  /\ At(r, "grant", "start")
  /\ IF device /\ status = "up" THEN To(r, "update") ELSE End(r)
  /\ UNCHANGED <<oauthVars, status, password>>

(* updateRequest: no row, no update, and no error. *)
UpdateRequest(r) ==
  LET a == req[r].a
  IN  /\ At(r, "grant", "update")
      /\ drawn' = drawn + 1
      /\ asked' = IF asked[a].is = "gone" THEN asked
                  ELSE [asked EXCEPT ![a] = [code |-> drawn', is |-> "coded"]]
      /\ End(r)
      /\ UNCHANGED <<tokens, used, device, taken, status, password>>

DeleteRequest(r) ==
  /\ At(r, "deny", "start")
  /\ asked' = [asked EXCEPT ![req[r].a].is = "gone"]
  /\ End(r)
  /\ UNCHANGED <<tokens, used, device, drawn, taken, status, password>>

(* The background job that readRequest adds; how old a row is is not told. *)
RemoveOldExpired ==
  /\ \E a \in DOMAIN asked : asked[a].is # "gone" /\ asked' = [asked EXCEPT ![a].is = "gone"]
  /\ UNCHANGED <<tokens, used, device, drawn, taken, status, password, req>>

-----------------------------------------------------------------------------
(* A code is exchanged for a token. *)

Coded(code) == {a \in DOMAIN asked : asked[a].is = "coded" /\ asked[a].code = code}

(* Mutant: the code is read, and its request deleted by another query. *)
ConsumeRead(r) ==
  /\ At(r, "exchange", "start")
  /\ To(r, IF Coded(req[r].code) = {} THEN "find" ELSE "create")
  /\ UNCHANGED <<oauthVars, status, password>>

(* consumeRequestCode: found and deleted at once.  A code that is not      *)
(* found may be one that is used again.                                    *)
ConsumeRequestCode(r) ==
  LET found == Coded(req[r].code)
  IN  /\ At(r, "exchange", "start")
      /\ asked' = [a \in DOMAIN asked |-> IF a \in found THEN [asked[a] EXCEPT !.is = "gone"] ELSE asked[a]]
      /\ To(r, IF found = {} THEN "find" ELSE "create")
      /\ UNCHANGED <<tokens, used, device, drawn, taken, status, password>>

(* createToken, with a refresh token or without, whatever the account is.  *)
CreateToken(r) ==
  LET code == req[r].code
      row == Len(tokens) + 1
  IN  /\ At(r, "exchange", "create")
      /\ drawn' = drawn + 1
      /\ \/ /\ tokens' = Append(tokens, [tid |-> drawn', code |-> code, current |-> drawn'])
            /\ taken' = taken \cup {[by |-> <<"code", code>>, refresh |-> drawn', row |-> row]}
         \/ /\ tokens' = Append(tokens, [tid |-> drawn', code |-> code, current |-> None])
            /\ UNCHANGED taken
      /\ End(r)
      /\ UNCHANGED <<asked, used, device, status, password>>

(* findTokenByCode: the token that a code that comes again was given. *)
FindTokenByCode(r) ==
  LET found == {i \in Visible : tokens[i].code = req[r].code}
  IN  /\ At(r, "exchange", "find")
      /\ IF found = {} THEN End(r)
         ELSE \E i \in found : Go(r, [req[r] EXCEPT !.at = "delete", !.tid = tokens[i].tid])
      /\ UNCHANGED <<oauthVars, status, password>>

-----------------------------------------------------------------------------
(* A refresh token is rotated. *)

(* findTokenByRefreshToken, first query: whether it was used before. *)
FindUsed(r) ==
  LET found == {u \in used : u[1] = req[r].token}
  IN  /\ At(r, "refresh", "start")
      /\ \/ found = {} /\ To(r, "row")
         \/ \E u \in found : Go(r, [req[r] EXCEPT !.at = "row", !.row = u[2]])
      /\ UNCHANGED <<oauthVars, status, password>>

(* Second query: its row, by the id or as the current token of the row.    *)
(* The library rotates what is current, and deletes what is used again.    *)
FindRow(r) ==
  LET q == req[r]
      found == {i \in Visible : IF q.row # 0 THEN i = q.row ELSE tokens[i].current = q.token}
  IN  /\ At(r, "refresh", "row")
      /\ \/ found = {} /\ End(r)
         \/ \E i \in found :
              Go(r, [q EXCEPT !.tid = tokens[i].tid,
                       !.at = IF tokens[i].current = q.token THEN "rotate" ELSE "delete"])
      /\ UNCHANGED <<oauthVars, status, password>>

(* Mutant: what is marked as used is the new token. *)
RotateMarksNew(r) ==
  LET q == req[r]
      found == {i \in Rows : tokens[i].tid = q.tid /\ tokens[i].current # None}
  IN  /\ At(r, "refresh", "rotate")
      /\ \/ found = {} /\ UNCHANGED <<tokens, used, drawn, taken>>
         \/ \E i \in found :
              /\ drawn' = drawn + 1
              /\ tokens' = [tokens EXCEPT ![i].tid = drawn', ![i].current = drawn']
              /\ used' = used \cup {<<drawn', i>>}
              /\ taken' = taken \cup {[by |-> <<"refresh", q.token>>, refresh |-> drawn', row |-> i]}
      /\ End(r)
      /\ UNCHANGED <<asked, device, status, password>>

(* rotateToken, a transaction: the row is found by the id of its token; if *)
(* another rotation has changed that, or the row is gone, it fails.        *)
RotateToken(r) ==
  LET q == req[r]
      found == {i \in Rows : tokens[i].tid = q.tid /\ tokens[i].current # None}
  IN  /\ At(r, "refresh", "rotate")
      /\ \/ found = {} /\ UNCHANGED <<tokens, used, drawn, taken>>
         \/ \E i \in found :
              /\ drawn' = drawn + 1
              /\ tokens' = [tokens EXCEPT ![i].tid = drawn', ![i].current = drawn']
              /\ used' = used \cup {<<tokens[i].current, i>>}
              /\ taken' = taken \cup {[by |-> <<"refresh", q.token>>, refresh |-> drawn', row |-> i]}
      /\ End(r)
      /\ UNCHANGED <<asked, device, status, password>>

-----------------------------------------------------------------------------
(* Revocation. *)

(* readToken, listAccountTokens *)
ReadToken(r) ==
  /\ At(r, "revoke", "start")
  /\ IF req[r].row \in Visible
       THEN Go(r, [req[r] EXCEPT !.at = "delete", !.tid = tokens[req[r].row].tid])
       ELSE End(r)
  /\ UNCHANGED <<oauthVars, status, password>>

(* deleteToken, by the id that was read, for a user, for a code or for a   *)
(* refresh token that came again.                                          *)
DeleteToken(r) ==
  /\ \E op \in {"revoke", "exchange", "refresh"} : At(r, op, "delete")
  /\ Drop({i \in Rows : tokens[i].tid = req[r].tid})
  /\ End(r)
  /\ UNCHANGED <<asked, device, drawn, taken, status, password>>

(* takedownAccount, of a takedown and of its reversal, in one transaction. *)
Takedown(r) ==
  /\ \/ At(r, "takedown", "start") /\ status' = (IF status = "none" THEN "none" ELSE "down")
     \/ At(r, "restore", "start") /\ status' = (IF status = "none" THEN "none" ELSE "up")
  /\ Drop(Rows)
  /\ End(r)
  /\ UNCHANGED <<asked, device, drawn, taken, password>>

OAuthStep(r) ==
  \/ SignInUser(r) \/ SignInVerify(r) \/ SignInBind(r) \/ SignOut(r)
  \/ CreateRequest(r) \/ GrantDevice(r) \/ UpdateRequest(r) \/ DeleteRequest(r)
  \/ ConsumeRequestCode(r) \/ CreateToken(r) \/ FindTokenByCode(r)
  \/ FindUsed(r) \/ FindRow(r) \/ RotateToken(r)
  \/ ReadToken(r) \/ DeleteToken(r) \/ Takedown(r)

-----------------------------------------------------------------------------
(* Properties. *)

OAuthTypeOK ==
  /\ asked \in Seq([code : 0..drawn, is : {"open", "coded", "gone"}])
  /\ \A i \in Rows : tokens[i] \in [tid : 1..drawn, code : 0..drawn, current : (1..drawn) \cup {None}]
  /\ used \subseteq (1..drawn) \X Rows
  /\ device \in BOOLEAN
  /\ \A g \in taken : g.refresh \in 1..drawn /\ g.row \in DOMAIN tokens

(* However many requests race with one code, or with one refresh token, it *)
(* is exchanged for a refresh token at most once: of two that have found   *)
(* it, the second finds it no more.                                        *)
TakenOnce == \A x, y \in taken : x.by = y.by => x = y

(* As long as a row exists, every refresh token it ever had leads to it:   *)
(* one that comes again is recognised, and ends the row.                   *)
ReplayRecognised ==
  \A g \in taken : g.row \in Rows =>
    tokens[g.row].current = g.refresh \/ <<g.refresh, g.row>> \in used

(* A token that its user revokes is gone when the answer comes; but it is  *)
(* deleted by an id that a rotation may have changed since it was read.    *)
RevokedIsGone ==
  [][\A r \in Requests : At(r, "revoke", "delete") /\ At(r, "revoke", "end")' =>
       req[r].row \notin Rows']_<<req, oauthVars>>
=============================================================================
