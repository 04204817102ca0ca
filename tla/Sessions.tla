------------------------------- MODULE Sessions -------------------------------
(***************************************************************************)
(* The sessions of one account: its refresh tokens, from login through     *)
(* rotation to revocation.                                                 *)
(*                                                                         *)
(* A refresh token may be used again for a grace period after it was       *)
(* rotated, so that a client that lost the answer, or that refreshes twice *)
(* at once, gets the same successor.  A rotation reads the row of its      *)
(* token, tidies, signs, and only then changes rows in a transaction: what *)
(* it read may be stale by then.                                           *)
(***************************************************************************)
EXTENDS Naturals, Sequences, FiniteSets

CONSTANTS
  None,
  Life,         \* for how long a refresh token is valid
  Grace,        \* for how long one may be used after its first use
  Ops,          \* the operations that requests may ask for
  MaxRequests,  \* bound: requests in a behaviour
  MaxTime       \* bound: the last tick of the clock

ASSUME SessionsAssumption ==
  /\ Life \in Nat \ {0} /\ Grace \in Nat \ {0} /\ MaxRequests \in Nat /\ MaxTime \in Nat
  /\ None \notin Nat /\ None \notin [app : BOOLEAN, exp : Nat, next : Nat \cup {None}, since : Nat \X Nat]

VARIABLES
  rows,      \* token -> its row in refresh_token, or None; the tokens drawn so far
  clock,
  down,      \* the account is taken down
  password,  \* the version of the account password
  app,       \* the account has its app password
  epoch,     \* history: how often all tokens, and those of the app, were revoked
  granted,   \* history: pairs of a token (0: a login) and the token it was answered with
  family,    \* history: token -> the first token of its session
  out,       \* history: tokens that were logged out
  req        \* request -> how far its handler has come

vars == <<rows, clock, down, password, app, epoch, granted, family, out, req>>
account == <<down, password, app>>
history == <<granted, family, out>>

Requests == 1..MaxRequests
Tokens == DOMAIN rows
Held == {pair[2] : pair \in granted}
Alive == {t \in Tokens : rows[t] # None}

Idle == [op |-> None, at |-> "new", token |-> 0, old |-> None, next |-> 0, exp |-> 0, new |-> 0]

(* The grant of a token at this moment, for an epoch. *)
Since(isApp) == <<epoch[1], IF isApp THEN epoch[2] ELSE 0>>

(* The account has one session of its owner and one of an app. *)
Init ==
  /\ rows = <<[app |-> FALSE, exp |-> Life, next |-> None, since |-> <<0, 0>>],
              [app |-> TRUE, exp |-> Life, next |-> None, since |-> <<0, 0>>]>>
  /\ clock = 0 /\ down = FALSE /\ password = 0 /\ app = TRUE
  /\ epoch = <<0, 0>>
  /\ granted = {<<0, 1>>, <<0, 2>>} /\ family = <<1, 2>> /\ out = {}
  /\ req = [r \in Requests |-> Idle]

At(r, op, step) == req[r].op = op /\ req[r].at = step
Go(r, q) == req' = [req EXCEPT ![r] = q]
To(r, step) == Go(r, [req[r] EXCEPT !.at = step])
End(r) == Go(r, [Idle EXCEPT !.op = req[r].op, !.at = "end"])

(* A request.  A refresh or a logout brings a token that a client holds; a *)
(* login knows the password of the moment.                                 *)
Start(r, op, t) ==
  /\ req[r] = Idle /\ \A s \in 1..(r - 1) : req[s] # Idle
  /\ op \in {"refresh", "logout"} => t \in Held
  /\ Go(r, [Idle EXCEPT !.op = op, !.at = "user",
              !.token = IF op \in {"refresh", "logout"} THEN t ELSE 0,
              !.next = IF op = "login" THEN password ELSE 0])
  /\ UNCHANGED <<rows, clock, account, epoch, history>>

Tick ==
  /\ clock < MaxTime /\ clock' = clock + 1
  /\ UNCHANGED <<rows, account, epoch, history, req>>

-----------------------------------------------------------------------------
(* createSession *)

(* The account is read, and whether it is taken down: then an app password *)
(* is of no use, and a login that is let in all the same stores no token.  *)
LoginUser(r) ==
  /\ At(r, "login", "user") \/ At(r, "appLogin", "user")
  /\ IF down THEN End(r) ELSE To(r, "verify")
  /\ UNCHANGED <<rows, clock, account, epoch, history>>

Verify(r) ==
  /\ \/ At(r, "login", "verify") /\ IF req[r].next = password THEN To(r, "store") ELSE End(r)
     \/ At(r, "appLogin", "verify") /\ IF app THEN To(r, "store") ELSE End(r)
  /\ UNCHANGED <<rows, clock, account, epoch, history>>

(* Mutant: the expiry is stored in another unit than it is compared in. *)
StoreMillis(r) ==
  LET isApp == req[r].op = "appLogin"
      row == [app |-> isApp, exp |-> 1000 * (clock + Life), next |-> None, since |-> Since(isApp)]
  IN  /\ req[r].op \in {"login", "appLogin"} /\ req[r].at = "store"
      /\ rows' = Append(rows, row)
      /\ granted' = granted \cup {<<0, Len(rows) + 1>>}
      /\ family' = Append(family, Len(rows) + 1)
      /\ End(r)
      /\ UNCHANGED <<clock, account, epoch, out>>

(* storeRefreshToken, of a new session *)
StoreSession(r) ==
  LET isApp == req[r].op = "appLogin"
      row == [app |-> isApp, exp |-> clock + Life, next |-> None, since |-> Since(isApp)]
  IN  /\ req[r].op \in {"login", "appLogin"} /\ req[r].at = "store"
      /\ rows' = Append(rows, row)
      /\ granted' = granted \cup {<<0, Len(rows) + 1>>}
      /\ family' = Append(family, Len(rows) + 1)
      /\ End(r)
      /\ UNCHANGED <<clock, account, epoch, out>>

-----------------------------------------------------------------------------
(* refreshSession *)

RefreshUser(r) ==
  /\ At(r, "refresh", "user")
  /\ IF down THEN End(r) ELSE To(r, "get")
  /\ UNCHANGED <<rows, clock, account, epoch, history>>

(* Mutant: the grace period always counts from now. *)
GetTokenAnew(r) ==
  LET row == rows[req[r].token]
  IN  /\ At(r, "refresh", "get")
      /\ IF row = None THEN End(r)
         ELSE Go(r, [req[r] EXCEPT !.at = "tidy", !.old = row, !.new = clock, !.exp = clock + Grace])
      /\ UNCHANGED <<rows, clock, account, epoch, history>>

(* The row as rotateRefreshToken reads it, and the time it then takes. *)
GetToken(r) ==
  LET row == rows[req[r].token]
      limit == clock + Grace
  IN  /\ At(r, "refresh", "get")
      /\ IF row = None THEN End(r)
         ELSE Go(r, [req[r] EXCEPT !.at = "tidy", !.old = row, !.new = clock,
                       !.exp = IF limit < row.exp THEN limit ELSE row.exp])
      /\ UNCHANGED <<rows, clock, account, epoch, history>>

Live(row, now) == row # None /\ row.exp > now

(* All expired tokens of the account go, then the rotation ends if its own *)
(* is one; otherwise it draws an id for the successor, unless there is one. *)
Tidy(r) ==
  LET q == req[r]
      tidied == [t \in Tokens |-> IF Live(rows[t], q.new) THEN rows[t] ELSE None]
      fresh == q.old.next = None
      next == IF fresh THEN Len(rows) + 1 ELSE q.old.next
  IN  /\ At(r, "refresh", "tidy")
      /\ IF q.exp <= q.new
           THEN rows' = tidied /\ End(r) /\ UNCHANGED family
           ELSE /\ rows' = IF fresh THEN Append(tidied, None) ELSE tidied
                /\ family' = IF fresh THEN Append(family, family[q.token]) ELSE family
                /\ Go(r, [q EXCEPT !.at = "rotate", !.next = next, !.new = clock + Life])
      /\ UNCHANGED <<clock, account, epoch, granted, out>>

RowExists(q) == rows[q.token] # None   \* mutant: any successor will do
NoLostRow(q) ==                        \* mutant: a revoked row is no conflict
  rows[q.token] # None => rows[q.token].next \in {None, q.next}

(* addRefreshGracePeriod: whether the row of the token is still there, and *)
(* has no other successor.                                                 *)
MayRotate(q) ==
  LET row == rows[q.token] IN row # None /\ row.next \in {None, q.next}

(* The transaction of rotateRefreshToken; the successor may be there. *)
Rotated(q) ==
  LET next == IF rows[q.next] # None THEN rows[q.next]
              ELSE [app |-> q.old.app, exp |-> q.new, next |-> None, since |-> q.old.since]
  IN  [t \in Tokens |->
         CASE t = q.next -> next
           [] t = q.token /\ rows[t] # None -> [rows[t] EXCEPT !.exp = q.exp, !.next = q.next]
           [] OTHER -> rows[t]]
Rotate(r) ==
  LET q == req[r]
  IN  /\ At(r, "refresh", "rotate") /\ MayRotate(q)
      /\ rows' = Rotated(q)
      /\ granted' = granted \cup {<<q.token, q.next>>}
      /\ End(r)
      /\ UNCHANGED <<clock, account, epoch, family, out>>

(* A ConcurrentRefreshError: once more from the start of rotateRefreshToken. *)
Retry(r) ==
  /\ At(r, "refresh", "rotate") /\ ~MayRotate(req[r])
  /\ Go(r, [Idle EXCEPT !.op = "refresh", !.at = "get", !.token = req[r].token])
  /\ UNCHANGED <<rows, clock, account, epoch, history>>

-----------------------------------------------------------------------------
(* Revocation: each is one query or transaction. *)

Revoke(S) == rows' = [t \in Tokens |-> IF t \in S THEN None ELSE rows[t]]
AllRevoked == Revoke(Tokens) /\ epoch' = [epoch EXCEPT ![1] = @ + 1]

(* deleteSession *)
Logout(r) ==
  /\ At(r, "logout", "user")
  /\ Revoke({req[r].token})
  /\ out' = out \cup {req[r].token}
  /\ End(r)
  /\ UNCHANGED <<clock, account, epoch, granted, family>>

(* takedownAccount, of a takedown and of its reversal. *)
Takedown(r) ==
  /\ \/ At(r, "takedown", "user") /\ down' = TRUE
     \/ At(r, "restore", "user") /\ down' = FALSE
  /\ AllRevoked
  /\ End(r)
  /\ UNCHANGED <<clock, password, app, history>>

(* updateAccountPassword *)
SetPassword(r) ==
  /\ At(r, "password", "user")
  /\ password' = password + 1
  /\ AllRevoked
  /\ End(r)
  /\ UNCHANGED <<clock, down, app, history>>

(* revokeAppPassword *)
RevokeApp(r) ==
  /\ At(r, "revokeApp", "user")
  /\ app' = FALSE
  /\ Revoke({t \in Tokens : rows[t] # None /\ rows[t].app})
  /\ epoch' = [epoch EXCEPT ![2] = @ + 1]
  /\ End(r)
  /\ UNCHANGED <<clock, down, password, history>>

-----------------------------------------------------------------------------
Step(r) ==
  \/ LoginUser(r) \/ Verify(r) \/ StoreSession(r)
  \/ RefreshUser(r) \/ GetToken(r) \/ Tidy(r) \/ Rotate(r) \/ Retry(r)
  \/ Logout(r) \/ Takedown(r) \/ SetPassword(r) \/ RevokeApp(r)

Next ==
  \/ \E r \in Requests, op \in Ops, t \in Held : Start(r, op, t)
  \/ \E r \in Requests : Step(r)
  \/ Tick

Spec == Init /\ [][Next]_vars

-----------------------------------------------------------------------------
(* Properties. *)

Row == [app : BOOLEAN, exp : 0..(MaxTime + Life), next : Tokens \cup {None},
        since : Nat \X Nat]

(* Rows are rows, and a successor is a token that was drawn. *)
TypeOK ==
  /\ \A t \in Tokens : rows[t] \in Row \cup {None}
  /\ granted \subseteq (Tokens \cup {0}) \X Tokens
  /\ clock \in 0..MaxTime /\ down \in BOOLEAN /\ app \in BOOLEAN
  /\ \A r \in Requests : req[r].token \in Tokens \cup {0} /\ req[r].next \in Nat

(* However many refreshes of a token race, and however often one is used   *)
(* again, all that succeed are answered with one and the same successor,   *)
(* in a session that nobody has logged out of (see LogoutHolds).           *)
Ended == {family[t] : t \in out}
SameSuccessor ==
  \A x, y \in granted :
    x[1] = y[1] /\ x[1] # 0 /\ family[x[1]] \notin Ended => x[2] = y[2]

(* A token in its grace period leads to a session: its successor is there, *)
(* unless somebody has logged out of the session, and expires no earlier:  *)
(* neither tidying nor a revocation, of all tokens or of the app's, takes  *)
(* a successor and leaves its predecessor.                                 *)
SuccessorOutlives ==
  \A t \in Alive : rows[t].next # None =>
    LET next == rows[t].next
    IN  /\ next \in Alive \/ family[t] \in Ended
        /\ next \in Alive => rows[next].exp >= rows[t].exp

(* A rotation that was under way when the tokens of the account, or of its *)
(* app password, were revoked leaves no token behind: every row was        *)
(* granted, through whatever successors, after the last revocation.        *)
RevocationHolds ==
  \A t \in Tokens : rows[t] # None => rows[t].since = Since(rows[t].app)

(* tests/auth.test.ts:315, "refresh token is revoked when session is       *)
(* deleted": but its predecessor, in its grace period, brings it back.     *)
LogoutHolds == \A t \in out : rows[t] = None
=============================================================================
