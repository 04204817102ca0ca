--------------------------- MODULE SessionsProofs ---------------------------
(***************************************************************************)
(* Proofs about Sessions, for any number of requests, of any kinds, with   *)
(* any lifetimes: whatever was revoked stays so, and refreshes agree on    *)
(* the successor of a token.                                               *)
(*                                                                         *)
(* A refresh holds a row that it has read; the invariant says how what is  *)
(* held agrees with the table, though the row may be gone, or be back.     *)
(***************************************************************************)
EXTENDS Sessions, TLAPS

AnyRow == [app : BOOLEAN, exp : Nat, next : Nat \cup {None}, since : Nat \X Nat]
Steps == {"new", "user", "verify", "store", "get", "tidy", "rotate", "end"}
Request == [op : Ops \cup {None}, at : Steps, token : Nat, old : AnyRow \cup {None},
            next : Nat, exp : Nat, new : Nat]

Refreshing(r) == req[r].op = "refresh"
Read(r) == Refreshing(r) /\ req[r].at \in {"tidy", "rotate"}
Drawn(r) == Refreshing(r) /\ req[r].at = "rotate"
Fresh(r) == Drawn(r) /\ req[r].old.next = None
Under(r) == req[r].op \in {"refresh", "logout"} /\ req[r].at \notin {"new", "end"}

Types ==
  /\ rows \in Seq(AnyRow \cup {None})
  /\ clock \in Nat /\ password \in Nat /\ epoch \in Nat \X Nat
  /\ down \in BOOLEAN /\ app \in BOOLEAN
  /\ granted \subseteq (Tokens \cup {0}) \X Tokens
  /\ family \in Seq(Nat) /\ Len(family) = Len(rows)
  /\ \A t \in Tokens : family[t] \in Tokens
  /\ out \subseteq Tokens
  /\ req \in [Requests -> Request]
  /\ \A r \in Requests : Read(r) => req[r].old # None
  /\ \A r \in Requests : req[r].token \in Tokens \cup {0}
  /\ \A r \in Requests : Under(r) => req[r].token \in Tokens

\* What follows what: successors are granted to their predecessors, or drawn
\* by one refresh and known to nobody else.
Links ==
  /\ \A x \in granted : x[1] < x[2] /\ (x[1] # 0 => x[1] \in Held /\ family[x[1]] = family[x[2]])
  /\ \A t \in Alive : t \in Held /\ (rows[t].next # None => <<t, rows[t].next>> \in granted)
  /\ \A r \in Requests : Under(r) => req[r].token \in Held
  /\ \A r \in Requests :
       Read(r) /\ req[r].old.next # None => <<req[r].token, req[r].old.next>> \in granted
  /\ \A r \in Requests :
       Drawn(r) /\ ~Fresh(r) => req[r].next = req[r].old.next
  /\ \A r \in Requests :
       Fresh(r) => /\ req[r].next \in Tokens \ Held /\ req[r].token < req[r].next
                   /\ family[req[r].next] = family[req[r].token]
                   /\ \A s \in Requests \ {r} : Fresh(s) => req[s].next # req[r].next

\* A session is of one password, and alive only as of its last revocation.
Kin ==
  /\ \A t \in Alive : rows[t].since = Since(rows[t].app)
  /\ \A t, u \in Alive : family[t] = family[u] => rows[t].app = rows[u].app
  /\ \A r \in Requests, t \in Alive :
       Read(r) /\ family[req[r].token] = family[t] =>
         req[r].old.app = rows[t].app /\ req[r].old.since = rows[t].since

\* Expiries, those of the rows, those that refreshes are about to set.
Times ==
  /\ \A t \in Alive : rows[t].exp <= clock + Life
  /\ \A t \in Alive : rows[t].next # None => rows[t].exp <= clock + Grace
  /\ \A r \in Requests : Read(r) => req[r].exp <= clock + Life /\ req[r].exp <= clock + Grace
  /\ \A r \in Requests : Read(r) /\ ~Drawn(r) => req[r].new <= clock
  /\ \A r \in Requests : Drawn(r) => req[r].exp <= req[r].new /\ req[r].new <= clock + Life

\* A predecessor expires first: in the table, and in all that is about to be put there.
Order ==
  /\ \A t, n \in Alive : rows[t].next = n => rows[t].exp <= rows[n].exp
  /\ \A r \in Requests, n \in Alive : Read(r) /\ req[r].old.next = n => req[r].exp <= rows[n].exp
  /\ \A r \in Requests, t \in Alive : Read(r) /\ rows[t].next = req[r].token => rows[t].exp <= req[r].exp
  /\ \A r, s \in Requests :
       Read(r) /\ Read(s) /\ req[r].old.next = req[s].token => req[r].exp <= req[s].exp
  /\ \A r \in Requests, t \in Alive : Drawn(r) /\ rows[t].next = req[r].next => rows[t].exp <= req[r].new
  /\ \A r, s \in Requests :
       Drawn(r) /\ Read(s) /\ req[s].old.next = req[r].next => req[s].exp <= req[r].new

\* While nobody logs out, a token has its successor for as long as it is there.
Successors ==
  /\ \A t \in Alive : rows[t].next # None /\ family[t] \notin Ended => rows[t].next \in Alive
  /\ \A x \in granted :
       x[1] \in Alive /\ family[x[1]] \notin Ended => rows[x[1]].next = x[2]
  /\ SameSuccessor

IInv == Types /\ Links /\ Kin /\ Times /\ Order /\ Successors
-----------------------------------------------------------------------------
\* What a handler puts for its request, and for no other.
LEMMA GoOnly ==
  ASSUME Types, NEW r \in Requests, NEW q, Go(r, q)
  PROVE  /\ req'[r] = q
         /\ \A s \in Requests : s # r => req'[s] = req[s]
         /\ q \in Request => req' \in [Requests -> Request]
BY DEF Go, Types

LEMMA ToType ==
  ASSUME Types, NEW r \in Requests, NEW step \in Steps, To(r, step)
  PROVE  /\ req' \in [Requests -> Request]
         /\ req'[r].op = req[r].op /\ req'[r].at = step
         /\ req'[r].token = req[r].token /\ req'[r].old = req[r].old
         /\ \A s \in Requests : s # r => req'[s] = req[s]
<1>1. req[r] \in Request
  BY DEF Types
<1>2. [req[r] EXCEPT !.at = step] \in Request
  BY <1>1 DEF Request, Steps
<1> QED BY <1>1, <1>2, GoOnly DEF To, Request

LEMMA EndType ==
  ASSUME Types, NEW r \in Requests, End(r)
  PROVE  /\ req' \in [Requests -> Request]
         /\ req'[r].op = req[r].op /\ req'[r].at = "end"
         /\ req'[r].token = 0 /\ req'[r].old = None
         /\ \A s \in Requests : s # r => req'[s] = req[s]
<1>1. req[r] \in Request
  BY DEF Types
<1>2. Idle \in Request
  BY DEF Idle, Request, Steps
<1> DEFINE q == [Idle EXCEPT !.op = req[r].op, !.at = "end"]
<1>3. q.op = req[r].op /\ q.at = "end" /\ q.token = 0 /\ q.old = None
  BY DEF Idle
<1>4. q \in Request
  BY <1>1, <1>2 DEF Request, Steps
<1>5. Go(r, q)
  BY DEF End
<1> HIDE DEF q
<1> QED BY <1>3, <1>4, <1>5, GoOnly

LEMMA RevokeRows ==
  ASSUME Types, NEW S, Revoke(S)
  PROVE  /\ rows' \in Seq(AnyRow \cup {None})
         /\ Len(rows') = Len(rows) /\ Tokens' = Tokens
         /\ \A t \in Tokens : rows'[t] = IF t \in S THEN None ELSE rows[t]
BY DEF Types, Revoke, Tokens

LEMMA HeldTokens == Types => Held \subseteq Tokens
BY DEF Types, Held

-----------------------------------------------------------------------------
\* A step that puts no row in the table and has no refresh read or draw anything.
Quiet ==
  /\ rows' \in Seq(AnyRow \cup {None}) /\ Len(rows') = Len(rows)
  /\ \A t \in Tokens : rows'[t] # None => rows'[t] = rows[t]
  /\ UNCHANGED <<granted, family>>
  /\ clock' \in Nat /\ clock <= clock'
  /\ out \subseteq out' /\ out' \subseteq Tokens
  /\ req' \in [Requests -> Request]
  /\ \A r \in Requests : Read(r)' => Read(r) /\ req'[r] = req[r]
  /\ \A r \in Requests : Under(r)' => req'[r].token \in Held
  /\ \A r \in Requests : req'[r].token \in Tokens \cup {0}

\* The requests of a step by r that ends it, or leaves it before it has read.
QuietRequest(r) ==
  /\ req' \in [Requests -> Request]
  /\ \A s \in Requests : s # r => req'[s] = req[s]
  /\ req'[r].at \notin {"tidy", "rotate"}
  /\ Under(r)' => req'[r].token \in Held
  /\ req'[r].token \in Tokens \cup {0}

LEMMA EndQuiet ==
  ASSUME Types, NEW r \in Requests, End(r)
  PROVE  QuietRequest(r)
BY EndType DEF QuietRequest, Under

LEMMA ToQuiet ==
  ASSUME Types, Links, NEW r \in Requests, NEW step \in {"verify", "store", "get"}, To(r, step),
         req[r].at = "user" \/ req[r].op \notin {"refresh", "logout"}
  PROVE  QuietRequest(r)
<1>1. step \in Steps
  BY DEF Steps
<1>2. req'[r].op = req[r].op /\ req'[r].at = step /\ req'[r].token = req[r].token
  BY <1>1, ToType
<1> QED BY <1>1, <1>2, ToType DEF QuietRequest, Under, Links, Types

\* Where the table stays, and the history.
LEMMA QuietSame ==
  ASSUME Types, Links, NEW r \in Requests, QuietRequest(r), UNCHANGED <<rows, clock, history>>
  PROVE  Quiet
<1>1. /\ rows' = rows /\ clock' = clock /\ granted' = granted /\ family' = family /\ out' = out
  BY DEF history
<1>2. rows \in Seq(AnyRow \cup {None}) /\ clock \in Nat /\ out \subseteq Tokens
  BY DEF Types
<1>3. \A s \in Requests : Read(s)' => Read(s) /\ req'[s] = req[s]
  BY DEF QuietRequest, Read, Refreshing
<1>4. \A s \in Requests : Under(s)' => req'[s].token \in Held
  BY DEF QuietRequest, Under, Links
<1>5. \A s \in Requests : req'[s].token \in Tokens \cup {0}
  BY DEF QuietRequest, Types
<1> QED BY <1>1, <1>2, <1>3, <1>4, <1>5 DEF Quiet, QuietRequest

LEMMA StartQuiet ==
  ASSUME Types, Links, NEW r \in Requests, NEW op \in Ops, NEW t \in Held, Start(r, op, t)
  PROVE  Quiet
<1> DEFINE q == [Idle EXCEPT !.op = op, !.at = "user",
                   !.token = IF op \in {"refresh", "logout"} THEN t ELSE 0,
                   !.next = IF op = "login" THEN password ELSE 0]
<1>1. t \in Tokens /\ t \in Nat
  BY HeldTokens DEF Tokens, Types
<1>2. /\ q.op = op /\ q.at = "user" /\ q.token = (IF op \in {"refresh", "logout"} THEN t ELSE 0)
      /\ q \in Request
  BY <1>1 DEF Idle, Request, Steps, Types
<1>3. Go(r, q) /\ UNCHANGED <<rows, clock, history>>
  BY DEF Start
<1> HIDE DEF q
<1>4. QuietRequest(r)
  BY <1>1, <1>2, <1>3, GoOnly DEF QuietRequest, Under
<1> QED BY <1>3, <1>4, QuietSame

LEMMA QuietRevoke ==
  ASSUME Types, Links, NEW r \in Requests, QuietRequest(r), NEW S, Revoke(S),
         UNCHANGED <<clock, granted, family>>, out \subseteq out', out' \subseteq Tokens
  PROVE  Quiet
<1>1. /\ rows' \in Seq(AnyRow \cup {None}) /\ Len(rows') = Len(rows)
      /\ \A t \in Tokens : rows'[t] # None => rows'[t] = rows[t]
  BY RevokeRows
<1>2. clock' \in Nat /\ clock <= clock'
  BY DEF Types
<1>3. \A s \in Requests : Read(s)' => Read(s) /\ req'[s] = req[s]
  BY DEF QuietRequest, Read, Refreshing
<1>4. \A s \in Requests : Under(s)' => req'[s].token \in Held
  BY DEF QuietRequest, Under, Links
<1>5. \A s \in Requests : req'[s].token \in Tokens \cup {0}
  BY DEF QuietRequest, Types
<1> QED BY <1>1, <1>2, <1>3, <1>4, <1>5 DEF Quiet, QuietRequest

LEMMA StillQuiet ==
  ASSUME Types, Links, UNCHANGED vars
  PROVE  Quiet
<1>1. /\ rows' = rows /\ clock' = clock /\ granted' = granted /\ family' = family /\ out' = out
      /\ req' = req
  BY DEF vars
<1>2. rows \in Seq(AnyRow \cup {None}) /\ clock \in Nat /\ out \subseteq Tokens /\ req \in [Requests -> Request]
  BY DEF Types
<1>3. \A r \in Requests : Read(r)' => Read(r)
  BY <1>1 DEF Read, Refreshing
<1>4. \A r \in Requests : Under(r)' => req'[r].token \in Held
  BY <1>1 DEF Under, Links
<1>5. \A r \in Requests : req'[r].token \in Tokens \cup {0}
  BY <1>1 DEF Types
<1> QED BY <1>1, <1>2, <1>3, <1>4, <1>5 DEF Quiet

LEMMA TickQuiet ==
  ASSUME Types, Links, Tick
  PROVE  Quiet
<1>1. /\ rows' = rows /\ granted' = granted /\ family' = family /\ out' = out /\ req' = req
      /\ clock' = clock + 1
  BY DEF Tick, history
<1>2. rows \in Seq(AnyRow \cup {None}) /\ clock \in Nat /\ out \subseteq Tokens /\ req \in [Requests -> Request]
  BY DEF Types
<1>3. \A r \in Requests : Read(r)' => Read(r)
  BY <1>1 DEF Read, Refreshing
<1>4. \A r \in Requests : Under(r)' => req'[r].token \in Held
  BY <1>1 DEF Under, Links
<1>5. \A r \in Requests : req'[r].token \in Tokens \cup {0}
  BY <1>1 DEF Types
<1> QED BY <1>1, <1>2, <1>3, <1>4, <1>5 DEF Quiet

LEMMA LoginQuiet ==
  ASSUME Types, Links, NEW r \in Requests, LoginUser(r) \/ Verify(r) \/ RefreshUser(r)
  PROVE  Quiet
<1>1. UNCHANGED <<rows, clock, history>>
  BY DEF LoginUser, Verify, RefreshUser
<1>2. \/ End(r)
      \/ To(r, "get") /\ req[r].at = "user"
      \/ To(r, "verify") /\ req[r].at = "user"
      \/ To(r, "store") /\ req[r].op \notin {"refresh", "logout"}
  BY DEF LoginUser, Verify, RefreshUser, At
<1>3. QuietRequest(r)
  BY <1>2, EndQuiet, ToQuiet
<1> QED BY <1>1, <1>3, QuietSame

LEMMA RetryQuiet ==
  ASSUME Types, Links, NEW r \in Requests, Retry(r)
  PROVE  Quiet
<1> DEFINE q == [Idle EXCEPT !.op = "refresh", !.at = "get", !.token = req[r].token]
<1>1. Under(r)
  BY DEF Retry, At, Under
<1>2. req[r].token \in Held /\ req[r].token \in Tokens /\ req[r].token \in Nat
  BY <1>1, HeldTokens DEF Links, Types, Request
<1>3. req[r].op \in Ops \cup {None} /\ req[r].op = "refresh"
  BY DEF Retry, At, Types, Request
<1>4. q.op = "refresh" /\ q.at = "get" /\ q.token = req[r].token
  BY DEF Idle
<1>5. q \in Request
  BY <1>2, <1>3 DEF Idle, Request, Steps
<1>6. Go(r, q) /\ UNCHANGED <<rows, clock, history>>
  BY DEF Retry
<1> HIDE DEF q
<1>7. QuietRequest(r)
  BY <1>2, <1>4, <1>5, <1>6, GoOnly DEF QuietRequest, Under
<1> QED BY <1>6, <1>7, QuietSame

LEMMA RevocationQuiet ==
  ASSUME Types, Links, NEW r \in Requests,
         Logout(r) \/ Takedown(r) \/ SetPassword(r) \/ RevokeApp(r)
  PROVE  Quiet
<1>1. QuietRequest(r)
  BY EndQuiet DEF Logout, Takedown, SetPassword, RevokeApp
<1>2. UNCHANGED <<clock, granted, family>>
  BY DEF Logout, Takedown, SetPassword, RevokeApp, history
<1>3. CASE Logout(r)
  <2>1. Under(r)
    BY <1>3 DEF Logout, At, Under
  <2>2. req[r].token \in Tokens /\ out \subseteq Tokens
    BY <2>1 DEF Types
  <2>3. Revoke({req[r].token}) /\ out' = out \cup {req[r].token}
    BY <1>3 DEF Logout
  <2> QED BY <1>1, <1>2, <2>2, <2>3, QuietRevoke
<1>4. CASE Takedown(r) \/ SetPassword(r) \/ RevokeApp(r)
  <2>1. out' = out /\ out \subseteq Tokens
    BY <1>4 DEF Takedown, SetPassword, RevokeApp, history, Types
  <2>2. PICK S : Revoke(S)
    BY <1>4 DEF Takedown, SetPassword, RevokeApp, AllRevoked
  <2> QED BY <1>1, <1>2, <2>1, <2>2, QuietRevoke
<1> QED BY <1>3, <1>4

-----------------------------------------------------------------------------
\* A quiet step leaves what the invariant says of rows and requests.
LEMMA QuietTable ==
  ASSUME Types, Quiet
  PROVE  /\ Tokens' = Tokens /\ Held' = Held
         /\ Alive' \subseteq Alive /\ \A t \in Alive' : rows'[t] = rows[t]
         /\ \A r \in Requests : Read(r)' => Read(r) /\ req'[r] = req[r]
         /\ \A r \in Requests : Drawn(r)' => Drawn(r) /\ req'[r] = req[r]
         /\ \A r \in Requests : Fresh(r)' => Fresh(r) /\ req'[r] = req[r]
<1>1. Tokens' = Tokens /\ Held' = Held
  BY DEF Quiet, Types, Tokens, Held
<1>2. Alive' \subseteq Alive /\ \A t \in Alive' : rows'[t] = rows[t]
  BY <1>1 DEF Alive, Quiet
<1>3. \A r \in Requests : Read(r)' => Read(r) /\ req'[r] = req[r]
  BY DEF Quiet
<1>4. \A r \in Requests : Drawn(r)' => Drawn(r) /\ req'[r] = req[r]
  BY <1>3 DEF Read, Drawn, Refreshing
<1>5. \A r \in Requests : Fresh(r)' => Fresh(r) /\ req'[r] = req[r]
  BY <1>4 DEF Fresh
<1> QED BY <1>1, <1>2, <1>3, <1>4, <1>5

LEMMA QuietTypes ==
  ASSUME Types, Quiet, password' \in Nat, epoch' \in Nat \X Nat, down' \in BOOLEAN, app' \in BOOLEAN
  PROVE  Types'
<1>1. \A r \in Requests : Read(r)' => req'[r].old # None
  BY DEF Quiet, Types
<1>2. \A r \in Requests : Under(r)' => req'[r].token \in Tokens
  BY HeldTokens DEF Quiet
<1> QED BY <1>1, <1>2, QuietTable DEF Types, Quiet

LEMMA QuietLinks ==
  ASSUME Types, Links, Quiet
  PROVE  Links'
<1>1. granted' = granted /\ family' = family
  BY DEF Quiet
<1>2. \A x \in granted : x[1] < x[2] /\ (x[1] # 0 => x[1] \in Held' /\ family'[x[1]] = family'[x[2]])
  BY <1>1, QuietTable DEF Links
<1>3. \A t \in Alive' : t \in Held' /\ (rows'[t].next # None => <<t, rows'[t].next>> \in granted')
  BY <1>1, QuietTable DEF Links
<1>4. \A r \in Requests : Under(r)' => req'[r].token \in Held'
  BY QuietTable DEF Quiet
<1>5. \A r \in Requests :
        Read(r)' /\ req'[r].old.next # None => <<req'[r].token, req'[r].old.next>> \in granted'
  BY <1>1, QuietTable DEF Links
<1>6. \A r \in Requests : Drawn(r)' /\ ~Fresh(r)' => req'[r].next = req'[r].old.next
  <2> SUFFICES ASSUME NEW r \in Requests, Drawn(r)', ~Fresh(r)' PROVE req'[r].next = req'[r].old.next
    OBVIOUS
  <2>1. Drawn(r) /\ req'[r] = req[r]
    BY QuietTable
  <2>2. ~Fresh(r)
    BY <2>1 DEF Fresh
  <2> QED BY <2>1, <2>2 DEF Links
<1>7. \A r \in Requests :
        Fresh(r)' => /\ req'[r].next \in Tokens' \ Held' /\ req'[r].token < req'[r].next
                     /\ family'[req'[r].next] = family'[req'[r].token]
                     /\ \A s \in Requests \ {r} : Fresh(s)' => req'[s].next # req'[r].next
  BY <1>1, QuietTable DEF Links
<1> QED BY <1>1, <1>2, <1>3, <1>4, <1>5, <1>6, <1>7 DEF Links

LEMMA QuietTimes ==
  ASSUME Types, Times, Quiet
  PROVE  Times'
<1>1. clock \in Nat /\ clock' \in Nat /\ clock <= clock' /\ Life \in Nat /\ Grace \in Nat
  BY SessionsAssumption DEF Types, Quiet
<1>2. \A t \in Alive' : rows[t].exp \in Nat
  BY QuietTable DEF Types, Alive, Tokens, AnyRow
<1>3. \A t \in Alive' : rows'[t].exp <= clock' + Life
  BY <1>1, <1>2, QuietTable DEF Times
<1>4. \A t \in Alive' : rows'[t].next # None => rows'[t].exp <= clock' + Grace
  BY <1>1, <1>2, QuietTable DEF Times
<1>5. \A r \in Requests : req[r].exp \in Nat /\ req[r].new \in Nat
  BY DEF Types, Request
<1>6. \A r \in Requests : Read(r)' => req'[r].exp <= clock' + Life /\ req'[r].exp <= clock' + Grace
  BY <1>1, <1>5, QuietTable DEF Times
<1>7. \A r \in Requests : Read(r)' /\ ~Drawn(r)' => req'[r].new <= clock'
  <2> SUFFICES ASSUME NEW r \in Requests, Read(r)', ~Drawn(r)' PROVE req'[r].new <= clock'
    OBVIOUS
  <2>1. Read(r) /\ req'[r] = req[r]
    BY QuietTable
  <2>2. ~Drawn(r)
    BY <2>1 DEF Drawn, Refreshing
  <2> QED BY <1>1, <1>5, <2>1, <2>2 DEF Times
<1>8. \A r \in Requests : Drawn(r)' => req'[r].exp <= req'[r].new /\ req'[r].new <= clock' + Life
  BY <1>1, <1>5, QuietTable DEF Times
<1> QED BY <1>3, <1>4, <1>6, <1>7, <1>8 DEF Times

LEMMA QuietOrder ==
  ASSUME Types, Order, Quiet
  PROVE  Order'
<1>1. \A t, n \in Alive' : rows'[t].next = n => rows'[t].exp <= rows'[n].exp
  BY QuietTable DEF Order
<1>2. \A r \in Requests, n \in Alive' : Read(r)' /\ req'[r].old.next = n => req'[r].exp <= rows'[n].exp
  BY QuietTable DEF Order
<1>3. \A r \in Requests, t \in Alive' : Read(r)' /\ rows'[t].next = req'[r].token => rows'[t].exp <= req'[r].exp
  BY QuietTable DEF Order
<1>4. \A r, s \in Requests :
        Read(r)' /\ Read(s)' /\ req'[r].old.next = req'[s].token => req'[r].exp <= req'[s].exp
  BY QuietTable DEF Order
<1>5. \A r \in Requests, t \in Alive' : Drawn(r)' /\ rows'[t].next = req'[r].next => rows'[t].exp <= req'[r].new
  BY QuietTable DEF Order
<1>6. \A r, s \in Requests :
        Drawn(r)' /\ Read(s)' /\ req'[s].old.next = req'[r].next => req'[s].exp <= req'[r].new
  BY QuietTable DEF Order
<1> QED BY <1>1, <1>2, <1>3, <1>4, <1>5, <1>6 DEF Order

LEMMA QuietKin ==
  ASSUME Types, Kin, Quiet, \A t \in Alive' : rows'[t].since = (Since(rows[t].app))'
  PROVE  Kin'
<1>1. family' = family
  BY DEF Quiet
<1>2. \A t \in Alive' : rows'[t].since = (Since(rows[t].app))'
  OBVIOUS
<1>3. \A t, u \in Alive' : family'[t] = family'[u] => rows'[t].app = rows'[u].app
  BY <1>1, QuietTable DEF Kin
<1>4. \A r \in Requests, t \in Alive' :
        Read(r)' /\ family'[req'[r].token] = family'[t] =>
          req'[r].old.app = rows'[t].app /\ req'[r].old.since = rows'[t].since
  BY <1>1, QuietTable DEF Kin
<1> QED BY <1>2, <1>3, <1>4 DEF Kin

\* A successor may go only when its predecessor does, or somebody has logged out.
LEMMA QuietSuccessors ==
  ASSUME Types, Successors, Quiet,
         \A t \in Alive' : rows[t].next \in Alive /\ family[t] \notin Ended' => rows[t].next \in Alive'
  PROVE  Successors'
<1>1. granted' = granted /\ family' = family /\ out \subseteq out'
  BY DEF Quiet
<1>2. Ended \subseteq Ended'
  BY <1>1 DEF Ended
<1>3. \A t \in Alive' : rows'[t].next # None /\ family'[t] \notin Ended' => rows'[t].next \in Alive'
  BY <1>1, <1>2, QuietTable DEF Successors
<1>4. \A x \in granted' : x[1] \in Alive' /\ family'[x[1]] \notin Ended' => rows'[x[1]].next = x[2]
  BY <1>1, <1>2, QuietTable DEF Successors
<1>5. SameSuccessor'
  BY <1>1, <1>2 DEF Successors, SameSuccessor
<1> QED BY <1>3, <1>4, <1>5 DEF Successors

-----------------------------------------------------------------------------
\* What a row and a successor in the table are.
LEMMA AliveRow ==
  ASSUME Types, NEW t \in Alive
  PROVE  t \in Tokens /\ t \in Nat /\ t # 0 /\ rows[t] \in AnyRow
BY DEF Types, Alive, Tokens

LEMMA SuccessorToken ==
  ASSUME Types, Links
  PROVE  /\ \A t \in Alive : rows[t].next # None => rows[t].next \in Tokens
         /\ \A r \in Requests : Read(r) => /\ req[r].token \in Tokens
                                           /\ req[r].old.next # None => req[r].old.next \in Tokens
         /\ \A r \in Requests : Drawn(r) => req[r].next \in Tokens
<1>1. \A a, b : <<a, b>> \in granted => b \in Tokens
  BY DEF Types
<1>2. \A t \in Alive : rows[t].next # None => rows[t].next \in Tokens
  BY <1>1 DEF Links
<1>3. \A r \in Requests : Read(r) => (req[r].old.next # None => req[r].old.next \in Tokens)
  BY <1>1 DEF Links
<1>4. \A r \in Requests : Read(r) => req[r].token \in Tokens
  BY DEF Read, Refreshing, Under, Types
<1>5. ASSUME NEW r \in Requests, Drawn(r) PROVE req[r].next \in Tokens
  <2>1. CASE Fresh(r)
    BY <2>1 DEF Links
  <2>2. CASE ~Fresh(r)
    <3>1. Read(r) /\ req[r].old.next # None /\ req[r].next = req[r].old.next
      BY <1>5, <2>2 DEF Fresh, Drawn, Read, Links
    <3> QED BY <1>3, <3>1
  <2> QED BY <2>1, <2>2
<1> QED BY <1>2, <1>3, <1>4, <1>5

LEMMA SuccessorKin ==
  ASSUME Types, Links, Kin, NEW t \in Alive, rows[t].next \in Alive
  PROVE  family[rows[t].next] = family[t] /\ rows[rows[t].next].app = rows[t].app
<1>1. rows[t].next # None
  BY AliveRow, SessionsAssumption
<1>2. <<t, rows[t].next>> \in granted
  BY <1>1 DEF Links
<1>3. family[t] = family[rows[t].next]
  BY <1>2, AliveRow DEF Links
<1> QED BY <1>3 DEF Kin

LEMMA QuietInv ==
  ASSUME IInv, Quiet, password' \in Nat, epoch' \in Nat \X Nat, down' \in BOOLEAN, app' \in BOOLEAN,
         \A t \in Alive' : rows'[t].since = (Since(rows[t].app))',
         \A t \in Alive' : rows[t].next \in Alive /\ family[t] \notin Ended' => rows[t].next \in Alive'
  PROVE  IInv'
BY QuietTypes, QuietLinks, QuietKin, QuietTimes, QuietOrder, QuietSuccessors DEF IInv

LEMMA QuietSameInv ==
  ASSUME IInv, Quiet, UNCHANGED rows, password' \in Nat, UNCHANGED <<epoch, down, app>>
  PROVE  IInv'
<1>1. Alive' = Alive /\ epoch' \in Nat \X Nat /\ down' \in BOOLEAN /\ app' \in BOOLEAN
  BY DEF IInv, Types, Alive, Tokens
<1>2. \A t \in Alive' : rows'[t].since = (Since(rows[t].app))'
  BY <1>1 DEF IInv, Kin, Since
<1> QED BY <1>1, <1>2, QuietInv

LEMMA LogoutInv ==
  ASSUME IInv, NEW r \in Requests, Logout(r)
  PROVE  IInv'
<1>1. Quiet
  BY RevocationQuiet DEF IInv
<1>2. /\ password' = password /\ epoch' = epoch /\ down' = down /\ app' = app
      /\ out' = out \cup {req[r].token} /\ family' = family
  BY DEF Logout, account
<1>3. Alive' = Alive \ {req[r].token} /\ \A t \in Alive' : rows'[t] = rows[t]
  <2>1. Tokens' = Tokens /\ \A t \in Tokens : rows'[t] = IF t \in {req[r].token} THEN None ELSE rows[t]
    BY RevokeRows DEF Logout, IInv
  <2> QED BY <2>1 DEF Alive
<1>4. \A t \in Alive' : rows'[t].since = (Since(rows[t].app))'
  BY <1>2, <1>3 DEF IInv, Kin, Since
<1>5. \A t \in Alive' : rows[t].next \in Alive /\ family[t] \notin Ended' => rows[t].next \in Alive'
  <2> SUFFICES ASSUME NEW t \in Alive', rows[t].next \in Alive, family[t] \notin Ended'
               PROVE rows[t].next # req[r].token
    BY <1>3
  <2>1. family[rows[t].next] = family[t]
    BY <1>3, SuccessorKin DEF IInv
  <2>2. family[req[r].token] \in Ended'
    BY <1>2 DEF Ended
  <2> QED BY <2>1, <2>2
<1> QED BY <1>1, <1>2, <1>4, <1>5, QuietInv DEF IInv, Types

LEMMA TakedownInv ==
  ASSUME IInv, NEW r \in Requests, Takedown(r) \/ SetPassword(r)
  PROVE  IInv'
<1>1. Quiet
  BY RevocationQuiet DEF IInv
<1>2. password' \in Nat /\ down' \in BOOLEAN /\ app' \in BOOLEAN
  <2>1. password' \in Nat
    BY DEF Takedown, SetPassword, IInv, Types
  <2>2. app' \in BOOLEAN
    BY Zenon DEF Takedown, SetPassword, IInv, Types
  <2>3. down' \in BOOLEAN
    BY Zenon DEF Takedown, SetPassword, IInv, Types
  <2> QED BY <2>1, <2>2, <2>3
<1>3. epoch' \in Nat \X Nat
  BY DEF Takedown, SetPassword, AllRevoked, IInv, Types
<1>4. Alive' = {}
  <2>1. Tokens' = Tokens /\ \A t \in Tokens : rows'[t] = IF t \in Tokens THEN None ELSE rows[t]
    BY RevokeRows DEF Takedown, SetPassword, AllRevoked, IInv
  <2> QED BY <2>1 DEF Alive
<1> QED BY <1>1, <1>2, <1>3, <1>4, QuietInv

LEMMA RevokeAppInv ==
  ASSUME IInv, NEW r \in Requests, RevokeApp(r)
  PROVE  IInv'
<1>1. Quiet
  BY RevocationQuiet DEF IInv
<1>2. password' \in Nat /\ down' \in BOOLEAN /\ app' \in BOOLEAN
  BY DEF RevokeApp, IInv, Types
<1>3. epoch' \in Nat \X Nat /\ epoch'[1] = epoch[1]
  BY DEF RevokeApp, IInv, Types
<1>4. /\ Alive' = {t \in Alive : ~rows[t].app}
      /\ \A t \in Alive' : rows'[t] = rows[t]
  <2> DEFINE S == {t \in Tokens : rows[t] # None /\ rows[t].app}
  <2>1. Tokens' = Tokens /\ \A t \in Tokens : rows'[t] = IF t \in S THEN None ELSE rows[t]
    BY RevokeRows DEF RevokeApp, IInv
  <2> QED BY <2>1 DEF Alive
<1>5. \A t \in Alive' : rows'[t].since = (Since(rows[t].app))'
  BY <1>3, <1>4 DEF IInv, Kin, Since
<1>6. \A t \in Alive' : rows[t].next \in Alive /\ family[t] \notin Ended' => rows[t].next \in Alive'
  BY <1>4, SuccessorKin DEF IInv
<1> QED BY <1>1, <1>2, <1>3, <1>5, <1>6, QuietInv

LEMMA LoginInv ==
  ASSUME IInv, NEW r \in Requests, LoginUser(r) \/ Verify(r) \/ RefreshUser(r) \/ Retry(r)
  PROVE  IInv'
<1>1. Quiet
  BY LoginQuiet, RetryQuiet DEF IInv
<1>2. UNCHANGED <<rows, password, epoch, down, app>> /\ password \in Nat
  BY DEF LoginUser, Verify, RefreshUser, Retry, account, IInv, Types
<1> QED BY <1>1, <1>2, QuietSameInv

LEMMA StartInv ==
  ASSUME IInv, NEW r \in Requests, NEW op \in Ops, NEW t \in Held, Start(r, op, t)
  PROVE  IInv'
<1>1. Quiet
  BY StartQuiet DEF IInv
<1>2. UNCHANGED <<rows, password, epoch, down, app>> /\ password \in Nat
  BY DEF Start, account, IInv, Types
<1> QED BY <1>1, <1>2, QuietSameInv

LEMMA TickInv ==
  ASSUME IInv, Tick \/ UNCHANGED vars
  PROVE  IInv'
<1>1. Quiet
  BY TickQuiet, StillQuiet DEF IInv
<1>2. UNCHANGED <<rows, password, epoch, down, app>> /\ password \in Nat
  BY DEF Tick, vars, account, IInv, Types
<1> QED BY <1>1, <1>2, QuietSameInv

-----------------------------------------------------------------------------
\* What GetToken has read, of the row of its token.
LEMMA GetFacts ==
  ASSUME IInv, NEW r \in Requests, GetToken(r), rows[req[r].token] # None
  PROVE  LET k == req[r].token IN
         /\ k \in Alive /\ k \in Held
         /\ req' \in [Requests -> Request]
         /\ \A s \in Requests : s # r => req'[s] = req[s]
         /\ req'[r].op = "refresh" /\ req'[r].at = "tidy" /\ req'[r].token = k
         /\ req'[r].old = rows[k] /\ req'[r].new = clock /\ req'[r].exp \in Nat
         /\ req'[r].exp <= clock + Grace /\ req'[r].exp <= rows[k].exp
         /\ req'[r].exp = clock + Grace \/ req'[r].exp = rows[k].exp
<1> DEFINE k == req[r].token
           limit == clock + Grace
           q == [req[r] EXCEPT !.at = "tidy", !.old = rows[k], !.new = clock,
                   !.exp = IF limit < rows[k].exp THEN limit ELSE rows[k].exp]
<1>1. Under(r) /\ req[r].op = "refresh"
  BY DEF GetToken, At, Under
<1>2. k \in Held /\ k \in Tokens
  BY <1>1 DEF IInv, Links, Types
<1>3. k \in Alive
  BY <1>2 DEF Alive
<1>4. rows[k] \in AnyRow /\ rows[k].exp \in Nat /\ limit \in Nat /\ clock \in Nat
  BY <1>3, AliveRow, SessionsAssumption DEF IInv, Types, AnyRow
<1>5. req[r] \in Request
  BY DEF IInv, Types
<1>6. /\ q.op = "refresh" /\ q.at = "tidy" /\ q.token = k /\ q.old = rows[k] /\ q.new = clock
      /\ q.exp = IF limit < rows[k].exp THEN limit ELSE rows[k].exp
  BY <1>1, <1>5 DEF Request
<1>7. q \in Request
  <2>1. (IF limit < rows[k].exp THEN limit ELSE rows[k].exp) \in Nat
    BY <1>4
  <2> HIDE DEF limit
  <2> QED BY <1>4, <1>5, <2>1 DEF Request, Steps
<1>8. Go(r, q)
  BY DEF GetToken
<1> HIDE DEF q
<1>9. req'[r] = q /\ req' \in [Requests -> Request] /\ \A s \in Requests : s # r => req'[s] = req[s]
  BY <1>7, <1>8, GoOnly DEF IInv
<1> QED BY <1>2, <1>3, <1>4, <1>6, <1>9

LEMMA GetTokenInv ==
  ASSUME IInv, NEW r \in Requests, GetToken(r)
  PROVE  IInv'
<1>1. /\ rows' = rows /\ clock' = clock /\ granted' = granted /\ family' = family /\ out' = out
      /\ password' = password /\ epoch' = epoch /\ down' = down /\ app' = app
  BY DEF GetToken, account, history
<1>2. CASE rows[req[r].token] = None
  <2>1. End(r)
    BY <1>2 DEF GetToken
  <2>2. Quiet
    BY <1>1, <2>1, EndQuiet, QuietSame DEF IInv, history
  <2> QED BY <1>1, <2>2, QuietSameInv DEF IInv, Types
<1>3. CASE rows[req[r].token] # None
  <2> DEFINE k == req[r].token
  <2>1. /\ k \in Alive /\ k \in Held
        /\ req' \in [Requests -> Request]
        /\ \A s \in Requests : s # r => req'[s] = req[s]
        /\ req'[r].op = "refresh" /\ req'[r].at = "tidy" /\ req'[r].token = k
        /\ req'[r].old = rows[k] /\ req'[r].new = clock /\ req'[r].exp \in Nat
        /\ req'[r].exp <= clock + Grace /\ req'[r].exp <= rows[k].exp
        /\ req'[r].exp = clock + Grace \/ req'[r].exp = rows[k].exp
    BY <1>3, GetFacts
  <2>2. Tokens' = Tokens /\ Alive' = Alive /\ Held' = Held /\ Ended' = Ended
    BY <1>1 DEF Tokens, Alive, Held, Ended
  <2>3. \A s \in Requests : s # r => (Read(s)' <=> Read(s)) /\ (Drawn(s)' <=> Drawn(s))
                                     /\ (Fresh(s)' <=> Fresh(s)) /\ (Under(s)' <=> Under(s))
    BY <2>1 DEF Read, Drawn, Fresh, Under, Refreshing
  <2>4. ~Drawn(r)' /\ ~Fresh(r)' /\ Read(r)'
    BY <2>1 DEF Read, Drawn, Fresh, Refreshing
  <2>5. k \in Tokens /\ k \in Nat /\ rows[k] \in AnyRow /\ rows[k] # None /\ rows[k].exp \in Nat
    BY <2>1, AliveRow DEF IInv, Alive, AnyRow
  <2>6. rows[k].next # None => <<k, rows[k].next>> \in granted /\ k < rows[k].next
    <3>1. rows[k].next # None => <<k, rows[k].next>> \in granted
      BY <2>1 DEF IInv, Links
    <3>2. \A x \in granted : x[1] < x[2]
      BY DEF IInv, Links
    <3> QED BY <3>1, <3>2
  <2>7. Types'
    <3>1. \A s \in Requests : Read(s)' => req'[s].old # None
      BY <2>1, <2>3, <2>5 DEF IInv, Types
    <3>2. \A s \in Requests : req'[s].token \in Tokens \cup {0}
      BY <2>1, <2>5 DEF IInv, Types
    <3>3. \A s \in Requests : Under(s)' => req'[s].token \in Tokens
      BY <2>1, <2>3, <2>5 DEF IInv, Types
    <3> QED BY <1>1, <2>1, <2>2, <3>1, <3>2, <3>3 DEF IInv, Types
  <2>8. Links'
    <3>1. \A s \in Requests : Under(s)' => req'[s].token \in Held
      BY <2>1, <2>3 DEF IInv, Links
    <3>2. \A s \in Requests :
            Read(s)' /\ req'[s].old.next # None => <<req'[s].token, req'[s].old.next>> \in granted
      BY <2>1, <2>3, <2>6 DEF IInv, Links
    <3>3. \A s \in Requests : Drawn(s)' /\ ~Fresh(s)' => req'[s].next = req'[s].old.next
      BY <2>1, <2>3, <2>4 DEF IInv, Links
    <3>4. \A s \in Requests :
            Fresh(s)' => /\ req'[s].next \in Tokens \ Held /\ req'[s].token < req'[s].next
                         /\ family[req'[s].next] = family[req'[s].token]
                         /\ \A u \in Requests \ {s} : Fresh(u)' => req'[u].next # req'[s].next
      BY <2>1, <2>3, <2>4 DEF IInv, Links
    <3> QED BY <1>1, <2>2, <3>1, <3>2, <3>3, <3>4 DEF IInv, Links
  <2>9. Kin'
    <3>1. \A s \in Requests, t \in Alive :
            Read(s)' /\ family[req'[s].token] = family[t] =>
              req'[s].old.app = rows[t].app /\ req'[s].old.since = rows[t].since
      <4> SUFFICES ASSUME NEW s \in Requests, NEW t \in Alive, Read(s)', family[req'[s].token] = family[t]
                   PROVE req'[s].old.app = rows[t].app /\ req'[s].old.since = rows[t].since
        OBVIOUS
      <4>1. CASE s = r
        <5>1. rows[k].app = rows[t].app
          BY <2>1, <4>1 DEF IInv, Kin
        <5> QED BY <2>1, <4>1, <5>1 DEF IInv, Kin
      <4>2. CASE s # r
        BY <2>1, <2>3, <4>2 DEF IInv, Kin
      <4> QED BY <4>1, <4>2
    <3>2. \A t \in Alive : rows'[t].since = (Since(rows[t].app))'
      BY <1>1 DEF IInv, Kin, Since
    <3> QED BY <1>1, <2>2, <3>1, <3>2 DEF IInv, Kin
  <2>10. Times'
    <3>1. clock \in Nat /\ Life \in Nat /\ Grace \in Nat
      BY SessionsAssumption DEF IInv, Types
    <3>2. req'[r].exp <= clock + Life
      <4>1. rows[k].exp <= clock + Life
        BY <2>1 DEF IInv, Times
      <4> QED BY <2>1, <2>5, <3>1, <4>1
    <3>3. \A s \in Requests : Read(s)' => req'[s].exp <= clock + Life /\ req'[s].exp <= clock + Grace
      BY <2>1, <2>3, <3>2 DEF IInv, Times
    <3>4. \A s \in Requests : Read(s)' /\ ~Drawn(s)' => req'[s].new <= clock
      BY <2>1, <2>3, <3>1 DEF IInv, Times
    <3>5. \A s \in Requests : Drawn(s)' => req'[s].exp <= req'[s].new /\ req'[s].new <= clock + Life
      BY <2>1, <2>3, <2>4 DEF IInv, Times
    <3> QED BY <1>1, <2>2, <3>3, <3>4, <3>5 DEF IInv, Times
  <2>11. Order'
    <3>1. \A n \in Alive : req'[r].old.next = n => req'[r].exp <= rows[n].exp
      <4> SUFFICES ASSUME NEW n \in Alive, rows[k].next = n PROVE req'[r].exp <= rows[n].exp
        BY <2>1
      <4>1. rows[k].exp <= rows[n].exp
        BY <2>1 DEF IInv, Order
      <4>2. rows[n].exp \in Nat
        BY AliveRow DEF IInv, AnyRow
      <4> QED BY <2>1, <2>5, <4>1, <4>2
    <3>2. \A t \in Alive : rows[t].next = k => rows[t].exp <= req'[r].exp
      <4> SUFFICES ASSUME NEW t \in Alive, rows[t].next = k PROVE rows[t].exp <= req'[r].exp
        OBVIOUS
      <4>1. rows[t].exp <= rows[k].exp
        BY <2>1 DEF IInv, Order
      <4>2. rows[t].exp <= clock + Grace
        BY <2>5, SessionsAssumption DEF IInv, Times
      <4> QED BY <2>1, <4>1, <4>2
    <3>3. \A s \in Requests \ {r} : Read(s) /\ rows[k].next = req[s].token => req'[r].exp <= req[s].exp
      <4> SUFFICES ASSUME NEW s \in Requests \ {r}, Read(s), rows[k].next = req[s].token
                   PROVE req'[r].exp <= req[s].exp
        OBVIOUS
      <4>1. rows[k].exp <= req[s].exp
        BY <2>1 DEF IInv, Order
      <4>2. req[s].exp \in Nat
        BY DEF IInv, Types, Request
      <4> QED BY <2>1, <2>5, <4>1, <4>2
    <3>4. \A s \in Requests \ {r} : Read(s) /\ req[s].old.next = k => req[s].exp <= req'[r].exp
      <4> SUFFICES ASSUME NEW s \in Requests \ {r}, Read(s), req[s].old.next = k
                   PROVE req[s].exp <= req'[r].exp
        OBVIOUS
      <4>1. req[s].exp <= rows[k].exp
        BY <2>1 DEF IInv, Order
      <4>2. req[s].exp <= clock + Grace
        BY DEF IInv, Times
      <4> QED BY <2>1, <4>1, <4>2
    <3>5. rows[k].next # k
      BY <2>5, <2>6, SessionsAssumption
    <3>6. \A s \in Requests \ {r} : Drawn(s) /\ rows[k].next = req[s].next => req'[r].exp <= req[s].new
      <4> SUFFICES ASSUME NEW s \in Requests \ {r}, Drawn(s), rows[k].next = req[s].next
                   PROVE req'[r].exp <= req[s].new
        OBVIOUS
      <4>1. rows[k].exp <= req[s].new
        BY <2>1 DEF IInv, Order
      <4>2. req[s].new \in Nat
        BY DEF IInv, Types, Request
      <4> QED BY <2>1, <2>5, <4>1, <4>2
    <3>7. \A s \in Requests, n \in Alive : Read(s)' /\ req'[s].old.next = n => req'[s].exp <= rows[n].exp
      BY <2>1, <2>3, <3>1 DEF IInv, Order
    <3>8. \A s \in Requests, t \in Alive : Read(s)' /\ rows[t].next = req'[s].token => rows[t].exp <= req'[s].exp
      BY <2>1, <2>3, <3>2 DEF IInv, Order
    <3>9. \A s, u \in Requests :
            Read(s)' /\ Read(u)' /\ req'[s].old.next = req'[u].token => req'[s].exp <= req'[u].exp
      BY <2>1, <2>3, <3>3, <3>4, <3>5 DEF IInv, Order
    <3>10. \A s \in Requests, t \in Alive : Drawn(s)' /\ rows[t].next = req'[s].next => rows[t].exp <= req'[s].new
      BY <2>1, <2>3, <2>4 DEF IInv, Order
    <3>11. \A s, u \in Requests :
            Drawn(s)' /\ Read(u)' /\ req'[u].old.next = req'[s].next => req'[u].exp <= req'[s].new
      BY <2>1, <2>3, <2>4, <3>6 DEF IInv, Order
    <3> QED BY <1>1, <2>2, <3>7, <3>8, <3>9, <3>10, <3>11 DEF IInv, Order
  <2>12. Successors'
    BY <1>1, <2>2 DEF IInv, Successors, SameSuccessor
  <2> QED BY <2>7, <2>8, <2>9, <2>10, <2>11, <2>12 DEF IInv
<1> QED BY <1>2, <1>3

-----------------------------------------------------------------------------
LEMMA GrantedHeld ==
  ASSUME NEW k, NEW n, granted' = granted \cup {<<k, n>>}
  PROVE  Held' = Held \cup {n}
<1>1. \A t : t \in Held <=> \E x \in granted : x[2] = t
  BY DEF Held
<1>2. \A t : t \in Held' <=> \E x \in granted' : x[2] = t
  BY DEF Held
<1>3. \A x : x \in granted' <=> x \in granted \/ x = <<k, n>>
  OBVIOUS
<1>4. <<k, n>>[2] = n
  OBVIOUS
<1> QED BY <1>1, <1>2, <1>3, <1>4

\* The row of a new session: nothing knows of its token yet.
LEMMA StoreFacts ==
  ASSUME IInv, NEW r \in Requests, StoreSession(r)
  PROVE  LET n == Len(rows) + 1 IN
         /\ n \in Nat /\ n \notin Tokens /\ n # 0 /\ n # None
         /\ Tokens' = Tokens \cup {n} /\ Alive' = Alive \cup {n} /\ Held' = Held \cup {n}
         /\ \A t \in Tokens : rows'[t] = rows[t] /\ family'[t] = family[t] /\ t < n
         /\ rows' \in Seq(AnyRow \cup {None}) /\ Len(rows') = n
         /\ family' \in Seq(Nat) /\ Len(family') = n
         /\ rows'[n].app \in BOOLEAN /\ rows'[n].since = Since(rows'[n].app)
         /\ rows'[n].exp = clock + Life /\ rows'[n].next = None
         /\ family'[n] = n /\ Ended' = Ended
         /\ granted' = granted \cup {<<0, n>>}
<1> DEFINE n == Len(rows) + 1
           isApp == req[r].op = "appLogin"
           row == [app |-> isApp, exp |-> clock + Life, next |-> None, since |-> Since(isApp)]
<1>1. rows \in Seq(AnyRow \cup {None}) /\ family \in Seq(Nat) /\ Len(family) = Len(rows)
  BY DEF IInv, Types
<1>2. /\ rows' = Append(rows, row) /\ family' = Append(family, n)
      /\ granted' = granted \cup {<<0, n>>} /\ out' = out
  BY DEF StoreSession
<1>3. n \in Nat /\ n \notin Tokens /\ n # 0 /\ n # None /\ \A t \in Tokens : t < n
  BY <1>1, SessionsAssumption DEF Tokens
<1>4. isApp \in BOOLEAN /\ clock + Life \in Nat /\ Since(isApp) \in Nat \X Nat
  BY SessionsAssumption DEF IInv, Types, Since
<1>5. /\ row \in AnyRow /\ row.app = isApp /\ row.since = Since(isApp)
      /\ row.exp = clock + Life /\ row.next = None
  <2>1. row.app = isApp /\ row.since = Since(isApp) /\ row.exp = clock + Life /\ row.next = None
    OBVIOUS
  <2> HIDE DEF isApp
  <2>2. row \in AnyRow
    BY <1>4 DEF AnyRow
  <2> QED BY <2>1, <2>2
<1> HIDE DEF row, isApp
<1>6. /\ rows' \in Seq(AnyRow \cup {None}) /\ Len(rows') = n
      /\ rows'[n] = row /\ \A t \in Tokens : rows'[t] = rows[t]
  BY <1>1, <1>2, <1>5 DEF Tokens
<1>7. /\ family' \in Seq(Nat) /\ Len(family') = n
      /\ family'[n] = n /\ \A t \in Tokens : family'[t] = family[t]
  BY <1>1, <1>2, <1>3 DEF Tokens
<1>8. Tokens' = Tokens \cup {n}
  BY <1>1, <1>6 DEF Tokens
<1>9. row # None
  BY <1>5, SessionsAssumption DEF AnyRow
<1>10. Alive' = Alive \cup {n}
  BY <1>3, <1>6, <1>8, <1>9 DEF Alive
<1>11. Held' = Held \cup {n}
  BY <1>2, GrantedHeld
<1>12. Ended' = Ended
  <2>1. \A t \in out : family'[t] = family[t]
    BY <1>7 DEF IInv, Types
  <2> QED BY <1>2, <2>1 DEF Ended
<1> QED BY <1>2, <1>3, <1>4, <1>5, <1>6, <1>7, <1>8, <1>10, <1>11, <1>12

LEMMA StoreSessionInv ==
  ASSUME IInv, NEW r \in Requests, StoreSession(r)
  PROVE  IInv'
<1> DEFINE n == Len(rows) + 1
<1>1. /\ n \in Nat /\ n \notin Tokens /\ n # 0 /\ n # None
      /\ Tokens' = Tokens \cup {n} /\ Alive' = Alive \cup {n} /\ Held' = Held \cup {n}
      /\ \A t \in Tokens : rows'[t] = rows[t] /\ family'[t] = family[t] /\ t < n
      /\ rows' \in Seq(AnyRow \cup {None}) /\ Len(rows') = n
      /\ family' \in Seq(Nat) /\ Len(family') = n
      /\ rows'[n].app \in BOOLEAN /\ rows'[n].since = Since(rows'[n].app)
      /\ rows'[n].exp = clock + Life /\ rows'[n].next = None
      /\ family'[n] = n /\ Ended' = Ended
      /\ granted' = granted \cup {<<0, n>>}
  BY StoreFacts
<1> HIDE DEF n
<1>2. /\ clock' = clock /\ password' = password /\ epoch' = epoch /\ down' = down /\ app' = app
      /\ out' = out
  BY DEF StoreSession, account
<1>3. QuietRequest(r)
  BY EndQuiet DEF StoreSession, IInv
<1>4. \A s \in Requests : (Read(s)' => Read(s) /\ req'[s] = req[s] /\ req[s].token \in Tokens)
                          /\ (Under(s)' => req'[s].token \in Held)
                          /\ req'[s].token \in Tokens \cup {0}
  <2>1. \A s \in Requests : Read(s)' => Read(s) /\ req'[s] = req[s]
    BY <1>3 DEF QuietRequest, Read, Refreshing
  <2>2. \A s \in Requests : Read(s) => req[s].token \in Tokens
    BY DEF Read, Refreshing, Under, IInv, Types
  <2>3. \A s \in Requests : (Under(s)' => req'[s].token \in Held) /\ req'[s].token \in Tokens \cup {0}
    BY <1>3 DEF QuietRequest, Under, IInv, Types, Links
  <2> QED BY <2>1, <2>2, <2>3
<1>5. \A s \in Requests : (Drawn(s)' => Drawn(s) /\ Read(s)' /\ req'[s] = req[s])
                          /\ (Fresh(s)' => Fresh(s) /\ Read(s)' /\ req'[s] = req[s])
  BY <1>4 DEF Read, Drawn, Fresh, Refreshing
<1>6. Held \subseteq Tokens /\ Alive \subseteq Tokens
  BY HeldTokens DEF IInv, Alive
<1>7. \A x \in granted : x[1] \in Tokens \cup {0} /\ x[2] \in Tokens
  BY DEF IInv, Types
<1>8. \A t \in Alive : rows[t].next # n
  <2>1. \A t \in Alive : rows[t].next # None => rows[t].next \in Tokens
    BY SuccessorToken DEF IInv
  <2> QED BY <1>1, <2>1
<1>9. \A s \in Requests : Read(s) => req[s].old.next # n /\ req[s].token # n
  <2>1. \A s \in Requests : Read(s) => /\ req[s].token \in Tokens
                                       /\ req[s].old.next # None => req[s].old.next \in Tokens
    BY SuccessorToken DEF IInv
  <2> QED BY <1>1, <2>1
<1>10. \A s \in Requests : Drawn(s) => req[s].next \in Tokens
  BY SuccessorToken DEF IInv
<1>11. Types'
  <2>1. granted' \subseteq (Tokens' \cup {0}) \X Tokens'
    BY <1>1 DEF IInv, Types
  <2>2. \A t \in Tokens' : family'[t] \in Tokens'
    BY <1>1 DEF IInv, Types
  <2>3. out' \subseteq Tokens'
    BY <1>1, <1>2 DEF IInv, Types
  <2>4. \A s \in Requests : Read(s)' => req'[s].old # None
    BY <1>4 DEF IInv, Types
  <2>5. \A s \in Requests : req'[s].token \in Tokens' \cup {0}
    BY <1>1, <1>4
  <2>6. \A s \in Requests : Under(s)' => req'[s].token \in Tokens'
    BY <1>1, <1>4, <1>6
  <2>7. req' \in [Requests -> Request]
    BY <1>3 DEF QuietRequest
  <2> QED BY <1>1, <1>2, <2>1, <2>2, <2>3, <2>4, <2>5, <2>6, <2>7 DEF IInv, Types
<1>12. Links'
  <2>1. \A x \in granted' : x[1] < x[2] /\ (x[1] # 0 => x[1] \in Held' /\ family'[x[1]] = family'[x[2]])
    BY <1>1, <1>7 DEF IInv, Links
  <2>2. \A t \in Alive' : t \in Held' /\ (rows'[t].next # None => <<t, rows'[t].next>> \in granted')
    BY <1>1, <1>6 DEF IInv, Links
  <2>3. \A s \in Requests : Under(s)' => req'[s].token \in Held'
    BY <1>1, <1>4
  <2>4. \A s \in Requests :
          Read(s)' /\ req'[s].old.next # None => <<req'[s].token, req'[s].old.next>> \in granted'
    BY <1>1, <1>4 DEF IInv, Links
  <2>5. \A s \in Requests : Drawn(s)' /\ ~Fresh(s)' => req'[s].next = req'[s].old.next
    <3> SUFFICES ASSUME NEW s \in Requests, Drawn(s)', ~Fresh(s)' PROVE req'[s].next = req'[s].old.next
      OBVIOUS
    <3>1. Drawn(s) /\ req'[s] = req[s]
      BY <1>5
    <3>2. ~Fresh(s)
      BY <3>1 DEF Fresh
    <3> QED BY <3>1, <3>2 DEF IInv, Links
  <2>6. \A s \in Requests :
          Fresh(s)' => /\ req'[s].next \in Tokens' \ Held' /\ req'[s].token < req'[s].next
                       /\ family'[req'[s].next] = family'[req'[s].token]
                       /\ \A u \in Requests \ {s} : Fresh(u)' => req'[u].next # req'[s].next
    <3> SUFFICES ASSUME NEW s \in Requests, Fresh(s)'
                 PROVE /\ req[s].next \in Tokens' \ Held' /\ req[s].token < req[s].next
                       /\ family'[req[s].next] = family'[req[s].token]
                       /\ \A u \in Requests \ {s} : Fresh(u)' => req[u].next # req[s].next
      BY <1>5
    <3>1. Fresh(s) /\ req[s].token \in Tokens
      BY <1>4, <1>5
    <3>2. /\ req[s].next \in Tokens \ Held /\ req[s].token < req[s].next
          /\ family[req[s].next] = family[req[s].token]
          /\ \A u \in Requests \ {s} : Fresh(u) => req[u].next # req[s].next
      BY <3>1 DEF IInv, Links
    <3> QED BY <1>1, <1>5, <3>1, <3>2
  <2> QED BY <2>1, <2>2, <2>3, <2>4, <2>5, <2>6 DEF Links
<1>13. \A t \in Tokens : family[t] \in Tokens
  BY DEF IInv, Types
<1>14. Kin'
  <2>1. \A t \in Alive' : rows'[t].since = (Since(rows[t].app))'
    BY <1>1, <1>2, <1>6 DEF IInv, Kin, Since
  <2>2. \A t, u \in Alive' : family'[t] = family'[u] => rows'[t].app = rows'[u].app
    BY <1>1, <1>6, <1>13 DEF IInv, Kin
  <2>3. \A s \in Requests, t \in Alive' :
          Read(s)' /\ family'[req'[s].token] = family'[t] =>
            req'[s].old.app = rows'[t].app /\ req'[s].old.since = rows'[t].since
    <3> SUFFICES ASSUME NEW s \in Requests, NEW t \in Alive', Read(s)', family'[req[s].token] = family'[t]
                 PROVE req[s].old.app = rows'[t].app /\ req[s].old.since = rows'[t].since
      BY <1>4
    <3>1. Read(s) /\ req[s].token \in Tokens /\ family'[req[s].token] = family[req[s].token]
      BY <1>1, <1>4
    <3>2. t # n
      BY <1>1, <1>13, <3>1
    <3>3. t \in Alive /\ rows'[t] = rows[t] /\ family'[t] = family[t]
      BY <1>1, <1>6, <3>2
    <3> QED BY <3>1, <3>3 DEF IInv, Kin
  <2> QED BY <2>1, <2>2, <2>3 DEF Kin
<1>15. Times'
  <2>1. clock \in Nat /\ Life \in Nat /\ Grace \in Nat
    BY SessionsAssumption DEF IInv, Types
  <2>2. \A t \in Alive' : rows'[t].exp <= clock' + Life
    BY <1>1, <1>2, <1>6, <2>1 DEF IInv, Times
  <2>3. \A t \in Alive' : rows'[t].next # None => rows'[t].exp <= clock' + Grace
    BY <1>1, <1>2, <1>6 DEF IInv, Times
  <2>4. \A s \in Requests : Read(s)' => req'[s].exp <= clock' + Life /\ req'[s].exp <= clock' + Grace
    BY <1>2, <1>4 DEF IInv, Times
  <2>5. \A s \in Requests : Read(s)' /\ ~Drawn(s)' => req'[s].new <= clock'
    BY <1>2, <1>4 DEF IInv, Times, Drawn, Refreshing
  <2>6. \A s \in Requests : Drawn(s)' => req'[s].exp <= req'[s].new /\ req'[s].new <= clock' + Life
    BY <1>2, <1>5 DEF IInv, Times
  <2> QED BY <2>2, <2>3, <2>4, <2>5, <2>6 DEF Times
<1>16. Order'
  <2>1. \A t \in Alive : rows'[t] = rows[t]
    BY <1>1, <1>6
  <2>2. \A t, m \in Alive' : rows'[t].next = m => rows'[t].exp <= rows'[m].exp
    <3> SUFFICES ASSUME NEW t \in Alive', NEW m \in Alive', rows'[t].next = m
                 PROVE rows'[t].exp <= rows'[m].exp
      OBVIOUS
    <3>1. m # None
      BY <1>1, <1>6, SessionsAssumption DEF Tokens, IInv, Types
    <3>2. t # n
      BY <1>1, <3>1
    <3>3. m # n
      BY <1>1, <1>8, <2>1, <3>2
    <3> QED BY <1>1, <2>1, <3>2, <3>3 DEF IInv, Order
  <2>3. \A s \in Requests, m \in Alive' : Read(s)' /\ req'[s].old.next = m => req'[s].exp <= rows'[m].exp
    BY <1>1, <1>4, <1>9, <2>1 DEF IInv, Order
  <2>4. \A s \in Requests, t \in Alive' : Read(s)' /\ rows'[t].next = req'[s].token => rows'[t].exp <= req'[s].exp
    <3> SUFFICES ASSUME NEW s \in Requests, NEW t \in Alive', Read(s)', rows'[t].next = req[s].token
                 PROVE rows'[t].exp <= req[s].exp
      BY <1>4
    <3>1. req[s].token # None
      BY <1>4, SessionsAssumption DEF Tokens, IInv, Types
    <3>2. t # n
      BY <1>1, <3>1
    <3> QED BY <1>1, <1>4, <2>1, <3>2 DEF IInv, Order
  <2>5. \A s, u \in Requests :
          Read(s)' /\ Read(u)' /\ req'[s].old.next = req'[u].token => req'[s].exp <= req'[u].exp
    BY <1>4 DEF IInv, Order
  <2>6. \A s \in Requests, t \in Alive' : Drawn(s)' /\ rows'[t].next = req'[s].next => rows'[t].exp <= req'[s].new
    <3> SUFFICES ASSUME NEW s \in Requests, NEW t \in Alive', Drawn(s)', rows'[t].next = req[s].next
                 PROVE rows'[t].exp <= req[s].new
      BY <1>5
    <3>1. req[s].next # None
      BY <1>5, <1>10, SessionsAssumption DEF Tokens, IInv, Types
    <3>2. t # n
      BY <1>1, <3>1
    <3> QED BY <1>1, <1>5, <2>1, <3>2 DEF IInv, Order
  <2>7. \A s, u \in Requests :
          Drawn(s)' /\ Read(u)' /\ req'[u].old.next = req'[s].next => req'[u].exp <= req'[s].new
    BY <1>4, <1>5 DEF IInv, Order
  <2> QED BY <2>2, <2>3, <2>4, <2>5, <2>6, <2>7 DEF Order
<1>17. Successors'
  <2>1. \A t \in Alive' : rows'[t].next # None /\ family'[t] \notin Ended' => rows'[t].next \in Alive'
    BY <1>1, <1>6 DEF IInv, Successors
  <2>2. \A x \in granted' :
          x[1] \in Alive' /\ family'[x[1]] \notin Ended' => rows'[x[1]].next = x[2]
    <3> SUFFICES ASSUME NEW x \in granted', x[1] \in Alive', family'[x[1]] \notin Ended'
                 PROVE rows'[x[1]].next = x[2]
      OBVIOUS
    <3>1. x # <<0, n>>
      BY <1>1, <1>6 DEF Tokens, IInv, Types
    <3>2. x \in granted /\ x[1] # n
      BY <1>1, <1>7, <3>1
    <3>3. x[1] \in Alive /\ rows'[x[1]] = rows[x[1]] /\ family'[x[1]] = family[x[1]]
      BY <1>1, <1>6, <3>2
    <3> QED BY <1>1, <3>2, <3>3 DEF IInv, Successors
  <2>3. SameSuccessor'
    BY <1>1, <1>7 DEF IInv, Successors, SameSuccessor
  <2> QED BY <2>1, <2>2, <2>3 DEF Successors
<1> QED BY <1>11, <1>12, <1>14, <1>15, <1>16, <1>17 DEF IInv

-----------------------------------------------------------------------------
\* Tidying takes no successor whose predecessor it leaves.
LEMMA TidiedRows ==
  ASSUME IInv, NEW now \in Nat, NEW A,
         A = {t \in Alive : rows[t].exp > now}
  PROVE  \A t \in A : rows[t].next \in Alive => rows[t].next \in A
<1> SUFFICES ASSUME NEW t \in A, rows[t].next \in Alive PROVE rows[rows[t].next].exp > now
  OBVIOUS
<1>1. rows[t].exp <= rows[rows[t].next].exp
  BY DEF IInv, Order
<1>2. rows[t].exp \in Nat /\ rows[rows[t].next].exp \in Nat
  BY AliveRow DEF IInv, AnyRow
<1> QED BY <1>1, <1>2

\* A rotation that ends here, for its token has expired.
LEMMA TidyEndInv ==
  ASSUME IInv, NEW r \in Requests, Tidy(r), req[r].exp <= req[r].new
  PROVE  IInv'
<1> DEFINE now == req[r].new
           tidied == [t \in Tokens |-> IF Live(rows[t], now) THEN rows[t] ELSE None]
<1>1. rows' = tidied /\ End(r) /\ family' = family /\ UNCHANGED <<clock, account, epoch, granted, out>>
  BY DEF Tidy
<1>2. now \in Nat
  BY DEF IInv, Types, Request
<1>3. rows \in Seq(AnyRow \cup {None}) /\ out \subseteq Tokens /\ clock \in Nat
  BY DEF IInv, Types
<1>4. /\ tidied \in Seq(AnyRow \cup {None}) /\ Len(tidied) = Len(rows)
      /\ \A t \in Tokens : tidied[t] = IF Live(rows[t], now) THEN rows[t] ELSE None
  BY <1>3 DEF Tokens
<1> HIDE DEF tidied, now
<1>5. QuietRequest(r)
  BY <1>1, EndQuiet DEF IInv
<1>6. Quiet
  <2>1. \A s \in Requests : Read(s)' => Read(s) /\ req'[s] = req[s]
    BY <1>5 DEF QuietRequest, Read, Refreshing
  <2>2. \A s \in Requests : Under(s)' => req'[s].token \in Held
    BY <1>5 DEF QuietRequest, Under, IInv, Links
  <2>3. \A s \in Requests : req'[s].token \in Tokens \cup {0}
    BY <1>5 DEF QuietRequest, IInv, Types
  <2> QED BY <1>1, <1>3, <1>4, <1>5, <2>1, <2>2, <2>3 DEF Quiet, QuietRequest
<1>7. Alive' = {t \in Alive : rows[t].exp > now} /\ \A t \in Alive' : rows'[t] = rows[t]
  <2>1. Tokens' = Tokens
    BY <1>6, QuietTable DEF IInv
  <2> QED BY <1>1, <1>4, <2>1 DEF Alive, Live
<1>8. \A t \in Alive' : rows'[t].since = (Since(rows[t].app))'
  BY <1>1, <1>7 DEF IInv, Kin, Since
<1>9. \A t \in Alive' : rows[t].next \in Alive => rows[t].next \in Alive'
  BY <1>2, <1>7, TidiedRows
<1>10. password' \in Nat /\ epoch' \in Nat \X Nat /\ down' \in BOOLEAN /\ app' \in BOOLEAN
  BY <1>1 DEF account, IInv, Types
<1> QED BY <1>6, <1>8, <1>9, <1>10, QuietInv

LEMMA Appended ==
  ASSUME NEW S, NEW s \in Seq(S), NEW e \in S
  PROVE  /\ Append(s, e) \in Seq(S) /\ Len(Append(s, e)) = Len(s) + 1
         /\ Append(s, e)[Len(s) + 1] = e
         /\ \A i \in DOMAIN s : Append(s, e)[i] = s[i]
OBVIOUS

\* One that goes on knows its successor, or has drawn one that nobody else knows.
LEMMA TidyFacts ==
  ASSUME IInv, NEW r \in Requests, Tidy(r), ~(req[r].exp <= req[r].new)
  PROVE  LET n == Len(rows) + 1
             fresh == req[r].old.next = None IN
         /\ n \in Nat /\ n \notin Tokens /\ \A t \in Tokens : t < n
         /\ rows' \in Seq(AnyRow \cup {None}) /\ family' \in Seq(Nat) /\ Len(family') = Len(rows')
         /\ \A t \in Tokens : family'[t] = family[t]
         /\ Alive' = {t \in Alive : rows[t].exp > req[r].new}
         /\ \A t \in Alive' : rows'[t] = rows[t]
         /\ fresh => Tokens' = Tokens \cup {n} /\ family'[n] = family[req[r].token] /\ req'[r].next = n
         /\ ~fresh => Tokens' = Tokens /\ req'[r].next = req[r].old.next
         /\ req' \in [Requests -> Request]
         /\ \A s \in Requests : s # r => req'[s] = req[s]
         /\ req'[r].op = "refresh" /\ req'[r].at = "rotate" /\ req'[r].token = req[r].token
         /\ req'[r].old = req[r].old /\ req'[r].exp = req[r].exp /\ req'[r].new = clock + Life
<1> DEFINE q == req[r]
           n == Len(rows) + 1
           fresh == q.old.next = None
           tidied == [t \in Tokens |-> IF Live(rows[t], q.new) THEN rows[t] ELSE None]
           next == IF fresh THEN n ELSE q.old.next
           goes == [q EXCEPT !.at = "rotate", !.next = next, !.new = clock + Life]
<1>1. /\ rows' = IF fresh THEN Append(tidied, None) ELSE tidied
      /\ family' = IF fresh THEN Append(family, family[q.token]) ELSE family
      /\ Go(r, goes)
  BY DEF Tidy
<1>2. /\ q \in Request /\ q.op = "refresh" /\ q.at = "tidy" /\ q.old # None /\ Read(r)
  BY DEF Tidy, At, Read, Refreshing, IInv, Types
<1>3. q.token \in Tokens /\ (~fresh => q.old.next \in Tokens)
  BY <1>2, SuccessorToken DEF IInv
<1>4. rows \in Seq(AnyRow \cup {None}) /\ family \in Seq(Nat) /\ Len(family) = Len(rows) /\ clock + Life \in Nat
  BY SessionsAssumption DEF IInv, Types
<1>5. n \in Nat /\ n \notin Tokens /\ \A t \in Tokens : t < n
  BY <1>4 DEF Tokens
<1>6. next \in Nat
  BY <1>3, <1>4, <1>5 DEF Tokens
<1>7. /\ goes.op = "refresh" /\ goes.at = "rotate" /\ goes.token = q.token /\ goes.old = q.old
      /\ goes.exp = q.exp /\ goes.new = clock + Life /\ goes.next = next
  BY <1>2 DEF Request
<1>8. goes \in Request
  <2> HIDE DEF next
  <2> QED BY <1>2, <1>4, <1>6 DEF Request, Steps
<1>9. /\ tidied \in Seq(AnyRow \cup {None}) /\ Len(tidied) = Len(rows)
      /\ \A t \in Tokens : tidied[t] = IF Live(rows[t], q.new) THEN rows[t] ELSE None
  BY <1>4 DEF Tokens
<1> HIDE DEF tidied, goes
<1>10. req'[r] = goes /\ req' \in [Requests -> Request] /\ \A s \in Requests : s # r => req'[s] = req[s]
  BY <1>1, <1>8, GoOnly DEF IInv
<1>11. family[q.token] \in Nat
  BY <1>3, <1>4 DEF Tokens
<1>12. /\ rows' \in Seq(AnyRow \cup {None}) /\ family' \in Seq(Nat) /\ Len(family') = Len(rows')
       /\ Len(rows') = IF fresh THEN n ELSE Len(rows)
       /\ \A t \in Tokens : family'[t] = family[t] /\ rows'[t] = tidied[t]
       /\ fresh => family'[n] = family[q.token] /\ rows'[n] = None
  <2>1. CASE fresh
    <3>1. rows' = Append(tidied, None) /\ family' = Append(family, family[q.token])
      BY <1>1, <2>1
    <3> HIDE DEF q, fresh
    <3>2. /\ rows' \in Seq(AnyRow \cup {None}) /\ Len(rows') = n
          /\ rows'[n] = None /\ \A t \in Tokens : rows'[t] = tidied[t]
      BY <1>9, <3>1, Appended DEF Tokens
    <3>3. /\ family' \in Seq(Nat) /\ Len(family') = n
          /\ family'[n] = family[q.token] /\ \A t \in Tokens : family'[t] = family[t]
      <4>1. DOMAIN family = Tokens /\ n = Len(family) + 1
        BY <1>4 DEF Tokens
      <4>2. /\ Append(family, family[q.token]) \in Seq(Nat)
            /\ Len(Append(family, family[q.token])) = Len(family) + 1
            /\ Append(family, family[q.token])[Len(family) + 1] = family[q.token]
            /\ \A t \in DOMAIN family : Append(family, family[q.token])[t] = family[t]
        BY <1>4, <1>11, Appended
      <4> QED BY <3>1, <4>1, <4>2
    <3> QED BY <2>1, <3>2, <3>3
  <2>2. CASE ~fresh
    BY <1>1, <1>4, <1>9, <2>2 DEF Tokens
  <2> QED BY <2>1, <2>2
<1>13. (fresh => Tokens' = Tokens \cup {n}) /\ (~fresh => Tokens' = Tokens)
  <2>1. Tokens = 1..Len(rows) /\ Tokens' = 1..Len(rows') /\ Len(rows) \in Nat
    BY <1>4, <1>12 DEF Tokens
  <2>2. 1..n = (1..Len(rows)) \cup {n}
    BY <2>1
  <2> HIDE DEF fresh, n
  <2> QED BY <1>12, <2>1, <2>2
<1>14. Alive' = {t \in Alive : rows[t].exp > q.new} /\ \A t \in Alive' : rows'[t] = rows[t]
  <2> HIDE DEF fresh, n, q
  <2>1. \A t \in Tokens' : t \notin Tokens => rows'[t] = None
    BY <1>12, <1>13
  <2>2. Tokens \subseteq Tokens'
    BY <1>13
  <2>3. \A t \in Tokens : rows'[t] = IF Live(rows[t], q.new) THEN rows[t] ELSE None
    BY <1>9, <1>12
  <2> QED BY <2>1, <2>2, <2>3 DEF Alive, Live
<1> QED BY <1>5, <1>7, <1>10, <1>12, <1>13, <1>14

LEMMA TidyInv ==
  ASSUME IInv, NEW r \in Requests, Tidy(r)
  PROVE  IInv'
<1>1. CASE req[r].exp <= req[r].new
  BY <1>1, TidyEndInv
<1>2. CASE ~(req[r].exp <= req[r].new)
  <2> DEFINE n == Len(rows) + 1
             fresh == req[r].old.next = None
  <2>1. /\ n \in Nat /\ n \notin Tokens /\ \A t \in Tokens : t < n
        /\ rows' \in Seq(AnyRow \cup {None}) /\ family' \in Seq(Nat) /\ Len(family') = Len(rows')
        /\ \A t \in Tokens : family'[t] = family[t]
        /\ Alive' = {t \in Alive : rows[t].exp > req[r].new}
        /\ \A t \in Alive' : rows'[t] = rows[t]
        /\ fresh => Tokens' = Tokens \cup {n} /\ family'[n] = family[req[r].token] /\ req'[r].next = n
        /\ ~fresh => Tokens' = Tokens /\ req'[r].next = req[r].old.next
        /\ req' \in [Requests -> Request]
        /\ \A s \in Requests : s # r => req'[s] = req[s]
        /\ req'[r].op = "refresh" /\ req'[r].at = "rotate" /\ req'[r].token = req[r].token
        /\ req'[r].old = req[r].old /\ req'[r].exp = req[r].exp /\ req'[r].new = clock + Life
    BY <1>2, TidyFacts
  <2> HIDE DEF n
  <2>2. /\ clock' = clock /\ granted' = granted /\ out' = out /\ password' = password /\ epoch' = epoch
        /\ down' = down /\ app' = app
    BY DEF Tidy, account
  <2>3. Tokens \subseteq Tokens' /\ Alive' \subseteq Alive /\ Alive \subseteq Tokens /\ Held \subseteq Tokens
    BY <2>1, HeldTokens DEF Alive, IInv
  <2>4. Held' = Held
    BY <2>2 DEF Held
  <2>5. Ended' = Ended
    <3>1. \A t \in out : family'[t] = family[t]
      BY <2>1 DEF IInv, Types
    <3> QED BY <2>2, <3>1 DEF Ended
  <2>6. /\ Read(r) /\ Under(r) /\ ~Drawn(r) /\ Drawn(r)' /\ (Fresh(r)' <=> fresh)
        /\ req[r].token \in Tokens /\ req[r].token \in Held
    <3>1. Read(r) /\ Under(r) /\ ~Drawn(r) /\ Drawn(r)' /\ (Fresh(r)' <=> fresh)
      BY <2>1 DEF Tidy, At, Read, Refreshing, Under, Drawn, Fresh
    <3> QED BY <3>1 DEF IInv, Types, Links
  <2>7. \A s \in Requests : s # r => (Read(s)' <=> Read(s)) /\ (Drawn(s)' <=> Drawn(s))
                                     /\ (Fresh(s)' <=> Fresh(s)) /\ (Under(s)' <=> Under(s))
    BY <2>1 DEF Read, Drawn, Fresh, Under, Refreshing
  <2>8. \A s \in Requests : /\ Read(s)' => Read(s)
                            /\ req'[s].token = req[s].token /\ req'[s].old = req[s].old
                            /\ req'[s].exp = req[s].exp
                            /\ Under(s)' => Under(s)
    BY <2>1, <2>6, <2>7
  <2>9. Types'
    <3>1. granted' \subseteq (Tokens' \cup {0}) \X Tokens'
      BY <2>2, <2>3 DEF IInv, Types
    <3>2. \A t \in Tokens' : family'[t] \in Tokens'
      <4>1. \A t \in Tokens : family'[t] \in Tokens
        BY <2>1 DEF IInv, Types
      <4>2. family[req[r].token] \in Tokens
        BY <2>6 DEF IInv, Types
      <4> QED BY <2>1, <2>3, <4>1, <4>2
    <3>3. out' \subseteq Tokens'
      BY <2>2, <2>3 DEF IInv, Types
    <3>4. \A s \in Requests : Read(s)' => req'[s].old # None
      BY <2>8 DEF IInv, Types
    <3>5. \A s \in Requests : req'[s].token \in Tokens' \cup {0}
      BY <2>3, <2>8 DEF IInv, Types
    <3>6. \A s \in Requests : Under(s)' => req'[s].token \in Tokens'
      BY <2>3, <2>8 DEF IInv, Types
    <3> QED BY <2>1, <2>2, <3>1, <3>2, <3>3, <3>4, <3>5, <3>6 DEF IInv, Types
  <2>10. Links'
    <3>1. \A x \in granted' : x[1] < x[2] /\ (x[1] # 0 => x[1] \in Held' /\ family'[x[1]] = family'[x[2]])
      <4>1. \A x \in granted : x[2] \in Tokens
        BY DEF IInv, Types
      <4>2. \A x \in granted : x[1] < x[2] /\ (x[1] # 0 => x[1] \in Held /\ family[x[1]] = family[x[2]])
        BY DEF IInv, Links
      <4>3. \A x \in granted : family'[x[2]] = family[x[2]] /\ (x[1] \in Held => family'[x[1]] = family[x[1]])
        BY <2>1, <2>3, <4>1
      <4> QED BY <2>2, <2>4, <4>2, <4>3
    <3>2. \A t \in Alive' : t \in Held' /\ (rows'[t].next # None => <<t, rows'[t].next>> \in granted')
      BY <2>1, <2>2, <2>3, <2>4 DEF IInv, Links
    <3>3. \A s \in Requests : Under(s)' => req'[s].token \in Held'
      BY <2>4, <2>8 DEF IInv, Links
    <3>4. \A s \in Requests :
            Read(s)' /\ req'[s].old.next # None => <<req'[s].token, req'[s].old.next>> \in granted'
      BY <2>2, <2>8 DEF IInv, Links
    <3>5. \A s \in Requests : Drawn(s)' /\ ~Fresh(s)' => req'[s].next = req'[s].old.next
      BY <2>1, <2>6, <2>7 DEF IInv, Links
    <3>6. ASSUME NEW s \in Requests, Fresh(s)'
          PROVE  /\ req'[s].next \in Tokens' \ Held' /\ req'[s].token < req'[s].next
                 /\ family'[req'[s].next] = family'[req'[s].token]
                 /\ \A u \in Requests \ {s} : Fresh(u)' => req'[u].next # req'[s].next
      <4>1. \A u \in Requests : Fresh(u) => req[u].next \in Tokens \ Held
        BY DEF IInv, Links
      <4>2. CASE s = r
        <5>1. fresh /\ req'[r].next = n
          BY <2>1, <2>6, <3>6, <4>2
        <5>2. \A u \in Requests \ {r} : Fresh(u)' => req'[u].next # n
          BY <2>1, <2>7, <4>1
        <5> QED BY <2>1, <2>3, <2>4, <2>6, <4>2, <5>1, <5>2
      <4>3. CASE s # r
        <5>1. Fresh(s) /\ req'[s] = req[s]
          BY <2>1, <2>7, <3>6, <4>3
        <5>2. /\ req[s].next \in Tokens \ Held /\ req[s].token < req[s].next
              /\ family[req[s].next] = family[req[s].token]
              /\ \A u \in Requests \ {s} : Fresh(u) => req[u].next # req[s].next
          BY <5>1 DEF IInv, Links
        <5>3. req[s].token \in Tokens
          BY <5>1 DEF Fresh, Drawn, Under, Refreshing, IInv, Types
        <5>4. Fresh(r)' => req'[r].next # req[s].next
          BY <2>1, <2>6, <5>2
        <5>5. \A u \in Requests \ {s} : Fresh(u)' => req'[u].next # req[s].next
          BY <2>1, <2>7, <5>2, <5>4
        <5> QED BY <2>1, <2>3, <2>4, <5>1, <5>2, <5>3, <5>5
      <4> QED BY <4>2, <4>3
    <3> QED BY <3>1, <3>2, <3>3, <3>4, <3>5, <3>6 DEF Links
  <2>11. \A t \in Alive' : t \in Alive /\ rows'[t] = rows[t] /\ family'[t] = family[t]
    BY <2>1, <2>3
  <2>12. \A s \in Requests : Read(s)' => Read(s) /\ req[s].token \in Tokens
    BY <2>8, SuccessorToken DEF IInv
  <2>13. Kin'
    <3>1. \A t \in Alive' : rows'[t].since = (Since(rows[t].app))'
      BY <2>2, <2>11 DEF IInv, Kin, Since
    <3>2. \A t, u \in Alive' : family'[t] = family'[u] => rows'[t].app = rows'[u].app
      BY <2>11 DEF IInv, Kin
    <3>3. \A s \in Requests, t \in Alive' :
            Read(s)' /\ family'[req'[s].token] = family'[t] =>
              req'[s].old.app = rows'[t].app /\ req'[s].old.since = rows'[t].since
      BY <2>1, <2>8, <2>11, <2>12 DEF IInv, Kin
    <3> QED BY <3>1, <3>2, <3>3 DEF Kin
  <2>14. Times'
    <3>1. \A t \in Alive' : rows'[t].exp <= clock' + Life
      BY <2>2, <2>11 DEF IInv, Times
    <3>2. \A t \in Alive' : rows'[t].next # None => rows'[t].exp <= clock' + Grace
      BY <2>2, <2>11 DEF IInv, Times
    <3>3. \A s \in Requests : Read(s)' => req'[s].exp <= clock' + Life /\ req'[s].exp <= clock' + Grace
      BY <2>2, <2>8 DEF IInv, Times
    <3>4. \A s \in Requests : Read(s)' /\ ~Drawn(s)' => req'[s].new <= clock'
      BY <2>1, <2>2, <2>6, <2>7 DEF IInv, Times
    <3>5. req[r].exp <= clock + Life /\ clock + Life <= clock + Life
      BY <2>6, SessionsAssumption DEF IInv, Times, Types
    <3>6. \A s \in Requests : Drawn(s)' => req'[s].exp <= req'[s].new /\ req'[s].new <= clock' + Life
      BY <2>1, <2>2, <2>7, <3>5 DEF IInv, Times
    <3> QED BY <3>1, <3>2, <3>3, <3>4, <3>6 DEF Times
  <2>15. Order'
    <3>1. \A t, m \in Alive' : rows'[t].next = m => rows'[t].exp <= rows'[m].exp
      BY <2>11 DEF IInv, Order
    <3>2. \A s \in Requests, m \in Alive' : Read(s)' /\ req'[s].old.next = m => req'[s].exp <= rows'[m].exp
      BY <2>8, <2>11 DEF IInv, Order
    <3>3. \A s \in Requests, t \in Alive' : Read(s)' /\ rows'[t].next = req'[s].token => rows'[t].exp <= req'[s].exp
      BY <2>8, <2>11 DEF IInv, Order
    <3>4. \A s, u \in Requests :
            Read(s)' /\ Read(u)' /\ req'[s].old.next = req'[u].token => req'[s].exp <= req'[u].exp
      BY <2>8 DEF IInv, Order
    <3>5. \A s \in Requests, t \in Alive' : Drawn(s)' /\ rows'[t].next = req'[s].next => rows'[t].exp <= req'[s].new
      BY <2>1, <2>7, <2>11 DEF IInv, Order, Times
    <3>6. \A s, u \in Requests :
            Drawn(s)' /\ Read(u)' /\ req'[u].old.next = req'[s].next => req'[u].exp <= req'[s].new
      <4> SUFFICES ASSUME NEW s \in Requests, NEW u \in Requests, Drawn(s)', Read(u),
                          req[u].old.next = req'[s].next
                   PROVE req[u].exp <= req'[s].new
        BY <2>8
      <4> QED BY <2>1, <2>7 DEF IInv, Order, Times
    <3> QED BY <3>1, <3>2, <3>3, <3>4, <3>5, <3>6 DEF Order
  <2>16. Successors'
    <3>1. req[r].new \in Nat
      BY DEF IInv, Types, Request
    <3>2. \A t \in Alive' : rows[t].next \in Alive => rows[t].next \in Alive'
      BY <2>1, <3>1, TidiedRows
    <3>3. \A t \in Alive' : rows'[t].next # None /\ family'[t] \notin Ended' => rows'[t].next \in Alive'
      BY <2>5, <2>11, <3>2 DEF IInv, Successors
    <3>4. \A x \in granted' :
            x[1] \in Alive' /\ family'[x[1]] \notin Ended' => rows'[x[1]].next = x[2]
      BY <2>2, <2>5, <2>11 DEF IInv, Successors
    <3>5. SameSuccessor'
      <4>1. \A x \in granted : x[1] # 0 => family'[x[1]] = family[x[1]]
        BY <2>1 DEF IInv, Types
      <4> QED BY <2>2, <2>5, <4>1 DEF IInv, Successors, SameSuccessor
    <3> QED BY <3>3, <3>4, <3>5 DEF Successors
  <2> QED BY <2>9, <2>10, <2>13, <2>14, <2>15, <2>16 DEF IInv
<1> QED BY <1>1, <1>2

-----------------------------------------------------------------------------
\* The successor that a refresh is about to grant: nobody knows it, or the
\* row that was read names it.
LEMMA DrawnFacts ==
  ASSUME IInv, NEW r \in Requests, Drawn(r)
  PROVE  LET k == req[r].token
             m == req[r].next IN
         /\ Read(r) /\ k \in Tokens /\ k \in Held /\ k \in Nat
         /\ m \in Tokens /\ m \in Nat /\ m # None /\ k < m /\ k # m /\ family[m] = family[k]
         /\ Fresh(r) => m \notin Held /\ m \notin Alive
         /\ ~Fresh(r) => req[r].old.next = m /\ <<k, m>> \in granted /\ m \in Held
<1> DEFINE k == req[r].token
           m == req[r].next
<1>1. Read(r) /\ Under(r)
  BY DEF Drawn, Read, Refreshing, Under
<1>2. k \in Tokens /\ k \in Held /\ m \in Tokens
  BY <1>1, SuccessorToken DEF IInv, Types, Links
<1>3. k \in Nat /\ m \in Nat /\ m # None
  BY <1>2, SessionsAssumption DEF IInv, Types, Tokens
<1>4. CASE Fresh(r)
  <2>1. m \notin Held /\ k < m /\ family[m] = family[k]
    BY <1>4 DEF IInv, Links
  <2>2. m \notin Alive
    BY <2>1 DEF IInv, Links
  <2> QED BY <1>1, <1>2, <1>3, <1>4, <2>1, <2>2
<1>5. CASE ~Fresh(r)
  <2>1. req[r].old.next = m /\ m # None
    BY <1>3, <1>5 DEF IInv, Links
  <2>2. <<k, m>> \in granted
    BY <1>1, <2>1 DEF IInv, Links
  <2>3. \A x \in granted : x[1] < x[2] /\ (x[1] # 0 => family[x[1]] = family[x[2]])
    BY DEF IInv, Links
  <2>4. k < m /\ (k # 0 => family[k] = family[m])
    BY <2>2, <2>3
  <2>5. k # 0
    BY <1>2 DEF IInv, Types, Tokens
  <2>6. m \in Held
    BY <2>2 DEF Held
  <2> QED BY <1>1, <1>2, <1>3, <1>5, <2>1, <2>2, <2>4, <2>5, <2>6
<1> QED BY <1>4, <1>5

\* The table after a rotation.
LEMMA RotateFacts ==
  ASSUME IInv, NEW r \in Requests, Rotate(r)
  PROVE  LET q == req[r]
             k == req[r].token
             m == req[r].next IN
         /\ Drawn(r) /\ k \in Alive /\ rows[k].next \in {None, m}
         /\ Tokens' = Tokens /\ Alive' = Alive \cup {m} /\ Held' = Held \cup {m}
         /\ rows' \in Seq(AnyRow \cup {None}) /\ Len(rows') = Len(rows)
         /\ rows'[k].app = rows[k].app /\ rows'[k].since = rows[k].since
         /\ rows'[k].exp = q.exp /\ rows'[k].next = m
         /\ \A t \in Alive : t # k => rows'[t] = rows[t]
         /\ m \notin Alive => /\ rows'[m].app = rows[k].app /\ rows'[m].since = rows[k].since
                              /\ rows'[m].exp = q.new /\ rows'[m].next = None
         /\ granted' = granted \cup {<<k, m>>}
<1> DEFINE q == req[r]
           k == q.token
           m == q.next
           new == [app |-> q.old.app, exp |-> q.new, next |-> None, since |-> q.old.since]
           old == [rows[k] EXCEPT !.exp = q.exp, !.next = q.next]
           next == IF rows[m] # None THEN rows[m] ELSE new
<1>1. Drawn(r) /\ rows[k] # None /\ rows[k].next \in {None, m} /\ rows' = Rotated(q)
      /\ granted' = granted \cup {<<k, m>>}
  BY DEF Rotate, At, Drawn, Refreshing, MayRotate
<1>2. Read(r) /\ k \in Tokens /\ m \in Tokens /\ k # m /\ k \in Nat /\ m \in Nat
  BY <1>1, DrawnFacts
<1>3. k \in Alive
  BY <1>1, <1>2 DEF Alive
<1>4. q.old.app = rows[k].app /\ q.old.since = rows[k].since
  BY <1>2, <1>3 DEF IInv, Kin
<1>5. /\ rows \in Seq(AnyRow \cup {None}) /\ q.exp \in Nat /\ q.new \in Nat
      /\ rows[k] \in AnyRow
  BY <1>3, AliveRow DEF IInv, Types, Request
<1>6. /\ old \in AnyRow /\ old.app = rows[k].app /\ old.since = rows[k].since
      /\ old.exp = q.exp /\ old.next = m
  BY <1>2, <1>5 DEF AnyRow
<1>7. /\ new \in AnyRow /\ new.app = rows[k].app /\ new.since = rows[k].since
      /\ new.exp = q.new /\ new.next = None
  BY <1>4, <1>5 DEF AnyRow
<1> DEFINE after(t) == CASE t = m -> next
                         [] t = k /\ rows[t] # None -> [rows[t] EXCEPT !.exp = q.exp, !.next = q.next]
                         [] OTHER -> rows[t]
<1>8. rows' = [t \in Tokens |-> after(t)]
  BY <1>1 DEF Rotated
<1> HIDE DEF new
<1>9. next \in AnyRow
  BY <1>2, <1>5, <1>7 DEF Tokens
<1>10. rows'[m] = next /\ rows'[k] = old /\ \A t \in Tokens : t # m /\ t # k => rows'[t] = rows[t]
  BY <1>1, <1>2, <1>8
<1> HIDE DEF old, next, after
<1>11. rows' \in Seq(AnyRow \cup {None}) /\ Len(rows') = Len(rows) /\ Tokens' = Tokens
  <2>1. \A t \in Tokens : rows'[t] \in AnyRow \cup {None}
    BY <1>5, <1>6, <1>9, <1>10 DEF Tokens
  <2>2. DOMAIN rows' = Tokens /\ rows' = [t \in Tokens |-> rows'[t]]
    BY <1>8
  <2>3. Tokens = 1..Len(rows) /\ Len(rows) \in Nat
    BY <1>5 DEF Tokens
  <2>4. rows' \in Seq(AnyRow \cup {None}) /\ Len(rows') = Len(rows)
    BY <2>1, <2>2, <2>3
  <2> QED BY <2>2, <2>4 DEF Tokens
<1>12. None \notin AnyRow
  BY SessionsAssumption DEF AnyRow
<1>13. Alive' = Alive \cup {m}
  BY <1>2, <1>3, <1>6, <1>9, <1>10, <1>11, <1>12 DEF Alive
<1>14. m \in Alive => rows'[m] = rows[m]
  BY <1>10 DEF Alive, next
<1>15. m \notin Alive => rows'[m] = new
  BY <1>2, <1>10 DEF Alive, next
<1>16. \A t \in Alive : t # k => rows'[t] = rows[t]
  BY <1>10, <1>14 DEF Alive
<1>17. Held' = Held \cup {m}
  BY <1>1, GrantedHeld
<1> QED BY <1>1, <1>3, <1>6, <1>7, <1>10, <1>11, <1>13, <1>15, <1>16, <1>17

LEMMA RotateInv ==
  ASSUME IInv, NEW r \in Requests, Rotate(r)
  PROVE  IInv'
<1> DEFINE q == req[r]
           k == req[r].token
           m == req[r].next
<1>1. /\ Drawn(r) /\ k \in Alive /\ rows[k].next \in {None, m}
      /\ Tokens' = Tokens /\ Alive' = Alive \cup {m} /\ Held' = Held \cup {m}
      /\ rows' \in Seq(AnyRow \cup {None}) /\ Len(rows') = Len(rows)
      /\ rows'[k].app = rows[k].app /\ rows'[k].since = rows[k].since
      /\ rows'[k].exp = q.exp /\ rows'[k].next = m
      /\ \A t \in Alive : t # k => rows'[t] = rows[t]
      /\ m \notin Alive => /\ rows'[m].app = rows[k].app /\ rows'[m].since = rows[k].since
                           /\ rows'[m].exp = q.new /\ rows'[m].next = None
      /\ granted' = granted \cup {<<k, m>>}
  BY RotateFacts
<1>2. /\ Read(r) /\ k \in Tokens /\ k \in Held /\ k \in Nat
      /\ m \in Tokens /\ m \in Nat /\ m # None /\ k < m /\ k # m /\ family[m] = family[k]
      /\ Fresh(r) => m \notin Held /\ m \notin Alive
      /\ ~Fresh(r) => q.old.next = m /\ <<k, m>> \in granted /\ m \in Held
  BY <1>1, DrawnFacts
<1>3. /\ clock' = clock /\ family' = family /\ out' = out /\ password' = password /\ epoch' = epoch
      /\ down' = down /\ app' = app
  BY DEF Rotate, account
<1>4. QuietRequest(r) /\ End(r)
  BY EndQuiet DEF Rotate, IInv
<1>5. /\ req' \in [Requests -> Request]
      /\ \A s \in Requests : s # r => req'[s] = req[s]
      /\ ~Read(r)' /\ ~Drawn(r)' /\ ~Fresh(r)'
  BY <1>4 DEF QuietRequest, Read, Drawn, Fresh, Refreshing
<1>6. \A s \in Requests : /\ Read(s)' => s # r /\ Read(s) /\ req'[s] = req[s]
                          /\ Drawn(s)' => s # r /\ Drawn(s) /\ req'[s] = req[s]
                          /\ Fresh(s)' => s # r /\ Fresh(s) /\ req'[s] = req[s]
  BY <1>5 DEF Read, Drawn, Fresh, Refreshing
<1>7. \A s \in Requests : (Under(s)' => req'[s].token \in Held) /\ req'[s].token \in Tokens \cup {0}
  BY <1>4 DEF QuietRequest, Under, IInv, Links, Types
<1>8. Ended' = Ended
  BY <1>3 DEF Ended
<1> HIDE DEF q, k, m
<1>9. Alive \subseteq Tokens /\ Held \subseteq Tokens /\ Alive \subseteq Held
  BY HeldTokens DEF IInv, Alive, Links
<1>10. \A s \in Requests : /\ Read(s) => req[s].token \in Tokens /\ req[s].token \in Held
                           /\ Drawn(s) => req[s].next \in Tokens
  BY SuccessorToken DEF IInv, Links, Read, Refreshing, Under
<1>11. \A t \in Tokens : t # None /\ t # 0
  BY SessionsAssumption DEF IInv, Types, Tokens
<1>14. Types'
  <2>1. granted' \subseteq (Tokens' \cup {0}) \X Tokens'
    BY <1>1, <1>2 DEF IInv, Types
  <2>2. \A s \in Requests : Read(s)' => req'[s].old # None
    BY <1>6 DEF IInv, Types
  <2>3. \A s \in Requests : Under(s)' => req'[s].token \in Tokens'
    BY <1>1, <1>7, <1>9
  <2>4. \A s \in Requests : req'[s].token \in Tokens' \cup {0}
    BY <1>1, <1>7
  <2> QED BY <1>1, <1>3, <1>5, <2>1, <2>2, <2>3, <2>4 DEF IInv, Types
<1>15. Links'
  <2>1. \A x \in granted' : x[1] < x[2] /\ (x[1] # 0 => x[1] \in Held' /\ family'[x[1]] = family'[x[2]])
    BY <1>1, <1>2, <1>3 DEF IInv, Links
  <2>2. ASSUME NEW t \in Alive'
        PROVE  t \in Held' /\ (rows'[t].next # None => <<t, rows'[t].next>> \in granted')
    <3>1. CASE t = k
      BY <1>1, <1>2, <3>1
    <3>2. CASE t # k /\ t \in Alive
      BY <1>1, <1>9, <3>2 DEF IInv, Links
    <3>3. CASE t = m /\ m \notin Alive
      BY <1>1, <3>3
    <3> QED BY <1>1, <2>2, <3>1, <3>2, <3>3
  <2>3. \A s \in Requests : Under(s)' => req'[s].token \in Held'
    BY <1>1, <1>7
  <2>4. \A s \in Requests :
          Read(s)' /\ req'[s].old.next # None => <<req'[s].token, req'[s].old.next>> \in granted'
    BY <1>1, <1>6 DEF IInv, Links
  <2>5. ASSUME NEW s \in Requests, Drawn(s)', ~Fresh(s)'
        PROVE  req'[s].next = req'[s].old.next
    <3>1. Drawn(s) /\ req'[s] = req[s]
      BY <1>6, <2>5
    <3>2. ~Fresh(s)
      BY <2>5, <3>1 DEF Fresh
    <3> QED BY <3>1, <3>2 DEF IInv, Links
  <2>6. ASSUME NEW s \in Requests, Fresh(s)'
        PROVE  /\ req'[s].next \in Tokens' \ Held' /\ req'[s].token < req'[s].next
               /\ family'[req'[s].next] = family'[req'[s].token]
               /\ \A u \in Requests \ {s} : Fresh(u)' => req'[u].next # req'[s].next
    <3>1. s # r /\ Fresh(s) /\ req'[s] = req[s]
      BY <1>6, <2>6
    <3>2. /\ req[s].next \in Tokens \ Held /\ req[s].token < req[s].next
          /\ family[req[s].next] = family[req[s].token]
          /\ \A u \in Requests \ {s} : Fresh(u) => req[u].next # req[s].next
      BY <3>1 DEF IInv, Links
    <3>3. req[s].next # m
      <4>1. Fresh(r) => m # req[s].next
        BY <3>1, <3>2 DEF m
      <4>2. ~Fresh(r) => m \in Held
        BY <1>2
      <4> QED BY <3>2, <4>1, <4>2
    <3> QED BY <1>1, <1>3, <1>6, <3>1, <3>2, <3>3
  <2> QED BY <2>1, <2>2, <2>3, <2>4, <2>5, <2>6 DEF Links
<1>16. Kin'
  \* The new row is of the session of the row of its token.
  <2>1. ASSUME NEW t \in Alive'
        PROVE  \E a \in Alive : /\ family[a] = family[t]
                                /\ rows'[t].app = rows[a].app /\ rows'[t].since = rows[a].since
    <3>1. CASE t = k
      BY <1>1, <3>1
    <3>2. CASE t # k /\ t \in Alive
      BY <1>1, <3>2
    <3>3. CASE t = m /\ m \notin Alive
      BY <1>1, <1>2, <3>3
    <3> QED BY <1>1, <2>1, <3>1, <3>2, <3>3
  <2>2. \A t \in Alive' : rows'[t].since = (Since(rows[t].app))'
    <3> SUFFICES ASSUME NEW t \in Alive' PROVE rows'[t].since = (Since(rows[t].app))'
      OBVIOUS
    <3>1. PICK a \in Alive : rows'[t].app = rows[a].app /\ rows'[t].since = rows[a].since
      BY <2>1
    <3>2. rows[a].since = Since(rows[a].app)
      BY DEF IInv, Kin
    <3> QED BY <1>3, <3>1, <3>2 DEF Since
  <2>3. \A t, u \in Alive' : family'[t] = family'[u] => rows'[t].app = rows'[u].app
    <3> SUFFICES ASSUME NEW t \in Alive', NEW u \in Alive', family[t] = family[u]
                 PROVE rows'[t].app = rows'[u].app
      BY <1>3
    <3>1. PICK a \in Alive : family[a] = family[t] /\ rows'[t].app = rows[a].app
      BY <2>1
    <3>2. PICK b \in Alive : family[b] = family[u] /\ rows'[u].app = rows[b].app
      BY <2>1
    <3> QED BY <3>1, <3>2 DEF IInv, Kin
  <2>4. \A s \in Requests, t \in Alive' :
          Read(s)' /\ family'[req'[s].token] = family'[t] =>
            req'[s].old.app = rows'[t].app /\ req'[s].old.since = rows'[t].since
    <3> SUFFICES ASSUME NEW s \in Requests, NEW t \in Alive', Read(s)', family[req[s].token] = family[t]
                 PROVE req[s].old.app = rows'[t].app /\ req[s].old.since = rows'[t].since
      BY <1>3, <1>6
    <3>1. PICK a \in Alive : /\ family[a] = family[t]
                             /\ rows'[t].app = rows[a].app /\ rows'[t].since = rows[a].since
      BY <2>1
    <3> QED BY <1>6, <3>1 DEF IInv, Kin
  <2> QED BY <2>2, <2>3, <2>4 DEF Kin
<1>17. q.exp \in Nat /\ q.new \in Nat /\ q.exp <= q.new /\ q.new <= clock + Life
       /\ q.exp <= clock + Life /\ q.exp <= clock + Grace
  BY <1>1, <1>2 DEF q, IInv, Times, Types, Request
<1>18. Times'
  <2>1. \A t \in Alive' : rows'[t].exp <= clock' + Life
    BY <1>1, <1>3, <1>17 DEF IInv, Times
  <2>2. \A t \in Alive' : rows'[t].next # None => rows'[t].exp <= clock' + Grace
    BY <1>1, <1>3, <1>17 DEF IInv, Times
  <2>3. \A s \in Requests : Read(s)' => req'[s].exp <= clock' + Life /\ req'[s].exp <= clock' + Grace
    BY <1>3, <1>6 DEF IInv, Times
  <2>4. \A s \in Requests : Read(s)' /\ ~Drawn(s)' => req'[s].new <= clock'
    <3> SUFFICES ASSUME NEW s \in Requests, Read(s)', ~Drawn(s)' PROVE req'[s].new <= clock'
      OBVIOUS
    <3>1. Read(s) /\ req'[s] = req[s] /\ ~Drawn(s)
      BY <1>6 DEF Drawn, Refreshing
    <3> QED BY <1>3, <3>1 DEF IInv, Times
  <2>5. \A s \in Requests : Drawn(s)' => req'[s].exp <= req'[s].new /\ req'[s].new <= clock' + Life
    BY <1>3, <1>6 DEF IInv, Times
  <2> QED BY <2>1, <2>2, <2>3, <2>4, <2>5 DEF Times
<1>19. Order'
  <2>1. ASSUME NEW t \in Alive', NEW n \in Alive', rows'[t].next = n
        PROVE  rows'[t].exp <= rows'[n].exp
    <3>1. CASE t = k /\ m \in Alive
      <4>1. q.old.next = m /\ n = m /\ rows'[m] = rows[m]
        BY <1>1, <1>2, <2>1, <3>1
      <4> QED BY <1>1, <1>2, <3>1, <4>1 DEF q, IInv, Order
    <3>2. CASE t = k /\ m \notin Alive
      BY <1>1, <1>17, <2>1, <3>2
    <3>3. CASE t = m /\ m \notin Alive
      <4>1. n # None
        BY <1>1, <1>2, <1>9, <1>11
      <4> QED BY <1>1, <2>1, <3>3, <4>1
    <3>4. CASE t # k /\ t \in Alive
      <4>1. rows'[t] = rows[t]
        BY <1>1, <3>4
      <4>2. CASE n = k
        <5>1. rows[t].exp <= q.exp
          BY <1>2, <2>1, <3>4, <4>1, <4>2 DEF q, k, IInv, Order
        <5> QED BY <1>1, <4>1, <4>2, <5>1
      <4>3. CASE n # k /\ n \in Alive
        BY <1>1, <2>1, <3>4, <4>1, <4>3 DEF IInv, Order
      <4>4. CASE n = m /\ m \notin Alive
        <5>1. rows[t].exp <= q.new
          BY <1>1, <2>1, <3>4, <4>1, <4>4 DEF q, m, IInv, Order
        <5> QED BY <1>1, <4>1, <4>4, <5>1
      <4> QED BY <1>1, <2>1, <4>2, <4>3, <4>4
    <3> QED BY <1>1, <2>1, <3>1, <3>2, <3>3, <3>4
  <2>2. ASSUME NEW s \in Requests, NEW n \in Alive', Read(s)', req'[s].old.next = n
        PROVE  req'[s].exp <= rows'[n].exp
    <3>1. Read(s) /\ req'[s] = req[s] /\ req[s].old.next = n
      BY <1>6, <2>2
    <3>2. CASE n = k
      <4>1. req[s].exp <= q.exp
        BY <1>2, <3>1, <3>2 DEF q, k, IInv, Order
      <4> QED BY <1>1, <3>1, <3>2, <4>1
    <3>3. CASE n # k /\ n \in Alive
      BY <1>1, <3>1, <3>3 DEF IInv, Order
    <3>4. CASE n = m /\ m \notin Alive
      <4>1. req[s].exp <= q.new
        BY <1>1, <3>1, <3>4 DEF q, m, IInv, Order
      <4> QED BY <1>1, <3>1, <3>4, <4>1
    <3> QED BY <1>1, <2>2, <3>2, <3>3, <3>4
  <2>3. ASSUME NEW s \in Requests, NEW t \in Alive', Read(s)', rows'[t].next = req'[s].token
        PROVE  rows'[t].exp <= req'[s].exp
    <3>1. /\ Read(s) /\ req'[s] = req[s] /\ rows'[t].next = req[s].token
          /\ req[s].token \in Held /\ req[s].token # None
      BY <1>6, <1>10, <1>11, <2>3
    <3>2. CASE t = k
      <4>1. req[s].token = m /\ q.old.next = m
        BY <1>1, <1>2, <3>1, <3>2
      <4>2. q.exp <= req[s].exp
        BY <1>2, <3>1, <4>1 DEF q, IInv, Order
      <4> QED BY <1>1, <3>1, <3>2, <4>2
    <3>3. CASE t # k /\ t \in Alive
      BY <1>1, <3>1, <3>3 DEF IInv, Order
    <3>4. CASE t = m /\ m \notin Alive
      BY <1>1, <3>1, <3>4
    <3> QED BY <1>1, <2>3, <3>2, <3>3, <3>4
  <2>4. \A s, u \in Requests :
          Read(s)' /\ Read(u)' /\ req'[s].old.next = req'[u].token => req'[s].exp <= req'[u].exp
    BY <1>6 DEF IInv, Order
  <2>5. ASSUME NEW s \in Requests, NEW t \in Alive', Drawn(s)', rows'[t].next = req'[s].next
        PROVE  rows'[t].exp <= req'[s].new
    <3>1. /\ Drawn(s) /\ s # r /\ req'[s] = req[s] /\ rows'[t].next = req[s].next
          /\ req[s].next # None
      BY <1>6, <1>10, <1>11, <2>5
    <3>2. CASE t = k
      <4>1. req[s].next = m
        BY <1>1, <3>1, <3>2
      <4>2. ~Fresh(r)
        <5>1. Fresh(s) /\ Fresh(r) => req[s].next # m
          BY <3>1 DEF m, IInv, Links
        <5>2. ~Fresh(s) => m \in Held
          BY <3>1, <4>1, DrawnFacts
        <5> QED BY <1>2, <4>1, <5>1, <5>2
      <4>3. q.exp <= req[s].new
        BY <1>2, <3>1, <4>1, <4>2 DEF q, IInv, Order
      <4> QED BY <1>1, <3>1, <3>2, <4>3
    <3>3. CASE t # k /\ t \in Alive
      BY <1>1, <3>1, <3>3 DEF IInv, Order
    <3>4. CASE t = m /\ m \notin Alive
      BY <1>1, <3>1, <3>4
    <3> QED BY <1>1, <2>5, <3>2, <3>3, <3>4
  <2>6. \A s, u \in Requests :
          Drawn(s)' /\ Read(u)' /\ req'[u].old.next = req'[s].next => req'[u].exp <= req'[s].new
    BY <1>6 DEF IInv, Order
  <2> QED BY <2>1, <2>2, <2>3, <2>4, <2>5, <2>6 DEF Order
<1>20. Successors'
  <2>1. ASSUME NEW t \in Alive', rows'[t].next # None, family[t] \notin Ended
        PROVE  rows'[t].next \in Alive'
    <3>1. CASE t = k
      BY <1>1, <3>1
    <3>2. CASE t # k /\ t \in Alive
      BY <1>1, <2>1, <3>2 DEF IInv, Successors
    <3>3. CASE t = m /\ m \notin Alive
      BY <1>1, <2>1, <3>3
    <3> QED BY <1>1, <2>1, <3>1, <3>2, <3>3
  \* The successor that a token in the table has been granted is its row's.
  <2>2. ASSUME NEW y \in granted, y[1] = k, family[k] \notin Ended
        PROVE  y[2] = m
    <3>1. rows[k].next = y[2]
      BY <1>1, <2>2 DEF IInv, Successors
    <3>2. y[2] # None
      BY <1>11 DEF IInv, Types
    <3> QED BY <1>1, <3>1, <3>2
  <2>3. ASSUME NEW x \in granted', x[1] \in Alive', family[x[1]] \notin Ended
        PROVE  rows'[x[1]].next = x[2]
    <3>1. CASE x = <<k, m>>
      BY <1>1, <3>1
    <3>2. CASE x \in granted /\ x[1] = k
      BY <1>1, <2>2, <2>3, <3>2
    <3>3. CASE x \in granted /\ x[1] # k /\ x[1] \in Alive
      BY <1>1, <2>3, <3>3 DEF IInv, Successors
    <3>4. CASE x \in granted /\ x[1] = m /\ m \notin Alive
      <4>1. m \in Held
        BY <1>2, <1>11, <3>4 DEF IInv, Links
      <4>2. <<k, m>> \in granted
        BY <1>2, <4>1
      <4>3. rows[k].next = m
        BY <1>1, <1>2, <2>3, <3>4, <4>2 DEF IInv, Successors
      <4>4. m \in Alive
        BY <1>1, <1>2, <2>3, <3>4, <4>3 DEF IInv, Successors
      <4> QED BY <3>4, <4>4
    <3> QED BY <1>1, <2>3, <3>1, <3>2, <3>3, <3>4
  <2>4. SameSuccessor'
    <3> SUFFICES ASSUME NEW x \in granted', NEW y \in granted',
                        x[1] = y[1], x[1] # 0, family[x[1]] \notin Ended
                 PROVE x[2] = y[2]
      BY <1>3, <1>8 DEF SameSuccessor
    <3>1. CASE x \in granted /\ y \in granted
      BY <3>1 DEF IInv, Successors, SameSuccessor
    <3>2. CASE x = <<k, m>>
      BY <1>1, <2>2, <3>2
    <3>3. CASE y = <<k, m>>
      BY <1>1, <2>2, <3>3
    <3> QED BY <1>1, <3>1, <3>2, <3>3
  <2> QED BY <1>3, <1>8, <2>1, <2>3, <2>4 DEF Successors
<1> QED BY <1>14, <1>15, <1>16, <1>18, <1>19, <1>20 DEF IInv

-----------------------------------------------------------------------------
\* At first the account has two sessions, and no request has come.
LEMMA InitInv == Init => IInv
<1> SUFFICES ASSUME Init PROVE IInv
  OBVIOUS
<1> DEFINE own == [app |-> FALSE, exp |-> Life, next |-> None, since |-> <<0, 0>>]
           appl == [app |-> TRUE, exp |-> Life, next |-> None, since |-> <<0, 0>>]
<1>1. /\ rows = <<own, appl>> /\ clock = 0 /\ down = FALSE /\ password = 0 /\ app = TRUE
      /\ epoch = <<0, 0>> /\ granted = {<<0, 1>>, <<0, 2>>} /\ family = <<1, 2>> /\ out = {}
      /\ req = [r \in Requests |-> Idle]
  BY DEF Init
<1>2. /\ own \in AnyRow /\ own.app = FALSE /\ own.exp = Life /\ own.next = None /\ own.since = <<0, 0>>
      /\ appl \in AnyRow /\ appl.app = TRUE /\ appl.exp = Life /\ appl.next = None /\ appl.since = <<0, 0>>
  BY SessionsAssumption DEF AnyRow
<1> HIDE DEF own, appl
<1>3. None \notin AnyRow
  BY SessionsAssumption DEF AnyRow
<1>4. rows \in Seq(AnyRow \cup {None}) /\ Len(rows) = 2 /\ rows[1] = own /\ rows[2] = appl
  BY <1>1, <1>2
<1>5. Tokens = {1, 2}
  BY <1>4 DEF Tokens
<1>6. Alive = {1, 2}
  BY <1>2, <1>3, <1>4, <1>5 DEF Alive
<1>7. Held = {1, 2}
  <2>1. \A x : x \in granted <=> x = <<0, 1>> \/ x = <<0, 2>>
    BY <1>1
  <2>2. \A t : t \in Held <=> \E x \in granted : x[2] = t
    BY DEF Held
  <2>3. <<0, 1>>[2] = 1 /\ <<0, 2>>[2] = 2
    OBVIOUS
  <2>4. \A t : t \in Held <=> t = 1 \/ t = 2
    BY <2>1, <2>2, <2>3
  <2> QED BY <2>4
<1>8. \A r \in Requests : req[r] = Idle
  BY <1>1
<1>9. Idle \in Request /\ Idle.op = None /\ Idle.at = "new" /\ Idle.token = 0
  BY DEF Idle, Request, Steps
<1>10. \A r \in Requests : ~Read(r) /\ ~Drawn(r) /\ ~Fresh(r) /\ ~Under(r)
  BY <1>8, <1>9 DEF Read, Drawn, Fresh, Under, Refreshing
<1>11. family \in Seq(Nat) /\ Len(family) = 2 /\ family[1] = 1 /\ family[2] = 2
  BY <1>1
<1>12. Types
  <2>1. granted \subseteq (Tokens \cup {0}) \X Tokens
    BY <1>1, <1>5
  <2>2. req \in [Requests -> Request] /\ \A r \in Requests : req[r].token \in Tokens \cup {0}
    BY <1>1, <1>9
  <2>3. \A t \in Tokens : family[t] \in Tokens
    BY <1>5, <1>11
  <2>4. clock \in Nat /\ password \in Nat /\ epoch \in Nat \X Nat /\ down \in BOOLEAN /\ app \in BOOLEAN
    BY <1>1
  <2>5. out \subseteq Tokens
    BY <1>1
  <2> QED BY <1>4, <1>10, <1>11, <2>1, <2>2, <2>3, <2>4, <2>5 DEF Types
<1>13. Links
  <2>1. \A x \in granted : x[1] < x[2] /\ (x[1] # 0 => x[1] \in Held /\ family[x[1]] = family[x[2]])
    BY <1>1
  <2>2. \A t \in Alive : t \in Held /\ (rows[t].next # None => <<t, rows[t].next>> \in granted)
    BY <1>2, <1>4, <1>6, <1>7
  <2> QED BY <1>10, <2>1, <2>2 DEF Links
<1>14. Kin
  <2>1. \A t \in Alive : rows[t].since = Since(rows[t].app)
    BY <1>1, <1>2, <1>4, <1>6 DEF Since
  <2>2. \A t, u \in Alive : family[t] = family[u] => rows[t].app = rows[u].app
    BY <1>6, <1>11
  <2> QED BY <1>10, <2>1, <2>2 DEF Kin
<1>15. Times
  <2>1. \A t \in Alive : rows[t].exp <= clock + Life /\ rows[t].next = None
    BY <1>1, <1>2, <1>4, <1>6, SessionsAssumption
  <2> QED BY <1>10, <2>1 DEF Times
<1>16. Order
  <2>1. \A t \in Alive : rows[t].next = None
    BY <1>2, <1>4, <1>6
  <2>2. None \notin Alive
    BY <1>6, SessionsAssumption
  <2> QED BY <1>10, <2>1, <2>2 DEF Order
<1>17. Successors
  <2>1. \A t \in Alive : rows[t].next = None
    BY <1>2, <1>4, <1>6
  <2>2. \A x \in granted : x[1] = 0
    BY <1>1
  <2> QED BY <1>6, <2>1, <2>2 DEF Successors, SameSuccessor
<1> QED BY <1>12, <1>13, <1>14, <1>15, <1>16, <1>17 DEF IInv

LEMMA NextInv == IInv /\ [Next]_vars => IInv'
<1> SUFFICES ASSUME IInv, [Next]_vars PROVE IInv'
  OBVIOUS
<1>1. ASSUME NEW r \in Requests, NEW op \in Ops, NEW t \in Held, Start(r, op, t) PROVE IInv'
  BY <1>1, StartInv
<1>2. ASSUME NEW r \in Requests, Step(r) PROVE IInv'
  <2>1. CASE LoginUser(r) \/ Verify(r) \/ RefreshUser(r) \/ Retry(r)
    BY <2>1, LoginInv
  <2>2. CASE StoreSession(r)
    BY <2>2, StoreSessionInv
  <2>3. CASE GetToken(r)
    BY <2>3, GetTokenInv
  <2>4. CASE Tidy(r)
    BY <2>4, TidyInv
  <2>5. CASE Rotate(r)
    BY <2>5, RotateInv
  <2>6. CASE Logout(r)
    BY <2>6, LogoutInv
  <2>7. CASE Takedown(r) \/ SetPassword(r)
    BY <2>7, TakedownInv
  <2>8. CASE RevokeApp(r)
    BY <2>8, RevokeAppInv
  <2> QED BY <1>2, <2>1, <2>2, <2>3, <2>4, <2>5, <2>6, <2>7, <2>8 DEF Step
<1>3. CASE Tick \/ UNCHANGED vars
  BY <1>3, TickInv
<1> QED BY <1>1, <1>2, <1>3 DEF Next

\* Whatever requests come, what a refresh holds agrees with the table.
THEOREM SessionsInv == Spec => []IInv
BY InitInv, NextInv, PTL DEF Spec

\* All the refreshes of a token, racing, repeated or retried, are answered
\* with one successor (rotateRefreshToken), while nobody logs its session out.
THEOREM RefreshesAgree == Spec => []SameSuccessor
<1>1. IInv => SameSuccessor
  BY DEF IInv, Successors
<1> QED BY <1>1, SessionsInv, PTL

\* No row in the table is of before the last revocation of the account's
\* tokens, or of its app password's, though rotations were under way at it.
THEOREM RevokedForGood == Spec => []RevocationHolds
<1>1. IInv => RevocationHolds
  BY DEF IInv, Kin, RevocationHolds, Alive
<1> QED BY <1>1, SessionsInv, PTL

\* The successor of a token that is in the table is there too, unless its session
\* was logged out of, and expires no earlier: tidying and revocations never leave
\* a token without the successor it leads to.
THEOREM SuccessorsLast == Spec => []SuccessorOutlives
<1>1. IInv => SuccessorOutlives
  <2> SUFFICES ASSUME IInv, NEW t \in Alive, rows[t].next # None
               PROVE  /\ rows[t].next \in Alive \/ family[t] \in Ended
                      /\ rows[t].next \in Alive => rows[rows[t].next].exp >= rows[t].exp
    BY DEF SuccessorOutlives
  <2>1. rows[t].next \in Alive \/ family[t] \in Ended
    BY DEF IInv, Successors
  <2>2. ASSUME rows[t].next \in Alive PROVE rows[rows[t].next].exp >= rows[t].exp
    <3>1. rows[t].exp <= rows[rows[t].next].exp
      BY <2>2 DEF IInv, Order
    <3>2. rows[t].exp \in Nat /\ rows[rows[t].next].exp \in Nat
      BY <2>2, AliveRow DEF IInv, AnyRow
    <3> QED BY <3>1, <3>2
  <2> QED BY <2>1, <2>2
<1> QED BY <1>1, SessionsInv, PTL

\* The clock stops at its bound.
InTime == clock \in 0..MaxTime
LEMMA ClockBounded == Spec => []InTime
<1>1. Init => InTime
  BY SessionsAssumption DEF Init, InTime
<1>2. InTime /\ [Next]_vars => InTime'
  <2> SUFFICES ASSUME clock \in 0..MaxTime, [Next]_vars PROVE clock' \in 0..MaxTime
    BY DEF InTime
  <2>1. CASE Tick
    BY <2>1, SessionsAssumption DEF Tick
  <2>2. CASE \E r \in Requests, op \in Ops, t \in Held : Start(r, op, t)
    BY <2>2 DEF Start
  <2>3. CASE \E r \in Requests : Step(r)
    BY <2>3 DEF Step, LoginUser, Verify, StoreSession, RefreshUser, GetToken, Tidy, Rotate, Retry,
                Logout, Takedown, SetPassword, RevokeApp
  <2>4. CASE UNCHANGED vars
    BY <2>4 DEF vars
  <2> QED BY <2>1, <2>2, <2>3, <2>4 DEF Next
<1> QED BY <1>1, <1>2, PTL DEF Spec

\* Rows are rows, of tokens and successors that were drawn.
THEOREM TypeCorrect == Spec => []TypeOK
<1>1. IInv /\ InTime => TypeOK
  <2> SUFFICES ASSUME IInv, clock \in 0..MaxTime PROVE TypeOK
    BY DEF InTime
  <2>1. ASSUME NEW t \in Tokens PROVE rows[t] \in Row \cup {None}
    <3>1. CASE t \in Alive
      <4>1. rows[t] \in AnyRow /\ rows[t].exp \in Nat
        BY <3>1, AliveRow DEF IInv, AnyRow
      <4>2. rows[t].exp <= clock + Life
        BY <3>1 DEF IInv, Times
      <4>3. rows[t].exp \in 0..(MaxTime + Life)
        BY <4>1, <4>2, SessionsAssumption
      <4>4. rows[t].next \in Tokens \cup {None}
        BY <3>1, SuccessorToken DEF IInv
      <4> DEFINE x == rows[t]
      <4>5. x \in AnyRow /\ x.exp \in 0..(MaxTime + Life) /\ x.next \in Tokens \cup {None}
        BY <4>1, <4>3, <4>4
      <4> HIDE DEF x
      <4>6. x \in Row
        BY <4>5 DEF AnyRow, Row
      <4> QED BY <4>6 DEF x
    <3>2. CASE t \notin Alive
      BY <2>1, <3>2 DEF Alive
    <3> QED BY <3>1, <3>2
  <2>2. \A r \in Requests : req[r].token \in Tokens \cup {0} /\ req[r].next \in Nat
    BY DEF IInv, Types, Request
  <2> QED BY <2>1, <2>2 DEF IInv, Types, TypeOK
<1> QED BY <1>1, SessionsInv, ClockBounded, PTL
=============================================================================
