------------------------- MODULE CredentialsProofs -------------------------
(***************************************************************************)
(* Proofs about Credentials, for any number of requests: what is exchanged *)
(* is exchanged once, what comes again is recognised, what was used is     *)
(* gone, and an address is confirmed only by who receives its mail.        *)
(***************************************************************************)
EXTENDS Credentials, FiniteSetTheorems, TLAPS

Running(r) == req[r].at \notin {"new", "end"}

\* What a request carries from one step of its handler to the next.
OAuthCarries(r) ==
  LET q == req[r] IN Running(r) =>
    /\ q.op \in {"grant", "deny"} => "a" \in DOMAIN q /\ q.a \in DOMAIN asked
    /\ q.op = "exchange" => {"code", "tid"} \subseteq DOMAIN q /\ q.code \in 1..drawn
    /\ q.op = "refresh" => /\ {"token", "row", "tid"} \subseteq DOMAIN q
                           /\ q.token \in 1..drawn /\ q.tid \in 0..drawn
MailCarries(r) ==
  LET q == req[r] IN Running(r) =>
    /\ q.op = "mail" => /\ {"for", "to"} \subseteq DOMAIN q /\ q.for \in PurposeSet
                        /\ q.at = "create" => q.to \in 1..email
    /\ q.op \in PurposeSet \ {"update"} => "n" \in DOMAIN q /\ q.n \in Mailed(q.op)
    /\ q.op = "update" => "n" \in DOMAIN q /\ q.n \in Mailed("update") \cup {None}
    /\ q.op \in {"adminEmail", "adminPassword"} => "n" \in DOMAIN q /\ q.n = None
RequestShape ==
  /\ DOMAIN req = Requests
  /\ \A r \in Requests : {"op", "at"} \subseteq DOMAIN req[r] /\ req[r].at \in Steps

TokenRow == [tid : 1..drawn, code : 0..drawn, current : (1..drawn) \cup {None}]
Exchanges == [by : {"code", "refresh"} \X (0..drawn), refresh : 1..drawn, row : DOMAIN tokens]
OAuthShape ==
  /\ drawn \in Nat
  /\ asked \in Seq([code : 0..drawn, is : {"open", "coded", "gone"}])
  /\ tokens \in Seq(TokenRow \cup {None})
  /\ used \subseteq (1..drawn) \X Rows
  /\ device \in BOOLEAN
  /\ taken \subseteq Exchanges

Untaken(by) == \A g \in taken : g.by # by
Creating(r, code) == At(r, "exchange", "create") /\ req[r].code = code

\* A code is with its request, with one handler, or taken.
CodeIsItsOwn(r) ==
  At(r, "exchange", "create") =>
    /\ Untaken(<<"code", req[r].code>>)
    /\ \A s \in Requests \ {r} : ~Creating(s, req[r].code)
CodesOnce ==
  /\ \A a \in DOMAIN asked : asked[a].is = "coded" =>
       Untaken(<<"code", asked[a].code>>) /\ \A r \in Requests : ~Creating(r, asked[a].code)
  /\ \A r \in Requests : CodeIsItsOwn(r)

\* No two rows share the id of a token or a refresh token, and no refresh token
\* that is current was taken.
RowsApart ==
  /\ \A i, j \in Rows : tokens[i].tid = tokens[j].tid => i = j
  /\ \A i, j \in Rows : tokens[i].current = tokens[j].current /\ tokens[i].current # None => i = j
  /\ \A i \in Rows : tokens[i].current # None => Untaken(<<"refresh", tokens[i].current>>)

\* The id of the token stands for the refresh token that was found with it.
RotatesCurrent(r) ==
  At(r, "refresh", "rotate") =>
    \A i \in Rows : tokens[i].tid = req[r].tid => tokens[i].current = req[r].token

OAuthInv ==
  /\ OAuthShape /\ \A r \in Requests : OAuthCarries(r) /\ RotatesCurrent(r)
  /\ CodesOnce /\ RowsApart
  /\ TakenOnce /\ ReplayRecognised

\* Tokens are mailed one at a time, each with the next number.
MailShape ==
  /\ email \in Nat \ {0} /\ confirmed \in BOOLEAN /\ raced \in BOOLEAN
  /\ mail = [p \in PurposeSet |-> mail[p]]
  /\ \A p \in PurposeSet : mail[p] # None =>
       {"n", "old"} \subseteq DOMAIN mail[p] /\ mail[p].old \in BOOLEAN /\ mail[p].n \in Mailed(p)
  /\ IsFiniteSet(sent)
  /\ sent \subseteq [n : 1..Cardinality(sent), for : PurposeSet, to : 1..email]
  /\ \A m, k \in sent : m.n = k.n => m = k
  /\ finished \subseteq {m.n : m \in sent} /\ proven \subseteq 1..email

\* A token that is taken out of the table before it takes effect stays out.
TakenOut(r) ==
  At(r, "plc", "sign") \/ At(r, "delete", "rows") =>
    mail[req[r].op] = None \/ mail[req[r].op].n # req[r].n

\* As long as no change of the address raced with another request, who relies
\* on the address or on a token has the address of the account.
SentTo(n) == {m.to : m \in {m \in sent : m.n = n}}
Relies(r) == At(r, "mail", "create") \/ At(r, "confirm", "check") \/ At(r, "confirm", "store")
Addressed(r) ==
  ~raced =>
    /\ At(r, "mail", "create") => req[r].to = email
    /\ At(r, "confirm", "store") => SentTo(req[r].n) = {email}
    /\ status = "none" => ~Relies(r)
MailAddressed ==
  ~raced =>
    /\ \A p \in PurposeSet : mail[p] = None \/ SentTo(mail[p].n) = {email}
    /\ status = "none" => mail = Nothing

MailInv ==
  /\ MailShape /\ \A r \in Requests : MailCarries(r) /\ TakenOut(r) /\ Addressed(r)
  /\ MailAddressed /\ UsedIsGone /\ ConfirmedIsProven

AccountShape == status \in {"up", "down", "none"} /\ password \in Nat

IInv == AccountShape /\ RequestShape /\ OAuthInv /\ MailInv
-----------------------------------------------------------------------------
(***************************************************************************)
(* How a request moves.                                                    *)
(***************************************************************************)
LEMMA GoIs ==
  ASSUME RequestShape, NEW r \in Requests, NEW q, Go(r, q)
  PROVE  DOMAIN req' = Requests /\ req'[r] = q /\ \A s \in Requests \ {r} : req'[s] = req[s]
BY DEF RequestShape, Go

LEMMA GoShape ==
  ASSUME RequestShape, NEW r \in Requests, NEW q, Go(r, q),
         {"op", "at"} \subseteq DOMAIN q, q.at \in Steps
  PROVE  RequestShape'
BY GoIs DEF RequestShape

\* A request keeps what it carries when it takes its next step.
LEMMA ToIs ==
  ASSUME RequestShape, NEW r \in Requests, NEW step \in Steps, To(r, step)
  PROVE  /\ RequestShape'
         /\ DOMAIN req'[r] = DOMAIN req[r] /\ req'[r].at = step /\ req'[r].op = req[r].op
         /\ \A f \in DOMAIN req[r] \ {"at"} : req'[r][f] = req[r][f]
         /\ \A s \in Requests \ {r} : req'[s] = req[s]
<1> DEFINE q == [req[r] EXCEPT !.at = step]
<1>1. Go(r, q)
  BY DEF To
<1>2. {"op", "at"} \subseteq DOMAIN req[r]
  BY DEF RequestShape
<1>3. DOMAIN q = DOMAIN req[r] /\ q["at"] = step /\ \A f \in DOMAIN req[r] \ {"at"} : q[f] = req[r][f]
  BY <1>2
<1>4. q["op"] = req[r]["op"]
  BY <1>2, <1>3
<1> HIDE DEF q
<1>5. RequestShape'
  BY <1>1, <1>2, <1>3, GoShape
<1> QED BY <1>1, <1>3, <1>4, <1>5, GoIs

LEMMA EndIs ==
  ASSUME RequestShape, NEW r \in Requests, End(r)
  PROVE  /\ RequestShape'
         /\ req'[r].at = "end"
         /\ \A s \in Requests \ {r} : req'[s] = req[s]
<1> DEFINE q == [op |-> req[r].op, at |-> "end"]
<1>1. Go(r, q)
  BY DEF End
<1>2. DOMAIN q = {"op", "at"}
  OBVIOUS
<1>3. q.at = "end"
  OBVIOUS
<1>4. "end" \in Steps
  BY DEF Steps
<1> HIDE DEF q
<1> QED BY <1>1, <1>2, <1>3, <1>4, GoIs, GoShape

\* One request moves, the others stay where they are.
Moves(r) == RequestShape' /\ \A s \in Requests \ {r} : req'[s] = req[s]

\* A request that has ended owes nothing any more.
LEMMA EndOwesNothing ==
  ASSUME NEW r \in Requests, req'[r].at = "end"
  PROVE  /\ OAuthCarries(r)' /\ RotatesCurrent(r)' /\ CodeIsItsOwn(r)'
         /\ ~At(r, "exchange", "create")' /\ ~Relies(r)'
         /\ MailCarries(r)' /\ TakenOut(r)' /\ Addressed(r)'
BY DEF OAuthCarries, RotatesCurrent, CodeIsItsOwn, At, Running, MailCarries, TakenOut,
       Addressed, Relies
-----------------------------------------------------------------------------
(***************************************************************************)
(* The OAuth tables.                                                       *)
(***************************************************************************)
LEMMA SeqElement ==
  ASSUME NEW S, NEW s \in Seq(S), NEW i \in DOMAIN s
  PROVE  s[i] \in S
OBVIOUS

LEMMA OAuthTypes ==
  ASSUME OAuthShape
  PROVE  /\ drawn \in Nat
         /\ \A a \in DOMAIN asked : asked[a].code \in 0..drawn /\ asked[a].code \in Nat
         /\ \A i \in Rows : /\ tokens[i].tid \in 1..drawn /\ tokens[i].code \in 0..drawn
                            /\ tokens[i].current # None => tokens[i].current \in 1..drawn
         /\ \A g \in taken : g.refresh \in 1..drawn /\ g.row \in DOMAIN tokens
<1>1. drawn \in Nat
  BY DEF OAuthShape
<1>2. ASSUME NEW a \in DOMAIN asked PROVE asked[a].code \in 0..drawn
  <2>1. asked[a] \in [code : 0..drawn, is : {"open", "coded", "gone"}]
    BY SeqElement DEF OAuthShape
  <2> QED BY <2>1
<1>3. ASSUME NEW i \in Rows PROVE tokens[i] \in TokenRow
  <2>1. tokens[i] \in TokenRow \cup {None} /\ tokens[i] # None
    BY SeqElement DEF OAuthShape, Rows
  <2> QED BY <2>1
<1>4. \A g \in taken : g.refresh \in 1..drawn /\ g.row \in DOMAIN tokens
  BY DEF OAuthShape, Exchanges
<1> QED BY <1>1, <1>2, <1>3, <1>4 DEF TokenRow

OAuthOps ==
  {"ask", "signOut", "takedown", "restore", "signIn", "grant", "deny", "exchange", "refresh",
   "revoke"}

\* A step that only looks, or only changes the device.
LEMMA OAuthLooks ==
  ASSUME OAuthInv, NEW r \in Requests, Moves(r),
         UNCHANGED <<asked, tokens, used, drawn, taken>>, device' \in BOOLEAN,
         OAuthCarries(r)', RotatesCurrent(r)', ~At(r, "exchange", "create")'
  PROVE  OAuthInv'
<1>1. OAuthShape'
  BY DEF OAuthInv, OAuthShape, Rows, TokenRow, Exchanges
<1>2. ASSUME NEW s \in Requests PROVE OAuthCarries(s)' /\ RotatesCurrent(s)'
  <2>1. CASE s # r
    <3>1. req'[s] = req[s] /\ OAuthCarries(s) /\ RotatesCurrent(s)
      BY <2>1 DEF Moves, OAuthInv
    <3> QED BY <3>1 DEF OAuthCarries, RotatesCurrent, At, Running, Rows
  <2> QED BY <2>1
<1>3. CodesOnce'
  <2>1. \A s \in Requests : \A c : Creating(s, c)' => s # r /\ Creating(s, c)
    BY DEF Creating, At, Moves
  <2>2. \A s \in Requests : At(s, "exchange", "create")' =>
          s # r /\ At(s, "exchange", "create") /\ req'[s] = req[s]
    BY DEF At, Moves
  <2>3. \A by : Untaken(by)' <=> Untaken(by)
    BY DEF Untaken
  <2>4. ASSUME NEW a \in DOMAIN asked, asked[a].is = "coded"
        PROVE  Untaken(<<"code", asked[a].code>>)' /\ \A s \in Requests : ~Creating(s, asked[a].code)'
    BY <2>1, <2>3, <2>4 DEF OAuthInv, CodesOnce
  <2>5. ASSUME NEW s \in Requests PROVE CodeIsItsOwn(s)'
    BY <2>1, <2>2, <2>3 DEF OAuthInv, CodesOnce, CodeIsItsOwn
  <2> QED BY <2>4, <2>5 DEF CodesOnce
<1>4. RowsApart'
  BY DEF OAuthInv, RowsApart, Rows, Untaken
<1>5. TakenOnce' /\ ReplayRecognised'
  BY DEF OAuthInv, TakenOnce, ReplayRecognised, Rows
<1> QED BY <1>1, <1>2, <1>3, <1>4, <1>5 DEF OAuthInv

\* Where a request goes on with what it has, and what it carries is enough.
LEMMA OAuthGoesOn ==
  ASSUME RequestShape, NEW r \in Requests, NEW step \in Steps, To(r, step),
         OAuthCarries(r), Running(r), DOMAIN asked \subseteq DOMAIN asked', drawn' = drawn
  PROVE  Moves(r) /\ OAuthCarries(r)' /\ req'[r].op = req[r].op /\ req'[r].at = step
<1>1. /\ RequestShape' /\ DOMAIN req'[r] = DOMAIN req[r]
      /\ req'[r].at = step /\ req'[r].op = req[r].op
      /\ \A f \in DOMAIN req[r] \ {"at"} : req'[r][f] = req[r][f]
      /\ \A s \in Requests \ {r} : req'[s] = req[s]
  BY ToIs
<1>2. /\ "a" \in DOMAIN req[r] => req'[r].a = req[r].a
      /\ "code" \in DOMAIN req[r] => req'[r].code = req[r].code
      /\ "token" \in DOMAIN req[r] => req'[r].token = req[r].token
      /\ "tid" \in DOMAIN req[r] => req'[r].tid = req[r].tid
  BY <1>1
<1>3. OAuthCarries(r)'
  BY <1>1, <1>2 DEF OAuthCarries, Running
<1> QED BY <1>1, <1>3 DEF Moves

LEMMA OAuthStarts ==
  ASSUME RequestShape, OAuthInv, NEW r \in Requests, OAuthStart(r)
  PROVE  OAuthInv' /\ Moves(r) /\ req'[r].op \in OAuthOps
<1>0. "start" \in Steps
  BY DEF Steps
<1>1. UNCHANGED <<asked, tokens, used, device, drawn, taken>> /\ device' \in BOOLEAN
  BY DEF OAuthStart, oauthVars, OAuthInv, OAuthShape
<1>2. ASSUME NEW q, Go(r, q), {"op", "at"} \subseteq DOMAIN q, q.at = "start", q.op \in OAuthOps,
             q.op \in {"grant", "deny"} => "a" \in DOMAIN q /\ q.a \in DOMAIN asked,
             q.op = "exchange" => {"code", "tid"} \subseteq DOMAIN q /\ q.code \in 1..drawn,
             q.op = "refresh" => /\ {"token", "row", "tid"} \subseteq DOMAIN q
                                 /\ q.token \in 1..drawn /\ q.tid \in 0..drawn
      PROVE  OAuthInv' /\ Moves(r) /\ req'[r].op \in OAuthOps
  <2>1. Moves(r) /\ req'[r] = q
    BY <1>0, <1>2, GoIs, GoShape DEF Moves
  <2>2. OAuthCarries(r)' /\ ~At(r, "exchange", "create")' /\ RotatesCurrent(r)'
    BY <1>1, <1>2, <2>1 DEF OAuthCarries, At, RotatesCurrent
  <2> QED BY <1>1, <1>2, <2>1, <2>2, OAuthLooks
<1>3. ASSUME NEW op \in {"ask", "signOut", "takedown", "restore"},
             Begin(r, [op |-> op, at |-> "start"])
      PROVE  OAuthInv' /\ Moves(r) /\ req'[r].op \in OAuthOps
  <2> DEFINE q == [op |-> op, at |-> "start"]
  <2>1. Go(r, q)
    BY <1>3 DEF Begin
  <2>2. DOMAIN q = {"op", "at"} /\ q.op = op /\ q.at = "start"
    OBVIOUS
  <2>3. op \in OAuthOps /\ op \notin {"grant", "deny", "exchange", "refresh"}
    BY DEF OAuthOps
  <2> HIDE DEF q
  <2> QED BY <1>2, <2>1, <2>2, <2>3
<1>4. ASSUME Begin(r, [op |-> "signIn", at |-> "start", password |-> password, down |-> FALSE])
      PROVE  OAuthInv' /\ Moves(r) /\ req'[r].op \in OAuthOps
  <2> DEFINE q == [op |-> "signIn", at |-> "start", password |-> password, down |-> FALSE]
  <2>1. Go(r, q)
    BY <1>4 DEF Begin
  <2>2. DOMAIN q = {"op", "at", "password", "down"} /\ q.op = "signIn" /\ q.at = "start"
    OBVIOUS
  <2>3. "signIn" \in OAuthOps
    BY DEF OAuthOps
  <2> HIDE DEF q
  <2> QED BY <1>2, <2>1, <2>2, <2>3
<1>5. ASSUME NEW a \in DOMAIN asked, NEW op \in {"grant", "deny"},
             Begin(r, [op |-> op, at |-> "start", a |-> a])
      PROVE  OAuthInv' /\ Moves(r) /\ req'[r].op \in OAuthOps
  <2> DEFINE q == [op |-> op, at |-> "start", a |-> a]
  <2>1. Go(r, q)
    BY <1>5 DEF Begin
  <2>2. DOMAIN q = {"op", "at", "a"} /\ q.op = op /\ q.at = "start" /\ q.a = a
    OBVIOUS
  <2>3. op \in OAuthOps /\ op \notin {"exchange", "refresh"}
    BY DEF OAuthOps
  <2> HIDE DEF q
  <2> QED BY <1>2, <2>1, <2>2, <2>3
<1>6. ASSUME NEW a \in DOMAIN asked, asked[a].code # 0,
             Begin(r, [op |-> "exchange", at |-> "start", code |-> asked[a].code, tid |-> 0])
      PROVE  OAuthInv' /\ Moves(r) /\ req'[r].op \in OAuthOps
  <2> DEFINE q == [op |-> "exchange", at |-> "start", code |-> asked[a].code, tid |-> 0]
  <2>1. Go(r, q)
    BY <1>6 DEF Begin
  <2>2. /\ DOMAIN q = {"op", "at", "code", "tid"} /\ q.op = "exchange" /\ q.at = "start"
        /\ q.code = asked[a].code
    OBVIOUS
  <2>3. asked[a].code \in 1..drawn
    BY <1>6, OAuthTypes DEF OAuthInv
  <2>4. "exchange" \in OAuthOps
    BY DEF OAuthOps
  <2> HIDE DEF q
  <2> QED BY <1>2, <2>1, <2>2, <2>3, <2>4
<1>7. ASSUME NEW g \in taken,
             Begin(r, [op |-> "refresh", at |-> "start", token |-> g.refresh, row |-> 0, tid |-> 0])
      PROVE  OAuthInv' /\ Moves(r) /\ req'[r].op \in OAuthOps
  <2> DEFINE q == [op |-> "refresh", at |-> "start", token |-> g.refresh, row |-> 0, tid |-> 0]
  <2>1. Go(r, q)
    BY <1>7 DEF Begin
  <2>2. /\ DOMAIN q = {"op", "at", "token", "row", "tid"} /\ q.op = "refresh" /\ q.at = "start"
        /\ q.token = g.refresh /\ q.tid = 0
    OBVIOUS
  <2>3. g.refresh \in 1..drawn /\ 0 \in 0..drawn
    BY DEF OAuthInv, OAuthShape, Exchanges
  <2>4. "refresh" \in OAuthOps
    BY DEF OAuthOps
  <2> HIDE DEF q
  <2> QED BY <1>2, <2>1, <2>2, <2>3, <2>4
<1>8. ASSUME NEW i \in Rows,
             Begin(r, [op |-> "revoke", at |-> "start", row |-> i, tid |-> 0])
      PROVE  OAuthInv' /\ Moves(r) /\ req'[r].op \in OAuthOps
  <2> DEFINE q == [op |-> "revoke", at |-> "start", row |-> i, tid |-> 0]
  <2>1. Go(r, q)
    BY <1>8 DEF Begin
  <2>2. DOMAIN q = {"op", "at", "row", "tid"} /\ q.op = "revoke" /\ q.at = "start"
    OBVIOUS
  <2>3. "revoke" \in OAuthOps
    BY DEF OAuthOps
  <2> HIDE DEF q
  <2> QED BY <1>2, <2>1, <2>2, <2>3
<1> QED BY <1>3, <1>4, <1>5, <1>6, <1>7, <1>8 DEF OAuthStart

\* The steps that read a row, or whether there is one, and the device.
LEMMA OAuthReads ==
  ASSUME RequestShape, OAuthInv, NEW r \in Requests,
         \/ SignInUser(r) \/ SignInVerify(r) \/ SignInBind(r) \/ SignOut(r)
         \/ GrantDevice(r) \/ FindTokenByCode(r) \/ FindUsed(r) \/ FindRow(r) \/ ReadToken(r)
  PROVE  OAuthInv' /\ Moves(r) /\ (req'[r].op \in OAuthOps \/ req'[r].at = "end")
<1> DEFINE Goal == OAuthInv' /\ Moves(r) /\ (req'[r].op \in OAuthOps \/ req'[r].at = "end")
<1>1. UNCHANGED <<asked, tokens, used, drawn, taken>> /\ device' \in BOOLEAN
  BY DEF SignInUser, SignInVerify, SignInBind, SignOut, GrantDevice, FindTokenByCode, FindUsed,
         FindRow, ReadToken, oauthVars, OAuthInv, OAuthShape
<1>2. OAuthCarries(r) /\ drawn \in Nat
  BY DEF OAuthInv, OAuthShape
<1>3. ASSUME End(r) PROVE Goal
  <2>1. Moves(r) /\ req'[r].at = "end"
    BY <1>3, EndIs DEF Moves
  <2> QED BY <1>1, <2>1, EndOwesNothing, OAuthLooks
<1>4. ASSUME NEW step \in Steps, To(r, step), Running(r), req[r].op \in OAuthOps,
             step # "create", step # "rotate"
      PROVE  Goal
  <2>1. Moves(r) /\ OAuthCarries(r)' /\ req'[r].op = req[r].op /\ req'[r].at = step
    BY <1>1, <1>2, <1>4, OAuthGoesOn
  <2>2. ~At(r, "exchange", "create")' /\ RotatesCurrent(r)'
    BY <1>4, <2>1 DEF At, RotatesCurrent
  <2> QED BY <1>1, <1>4, <2>1, <2>2, OAuthLooks
<1>5. /\ "verify" \in Steps /\ "bind" \in Steps /\ "update" \in Steps /\ "row" \in Steps
      /\ "delete" \in Steps /\ "rotate" \in Steps
  BY DEF Steps
<1> SUFFICES Goal
  OBVIOUS
<1> HIDE DEF Goal
<1>6. CASE SignInUser(r)
  <2>1. Running(r) /\ req[r].op = "signIn" /\ req[r].op \in OAuthOps
    BY <1>6 DEF SignInUser, At, Running, OAuthOps
  <2>2. CASE Go(r, [req[r] EXCEPT !.at = "verify", !.down = status = "down"])
    <3> DEFINE q == [req[r] EXCEPT !.at = "verify", !.down = status = "down"]
    <3>1. {"op", "at"} \subseteq DOMAIN req[r]
      BY DEF RequestShape
    <3>2. DOMAIN q = DOMAIN req[r] /\ q["at"] = "verify" /\ q["op"] = req[r]["op"]
      BY <3>1
    <3> HIDE DEF q
    <3>3. Moves(r) /\ req'[r] = q
      BY <1>5, <2>2, <3>1, <3>2, GoIs, GoShape DEF Moves, q
    <3>4. req'[r].op = "signIn" /\ req'[r].at = "verify"
      BY <2>1, <3>2, <3>3
    <3>5. OAuthCarries(r)' /\ ~At(r, "exchange", "create")' /\ RotatesCurrent(r)'
      BY <3>4 DEF OAuthCarries, At, RotatesCurrent
    <3> QED BY <1>1, <2>1, <3>3, <3>4, <3>5, OAuthLooks DEF Goal
  <2> QED BY <1>3, <1>6, <2>2 DEF SignInUser
<1>7. CASE SignInVerify(r)
  <2>1. Running(r) /\ req[r].op \in OAuthOps
    BY <1>7 DEF SignInVerify, At, Running, OAuthOps
  <2> QED BY <1>3, <1>4, <1>5, <1>7, <2>1 DEF SignInVerify
<1>8. CASE SignInBind(r) \/ SignOut(r)
  BY <1>3, <1>8 DEF SignInBind, SignOut
<1>9. CASE GrantDevice(r)
  <2>1. Running(r) /\ req[r].op \in OAuthOps
    BY <1>9 DEF GrantDevice, At, Running, OAuthOps
  <2> QED BY <1>3, <1>4, <1>5, <1>9, <2>1 DEF GrantDevice
<1>10. CASE FindTokenByCode(r)
  <2>1. Running(r) /\ At(r, "exchange", "find") /\ req[r].op \in OAuthOps
    BY <1>10 DEF FindTokenByCode, At, Running, OAuthOps
  <2>2. ASSUME NEW i \in Rows, Go(r, [req[r] EXCEPT !.at = "delete", !.tid = tokens[i].tid])
        PROVE  Goal
    <3> DEFINE q == [req[r] EXCEPT !.at = "delete", !.tid = tokens[i].tid]
    <3>1. {"op", "at", "code", "tid"} \subseteq DOMAIN req[r] /\ req[r].code \in 1..drawn
      BY <1>2, <2>1 DEF RequestShape, OAuthCarries, At
    <3>2. /\ DOMAIN q = DOMAIN req[r] /\ q["at"] = "delete" /\ q["op"] = req[r]["op"]
          /\ q["code"] = req[r]["code"]
      BY <3>1
    <3> HIDE DEF q
    <3>3. Moves(r) /\ req'[r] = q
      BY <1>5, <2>2, <3>1, <3>2, GoIs, GoShape DEF Moves, q
    <3>4. req'[r].op = "exchange" /\ req'[r].at = "delete" /\ req'[r].code = req[r].code
      BY <2>1, <3>2, <3>3 DEF At
    <3>5. OAuthCarries(r)' /\ ~At(r, "exchange", "create")' /\ RotatesCurrent(r)'
      BY <1>1, <3>1, <3>2, <3>3, <3>4 DEF OAuthCarries, At, RotatesCurrent
    <3> QED BY <1>1, <2>1, <3>3, <3>4, <3>5, OAuthLooks DEF Goal, At
  <2> QED BY <1>3, <1>10, <2>2 DEF FindTokenByCode, Visible
<1>11. CASE FindUsed(r)
  <2>1. Running(r) /\ At(r, "refresh", "start") /\ req[r].op \in OAuthOps
    BY <1>11 DEF FindUsed, At, Running, OAuthOps
  <2>2. ASSUME NEW i, Go(r, [req[r] EXCEPT !.at = "row", !.row = i])
        PROVE  Goal
    <3> DEFINE q == [req[r] EXCEPT !.at = "row", !.row = i]
    <3>1. /\ {"op", "at", "token", "row", "tid"} \subseteq DOMAIN req[r]
          /\ req[r].token \in 1..drawn /\ req[r].tid \in 0..drawn
      BY <1>2, <2>1 DEF RequestShape, OAuthCarries, At
    <3>2. /\ DOMAIN q = DOMAIN req[r] /\ q["at"] = "row" /\ q["op"] = req[r]["op"]
          /\ q["token"] = req[r]["token"] /\ q["tid"] = req[r]["tid"]
      BY <3>1
    <3> HIDE DEF q
    <3>3. Moves(r) /\ req'[r] = q
      BY <1>5, <2>2, <3>1, <3>2, GoIs, GoShape DEF Moves, q
    <3>4. /\ req'[r].op = "refresh" /\ req'[r].at = "row"
          /\ req'[r].token = req[r].token /\ req'[r].tid = req[r].tid
      BY <2>1, <3>2, <3>3 DEF At
    <3>5. OAuthCarries(r)' /\ ~At(r, "exchange", "create")' /\ RotatesCurrent(r)'
      BY <1>1, <3>1, <3>2, <3>3, <3>4 DEF OAuthCarries, At, RotatesCurrent
    <3> QED BY <1>1, <2>1, <3>3, <3>4, <3>5, OAuthLooks DEF Goal, At
  <2> QED BY <1>4, <1>5, <1>11, <2>1, <2>2 DEF FindUsed
<1>12. CASE FindRow(r)
  <2>1. Running(r) /\ At(r, "refresh", "row") /\ req[r].op \in OAuthOps
    BY <1>12 DEF FindRow, At, Running, OAuthOps
  <2>2. ASSUME NEW i \in Rows,
               Go(r, [req[r] EXCEPT !.tid = tokens[i].tid,
                        !.at = IF tokens[i].current = req[r].token THEN "rotate" ELSE "delete"])
        PROVE  Goal
    <3> DEFINE step == IF tokens[i].current = req[r].token THEN "rotate" ELSE "delete"
               q == [req[r] EXCEPT !.tid = tokens[i].tid, !.at = step]
    <3>1. /\ {"op", "at", "token", "row", "tid"} \subseteq DOMAIN req[r]
          /\ req[r].token \in 1..drawn
      BY <1>2, <2>1 DEF RequestShape, OAuthCarries, At
    <3>2. /\ DOMAIN q = DOMAIN req[r] /\ q["at"] = step /\ q["op"] = req[r]["op"]
          /\ q["token"] = req[r]["token"] /\ q["tid"] = tokens[i].tid
      BY <3>1
    <3>3. step \in Steps /\ (step = "rotate" => tokens[i].current = req[r].token) /\ step # "create"
      BY <1>5
    <3>4. tokens[i].tid \in 0..drawn
      BY <1>2 DEF OAuthInv, OAuthShape, TokenRow, Rows
    <3> HIDE DEF q, step
    <3>5. Moves(r) /\ req'[r] = q
      BY <2>2, <3>1, <3>2, <3>3, GoIs, GoShape DEF Moves, q, step
    <3>6. /\ req'[r].op = "refresh" /\ req'[r].at = step
          /\ req'[r].token = req[r].token /\ req'[r].tid = tokens[i].tid
      BY <2>1, <3>2, <3>5 DEF At
    <3>7. OAuthCarries(r)' /\ ~At(r, "exchange", "create")'
      BY <1>1, <3>1, <3>2, <3>4, <3>5, <3>6 DEF OAuthCarries, At
    <3>8. RotatesCurrent(r)'
      <4>1. \A j \in Rows : tokens[j].tid = tokens[i].tid => j = i
        BY DEF OAuthInv, RowsApart
      <4> QED BY <1>1, <3>3, <3>6, <4>1 DEF RotatesCurrent, At, Rows
    <3> QED BY <1>1, <2>1, <3>5, <3>6, <3>7, <3>8, OAuthLooks DEF Goal, At
  <2> QED BY <1>3, <1>12, <2>2 DEF FindRow, Visible
<1>13. CASE ReadToken(r)
  <2>1. Running(r) /\ At(r, "revoke", "start") /\ req[r].op \in OAuthOps
    BY <1>13 DEF ReadToken, At, Running, OAuthOps
  <2>2. ASSUME NEW t, Go(r, [req[r] EXCEPT !.at = "delete", !.tid = t])
        PROVE  Goal
    <3> DEFINE q == [req[r] EXCEPT !.at = "delete", !.tid = t]
    <3>1. {"op", "at"} \subseteq DOMAIN req[r]
      BY DEF RequestShape
    <3>2. DOMAIN q = DOMAIN req[r] /\ q["at"] = "delete" /\ q["op"] = req[r]["op"]
      BY <3>1
    <3> HIDE DEF q
    <3>3. Moves(r) /\ req'[r] = q
      BY <1>5, <2>2, <3>1, <3>2, GoIs, GoShape DEF Moves, q
    <3>4. req'[r].op = "revoke" /\ req'[r].at = "delete"
      BY <2>1, <3>2, <3>3 DEF At
    <3>5. OAuthCarries(r)' /\ ~At(r, "exchange", "create")' /\ RotatesCurrent(r)'
      BY <3>4 DEF OAuthCarries, At, RotatesCurrent
    <3> QED BY <1>1, <2>1, <3>3, <3>4, <3>5, OAuthLooks DEF Goal, At
  <2> QED BY <1>3, <1>13, <2>2 DEF ReadToken
<1> QED BY <1>6, <1>7, <1>8, <1>9, <1>10, <1>11, <1>12, <1>13

\* What changes the authorization requests: none of them gets a code but a new
\* one, and a handler that takes a code leaves no request with it.
LEMMA OAuthAsks ==
  ASSUME RequestShape, OAuthInv, NEW r, Moves(r), UNCHANGED <<tokens, used, device, taken>>,
         drawn' \in {drawn, drawn + 1},
         asked' \in Seq([code : 0..drawn', is : {"open", "coded", "gone"}]),
         DOMAIN asked \subseteq DOMAIN asked',
         \A a \in DOMAIN asked' : asked'[a].is = "coded" =>
           \/ a \in DOMAIN asked /\ asked[a].is = "coded" /\ asked'[a].code = asked[a].code
           \/ asked'[a].code = drawn + 1,
         r \in Requests => /\ OAuthCarries(r)' /\ RotatesCurrent(r)'
                           /\ req'[r].at = "create" => req'[r].code \in 1..drawn,
         r \in Requests /\ At(r, "exchange", "create")' =>
           /\ Coded(req'[r].code) # {}
           /\ \A a \in DOMAIN asked' : asked'[a].is = "coded" => asked'[a].code # req'[r].code
  PROVE  OAuthInv'
<1>0. drawn \in Nat /\ drawn' \in Nat /\ drawn' >= drawn
  BY OAuthTypes DEF OAuthInv
<1>1. OAuthShape'
  <2>1. \A i \in 1..drawn : i \in 1..drawn'
    BY <1>0
  <2>2. \A i \in 0..drawn : i \in 0..drawn'
    BY <1>0
  <2>3. TokenRow \subseteq TokenRow' /\ Exchanges \subseteq Exchanges'
    BY <2>1, <2>2 DEF TokenRow, Exchanges
  <2>4. tokens \in Seq(TokenRow' \cup {None})
    <3>1. DOMAIN tokens = 1..Len(tokens) /\ Len(tokens) \in Nat
      BY DEF OAuthInv, OAuthShape
    <3>2. \A i \in 1..Len(tokens) : tokens[i] \in TokenRow' \cup {None}
      BY <2>3, <3>1, SeqElement DEF OAuthInv, OAuthShape
    <3>3. tokens = [i \in 1..Len(tokens) |-> tokens[i]]
      BY <3>1 DEF OAuthInv, OAuthShape
    <3> QED BY <3>1, <3>2, <3>3
  <2>5. used \subseteq (1..drawn') \X Rows'
    BY <2>1 DEF OAuthInv, OAuthShape, Rows
  <2> QED BY <1>0, <2>3, <2>4, <2>5 DEF OAuthInv, OAuthShape
<1>2. ASSUME NEW s \in Requests PROVE OAuthCarries(s)' /\ RotatesCurrent(s)'
  <2>1. CASE s # r
    <3>1. req'[s] = req[s] /\ OAuthCarries(s) /\ RotatesCurrent(s)
      BY <2>1 DEF Moves, OAuthInv
    <3>2. 1..drawn \subseteq 1..drawn' /\ 0..drawn \subseteq 0..drawn'
      BY <1>0
    <3> QED BY <3>1, <3>2 DEF OAuthCarries, RotatesCurrent, At, Running, Rows
  <2> QED BY <2>1
<1>3. \A by : Untaken(by)' <=> Untaken(by)
  BY DEF Untaken
<1>4. Untaken(<<"code", drawn + 1>>) /\ \A s \in Requests : ~Creating(s, drawn + 1)
  <2>1. \A g \in taken : g.by \in {"code", "refresh"} \X (0..drawn)
    BY DEF OAuthInv, OAuthShape, Exchanges
  <2>2. drawn + 1 \notin 0..drawn /\ drawn + 1 \notin 1..drawn
    BY <1>0
  <2>3. Untaken(<<"code", drawn + 1>>)
    BY <2>1, <2>2 DEF Untaken
  <2>4. \A s \in Requests : OAuthCarries(s)
    BY DEF OAuthInv
  <2>5. \A s \in Requests : ~Creating(s, drawn + 1)
    BY <2>2, <2>4 DEF Creating, At, OAuthCarries, Running
  <2> QED BY <2>3, <2>5
<1>5. \A s \in Requests : s # r => \A c : Creating(s, c)' <=> Creating(s, c)
  BY DEF Creating, At, Moves
<1>6. ASSUME NEW a \in DOMAIN asked', asked'[a].is = "coded", NEW c, c = asked'[a].code
      PROVE  Untaken(<<"code", c>>)' /\ \A s \in Requests : ~Creating(s, c)'
  <2>1. Untaken(<<"code", c>>) /\ \A s \in Requests : ~Creating(s, c)
    BY <1>4, <1>6 DEF OAuthInv, CodesOnce
  <2>2. r \in Requests => ~Creating(r, c)'
    BY <1>6 DEF Creating
  <2> QED BY <1>3, <1>5, <2>1, <2>2
<1>7. ASSUME NEW s \in Requests PROVE CodeIsItsOwn(s)'
  <2>1. CASE s = r
    <3> SUFFICES ASSUME At(r, "exchange", "create")'
                 PROVE  /\ Untaken(<<"code", req'[r].code>>)
                        /\ \A t \in Requests \ {r} : ~Creating(t, req'[r].code)
      BY <1>3, <1>5, <2>1 DEF CodeIsItsOwn
    <3>1. PICK a \in DOMAIN asked : asked[a].is = "coded" /\ asked[a].code = req'[r].code
      BY <2>1 DEF Coded
    <3> QED BY <3>1 DEF OAuthInv, CodesOnce
  <2>2. CASE s # r
    <3>1. req'[s] = req[s] /\ CodeIsItsOwn(s)
      BY <2>2 DEF Moves, OAuthInv, CodesOnce
    <3>2. ASSUME At(s, "exchange", "create"), r \in Requests, NEW c, c = req[s].code
          PROVE  ~Creating(r, c)'
      <4> SUFFICES ASSUME At(r, "exchange", "create")', req'[r].code = c
                   PROVE  FALSE
        BY DEF Creating
      <4>1. PICK a \in DOMAIN asked : asked[a].is = "coded" /\ asked[a].code = req'[r].code
        BY <3>2 DEF Coded
      <4>2. ~Creating(s, c)
        BY <4>1 DEF OAuthInv, CodesOnce
      <4> QED BY <3>2, <4>2 DEF Creating
    <3> QED BY <1>3, <1>5, <3>1, <3>2 DEF CodeIsItsOwn, At
  <2> QED BY <2>1, <2>2
<1>8. CodesOnce'
  BY <1>6, <1>7 DEF CodesOnce
<1>9. RowsApart' /\ TakenOnce' /\ ReplayRecognised'
  BY DEF OAuthInv, RowsApart, TakenOnce, ReplayRecognised, Rows, Untaken
<1> QED BY <1>1, <1>2, <1>8, <1>9 DEF OAuthInv

LEMMA AskedType ==
  ASSUME OAuthShape
  PROVE  /\ DOMAIN asked = 1..Len(asked) /\ Len(asked) \in Nat
         /\ asked \in [DOMAIN asked -> [code : 0..drawn, is : {"open", "coded", "gone"}]]
         /\ \A R, f : f \in [DOMAIN asked -> R] => f \in Seq(R)
<1>1. asked \in Seq([code : 0..drawn, is : {"open", "coded", "gone"}])
  BY DEF OAuthShape
<1>2. DOMAIN asked = 1..Len(asked) /\ Len(asked) \in Nat
  BY <1>1
<1>3. ASSUME NEW S, asked \in Seq(S) PROVE asked \in [DOMAIN asked -> S]
  BY <1>3
<1>4. \A R, f : f \in [1..Len(asked) -> R] => f \in Seq(R)
  BY <1>2
<1>5. asked \in [DOMAIN asked -> [code : 0..drawn, is : {"open", "coded", "gone"}]]
  BY <1>1, <1>3
<1> QED BY <1>2, <1>4, <1>5

LEMMA OAuthRequests ==
  ASSUME RequestShape, OAuthInv, NEW r \in Requests,
         \/ CreateRequest(r) \/ UpdateRequest(r) \/ DeleteRequest(r) \/ ConsumeRequestCode(r)
  PROVE  OAuthInv' /\ Moves(r) /\ (req'[r].op \in OAuthOps \/ req'[r].at = "end")
<1> DEFINE Row == [code : 0..drawn, is : {"open", "coded", "gone"}]
<1>1. /\ drawn \in Nat /\ OAuthCarries(r) /\ 0 \in 0..drawn /\ drawn + 1 \in 0..(drawn + 1)
      /\ 0..drawn \subseteq 0..(drawn + 1)
  BY OAuthTypes DEF OAuthInv
<1>2. asked \in Seq(Row) /\ asked \in [DOMAIN asked -> Row]
      /\ \A R, f : f \in [DOMAIN asked -> R] => f \in Seq(R)
  BY AskedType DEF OAuthInv, OAuthShape
<1>3. ASSUME End(r), UNCHANGED <<tokens, used, device, taken>>, drawn' \in {drawn, drawn + 1},
             asked' \in Seq([code : 0..drawn', is : {"open", "coded", "gone"}]),
             DOMAIN asked \subseteq DOMAIN asked',
             \A a \in DOMAIN asked' : asked'[a].is = "coded" =>
               \/ a \in DOMAIN asked /\ asked[a].is = "coded" /\ asked'[a].code = asked[a].code
               \/ asked'[a].code = drawn + 1
      PROVE  OAuthInv' /\ Moves(r) /\ (req'[r].op \in OAuthOps \/ req'[r].at = "end")
  <2>1. Moves(r) /\ req'[r].at = "end"
    BY <1>3, EndIs DEF Moves
  <2>2. OAuthCarries(r)' /\ RotatesCurrent(r)' /\ ~At(r, "exchange", "create")'
        /\ req'[r].at # "create"
    BY <2>1, EndOwesNothing
  <2> QED BY <1>3, <2>1, <2>2, OAuthAsks
<1>4. CASE CreateRequest(r)
  <2> DEFINE new == [code |-> 0, is |-> "open"]
  <2>1. asked' = Append(asked, new) /\ new \in Row /\ new.is = "open"
    BY <1>1, <1>4 DEF CreateRequest
  <2> HIDE DEF new
  <2>2. /\ asked' \in Seq(Row) /\ DOMAIN asked \subseteq DOMAIN asked'
        /\ \A a \in DOMAIN asked' : (a \in DOMAIN asked /\ asked'[a] = asked[a]) \/ asked'[a] = new
    BY <1>2, <2>1
  <2> QED BY <1>3, <1>4, <2>1, <2>2 DEF CreateRequest
<1>5. CASE UpdateRequest(r)
  <2> DEFINE new == [code |-> drawn', is |-> "coded"]
             a == req[r].a
             Row2 == [code : 0..drawn', is : {"open", "coded", "gone"}]
  <2>1. drawn' = drawn + 1 /\ new \in Row2 /\ new.code = drawn'
    BY <1>1, <1>5 DEF UpdateRequest
  <2>2. asked' = asked \/ asked' = [asked EXCEPT ![a] = new]
    BY <1>5 DEF UpdateRequest
  <2>3. Row \subseteq Row2
    BY <1>1, <2>1
  <2> HIDE DEF new, a, Row, Row2
  <2>4. /\ asked' \in [DOMAIN asked -> Row2] /\ DOMAIN asked' = DOMAIN asked
        /\ \A x \in DOMAIN asked' : asked'[x] = asked[x] \/ asked'[x] = new
    BY <1>2, <2>1, <2>2, <2>3
  <2>5. asked' \in Seq(Row2)
    BY <1>2, <2>4
  <2> QED BY <1>3, <1>5, <2>1, <2>4, <2>5 DEF UpdateRequest, Row2
<1>6. CASE DeleteRequest(r)
  <2> DEFINE a == req[r].a
  <2>1. asked' = [asked EXCEPT ![a].is = "gone"]
    BY <1>6 DEF DeleteRequest
  <2>2. \A x \in DOMAIN asked : [asked[x] EXCEPT !.is = "gone"] \in Row
                              /\ [asked[x] EXCEPT !.is = "gone"].is = "gone"
    BY <1>2
  <2>3. /\ asked' \in [DOMAIN asked -> Row] /\ DOMAIN asked' = DOMAIN asked
        /\ \A x \in DOMAIN asked' : asked'[x] = asked[x] \/ asked'[x].is = "gone"
    BY <1>2, <2>1, <2>2
  <2>4. asked' \in Seq(Row)
    BY <1>2, <2>3
  <2> QED BY <1>3, <1>6, <2>3, <2>4 DEF DeleteRequest
<1>7. CASE ConsumeRequestCode(r)
  <2> DEFINE c == req[r].code
             step == IF Coded(c) = {} THEN "find" ELSE "create"
  <2>1. /\ asked' = [x \in DOMAIN asked |->
                       IF x \in Coded(c) THEN [asked[x] EXCEPT !.is = "gone"] ELSE asked[x]]
        /\ To(r, step) /\ UNCHANGED <<tokens, used, device, drawn, taken>>
        /\ At(r, "exchange", "start")
    BY <1>7 DEF ConsumeRequestCode
  <2>2. \A x \in DOMAIN asked : [asked[x] EXCEPT !.is = "gone"] \in Row
                              /\ [asked[x] EXCEPT !.is = "gone"].is = "gone"
    BY <1>2
  <2>3. /\ asked' \in [DOMAIN asked -> Row] /\ DOMAIN asked' = DOMAIN asked
        /\ \A x \in DOMAIN asked' : \/ asked'[x] = asked[x] /\ x \notin Coded(c)
                                    \/ asked'[x].is = "gone"
    BY <1>2, <2>1, <2>2
  <2>4. asked' \in Seq(Row)
    BY <1>2, <2>3
  <2>5. step \in Steps /\ step # "rotate" /\ (step = "create" => Coded(c) # {})
    BY DEF Steps
  <2> HIDE DEF c, step
  <2>6. /\ Running(r) /\ req[r].op = "exchange" /\ c \in 1..drawn
        /\ {"op", "at", "code", "tid"} \subseteq DOMAIN req[r]
    BY <1>1, <2>1 DEF At, Running, OAuthCarries, RequestShape, c
  <2>7. Moves(r) /\ OAuthCarries(r)' /\ req'[r].op = req[r].op /\ req'[r].at = step
    BY <1>1, <2>1, <2>3, <2>5, <2>6, OAuthGoesOn
  <2>8. req'[r].code = c
    BY <2>1, <2>5, <2>6, ToIs DEF c
  <2>9. RotatesCurrent(r)'
    BY <2>5, <2>7 DEF RotatesCurrent, At
  <2>10. At(r, "exchange", "create")' =>
           /\ Coded(req'[r].code) # {}
           /\ \A x \in DOMAIN asked' : asked'[x].is = "coded" => asked'[x].code # req'[r].code
    BY <2>3, <2>5, <2>7, <2>8 DEF At, Coded
  <2>11. \A x \in DOMAIN asked' : asked'[x].is = "coded" =>
           x \in DOMAIN asked /\ asked[x].is = "coded" /\ asked'[x].code = asked[x].code
    BY <2>3
  <2>12. OAuthInv'
    BY <2>1, <2>3, <2>4, <2>6, <2>7, <2>8, <2>9, <2>10, <2>11, OAuthAsks
  <2>13. req'[r].op \in OAuthOps
    BY <2>6, <2>7 DEF OAuthOps
  <2> QED BY <2>7, <2>12, <2>13
<1> QED BY <1>4, <1>5, <1>6, <1>7

LEMMA OAuthExpires ==
  ASSUME RequestShape, OAuthInv, RemoveOldExpired
  PROVE  OAuthInv' /\ RequestShape' /\ req' = req
<1> DEFINE Row == [code : 0..drawn, is : {"open", "coded", "gone"}]
<1>1. PICK a \in DOMAIN asked : asked' = [asked EXCEPT ![a].is = "gone"]
  BY DEF RemoveOldExpired
<1>2. asked \in [DOMAIN asked -> Row] /\ \A R, f : f \in [DOMAIN asked -> R] => f \in Seq(R)
  BY AskedType DEF OAuthInv
<1>3. \A x \in DOMAIN asked : [asked[x] EXCEPT !.is = "gone"] \in Row
                            /\ [asked[x] EXCEPT !.is = "gone"].is = "gone"
  BY <1>2
<1>4. /\ asked' \in [DOMAIN asked -> Row] /\ DOMAIN asked' = DOMAIN asked
      /\ \A x \in DOMAIN asked' : asked'[x] = asked[x] \/ asked'[x].is = "gone"
  BY <1>1, <1>2, <1>3
<1>5. asked' \in Seq(Row)
  BY <1>2, <1>4
<1>6. UNCHANGED <<tokens, used, device, drawn, taken, req>>
  BY DEF RemoveOldExpired
<1>7. Moves(0) /\ 0 \notin Requests
  BY <1>6 DEF Moves, RequestShape, Requests
<1>8. OAuthInv'
  BY <1>4, <1>5, <1>6, <1>7, OAuthAsks
<1> QED BY <1>6, <1>7, <1>8 DEF Moves

LEMMA TokensType ==
  ASSUME OAuthShape
  PROVE  /\ DOMAIN tokens = 1..Len(tokens) /\ Len(tokens) \in Nat
         /\ tokens \in [DOMAIN tokens -> TokenRow \cup {None}]
         /\ \A R, f : f \in [DOMAIN tokens -> R] => f \in Seq(R)
<1>1. tokens \in Seq(TokenRow \cup {None})
  BY DEF OAuthShape
<1>2. DOMAIN tokens = 1..Len(tokens) /\ Len(tokens) \in Nat
  BY <1>1
<1>3. ASSUME NEW S, tokens \in Seq(S) PROVE tokens \in [DOMAIN tokens -> S]
  BY <1>3
<1>4. \A R, f : f \in [1..Len(tokens) -> R] => f \in Seq(R)
  BY <1>2
<1> QED BY <1>1, <1>2, <1>3, <1>4

\* What was drawn is more than all there is.
LEMMA DrawnIsNew ==
  ASSUME OAuthInv, drawn' = drawn + 1
  PROVE  /\ drawn \in Nat /\ drawn' \in 1..drawn'
         /\ 1..drawn \subseteq 1..drawn' /\ 0..drawn \subseteq 0..drawn'
         /\ drawn' \notin 1..drawn /\ drawn' \notin 0..drawn
         /\ \A op : Untaken(<<op, drawn + 1>>)
         /\ \A r \in Requests : At(r, "refresh", "rotate") => req[r].tid # drawn'
<1>1. drawn \in Nat
  BY OAuthTypes DEF OAuthInv
<1>2. drawn' \notin 1..drawn /\ drawn' \notin 0..drawn
  BY <1>1
<1>3. \A op : Untaken(<<op, drawn + 1>>)
  <2>1. \A g \in taken : g.by \in {"code", "refresh"} \X (0..drawn)
    BY DEF OAuthInv, OAuthShape, Exchanges
  <2> QED BY <1>2, <2>1 DEF Untaken
<1>4. \A r \in Requests : At(r, "refresh", "rotate") => req[r].tid # drawn'
  BY <1>2 DEF OAuthInv, OAuthCarries, At, Running
<1> QED BY <1>1, <1>2, <1>3, <1>4

\* What a request carries is still there after a step that only adds.
LEMMA StillCarries ==
  ASSUME OAuthInv, NEW r \in Requests, Moves(r), req'[r].at = "end", asked' = asked,
         drawn' \in {drawn, drawn + 1}
  PROVE  \A s \in Requests : OAuthCarries(s)'
<1>1. drawn \in Nat
  BY OAuthTypes DEF OAuthInv
<1>2. 1..drawn \subseteq 1..drawn' /\ 0..drawn \subseteq 0..drawn'
  BY <1>1
<1>3. OAuthCarries(r)'
  BY EndOwesNothing
<1>4. ASSUME NEW s \in Requests \ {r} PROVE OAuthCarries(s)'
  <2>1. OAuthCarries(s) /\ req'[s] = req[s]
    BY DEF OAuthInv, Moves
  <2> QED BY <1>2, <2>1 DEF OAuthCarries, Running
<1> QED BY <1>3, <1>4

\* Rows go, with the refresh tokens they have had.
LEMMA OAuthDrops ==
  ASSUME RequestShape, OAuthInv, NEW r \in Requests, NEW S, Drop(S), End(r),
         UNCHANGED <<asked, device, drawn, taken>>
  PROVE  OAuthInv' /\ Moves(r) /\ req'[r].at = "end"
<1>1. Moves(r) /\ req'[r].at = "end" /\ RotatesCurrent(r)' /\ ~At(r, "exchange", "create")'
  BY EndIs, EndOwesNothing DEF Moves
<1>2. /\ DOMAIN tokens' = DOMAIN tokens
      /\ \A i \in DOMAIN tokens : tokens'[i] = IF i \in S THEN None ELSE tokens[i]
  BY DEF Drop
<1>3. Rows' = Rows \ S /\ \A i \in Rows' : tokens'[i] = tokens[i]
  BY <1>2 DEF Rows
<1>4. tokens' \in Seq(TokenRow \cup {None})
  <2>1. tokens' \in [DOMAIN tokens -> TokenRow \cup {None}]
    BY TokensType DEF OAuthInv, Drop
  <2> QED BY <2>1, TokensType DEF OAuthInv
<1>5. used' = {u \in used : u[2] \notin S}
  BY DEF Drop
<1>6. used' \subseteq (1..drawn) \X Rows'
  BY <1>3, <1>5 DEF OAuthInv, OAuthShape
<1>7. OAuthShape'
  BY <1>2, <1>4, <1>6 DEF OAuthInv, OAuthShape, TokenRow, Exchanges
<1>8. \A s \in Requests : OAuthCarries(s)'
  BY <1>1, StillCarries
<1>9. ASSUME NEW s \in Requests PROVE RotatesCurrent(s)'
  <2>1. CASE s # r
    <3>1. req'[s] = req[s] /\ RotatesCurrent(s)
      BY <1>1, <2>1 DEF Moves, OAuthInv
    <3> QED BY <1>3, <3>1 DEF RotatesCurrent, At
  <2> QED BY <1>1, <2>1
<1>10. CodesOnce'
  <2>1. \A s \in Requests : \A c : Creating(s, c)' => s # r /\ Creating(s, c)
    BY <1>1 DEF Creating, At, Moves
  <2>2. \A s \in Requests : At(s, "exchange", "create")' =>
          s # r /\ At(s, "exchange", "create") /\ req'[s] = req[s]
    BY <1>1 DEF At, Moves
  <2>3. \A by : Untaken(by)' <=> Untaken(by)
    BY DEF Untaken
  <2>4. ASSUME NEW a \in DOMAIN asked, asked[a].is = "coded"
        PROVE  Untaken(<<"code", asked[a].code>>)' /\ \A s \in Requests : ~Creating(s, asked[a].code)'
    BY <2>1, <2>3, <2>4 DEF OAuthInv, CodesOnce
  <2>5. ASSUME NEW s \in Requests PROVE CodeIsItsOwn(s)'
    BY <2>1, <2>2, <2>3 DEF OAuthInv, CodesOnce, CodeIsItsOwn
  <2> QED BY <2>4, <2>5 DEF CodesOnce
<1>11. RowsApart'
  BY <1>3 DEF OAuthInv, RowsApart, Untaken
<1>12. TakenOnce'
  BY DEF OAuthInv, TakenOnce
<1>13. ReplayRecognised'
  <2> SUFFICES ASSUME NEW g \in taken, g.row \in Rows'
               PROVE  tokens'[g.row].current = g.refresh \/ <<g.refresh, g.row>> \in used'
    BY DEF ReplayRecognised
  <2>1. g.row \in Rows /\ g.row \notin S /\ tokens'[g.row] = tokens[g.row]
    BY <1>3
  <2> QED BY <1>5, <2>1 DEF OAuthInv, ReplayRecognised
<1> QED BY <1>1, <1>7, <1>8, <1>9, <1>10, <1>11, <1>12, <1>13 DEF OAuthInv

LEMMA OAuthCreates ==
  ASSUME RequestShape, OAuthInv, NEW r \in Requests, CreateToken(r)
  PROVE  OAuthInv' /\ Moves(r) /\ req'[r].at = "end"
<1> DEFINE code == req[r].code
           n == Len(tokens) + 1
           g0 == [by |-> <<"code", code>>, refresh |-> drawn', row |-> n]
<1>1. Moves(r) /\ req'[r].at = "end" /\ RotatesCurrent(r)' /\ ~At(r, "exchange", "create")'
  BY EndIs, EndOwesNothing DEF Moves, CreateToken
<1>2. PICK new : /\ tokens' = Append(tokens, new)
                 /\ new \in [tid : {drawn'}, code : {code}, current : {drawn', None}]
                 /\ \/ taken' = taken \cup {g0} /\ new.current = drawn'
                    \/ taken' = taken
  BY DEF CreateToken
<1>3. drawn' = drawn + 1 /\ UNCHANGED <<asked, used, device>> /\ At(r, "exchange", "create")
  BY DEF CreateToken
<1>4. /\ drawn \in Nat /\ drawn' \in 1..drawn' /\ 1..drawn \subseteq 1..drawn'
      /\ 0..drawn \subseteq 0..drawn' /\ drawn' \notin 1..drawn
      /\ \A op : Untaken(<<op, drawn + 1>>)
      /\ \A s \in Requests : At(s, "refresh", "rotate") => req[s].tid # drawn'
  BY <1>3, DrawnIsNew
<1>5. code \in 1..drawn /\ CodeIsItsOwn(r)
  BY <1>3 DEF OAuthInv, OAuthCarries, At, Running, CodesOnce
<1>6. g0.by = <<"code", code>> /\ g0.refresh = drawn' /\ g0.row = n
  OBVIOUS
<1>7. /\ DOMAIN tokens = 1..Len(tokens) /\ Len(tokens) \in Nat
      /\ tokens \in [DOMAIN tokens -> TokenRow \cup {None}]
  BY TokensType DEF OAuthInv
<1>8. TokenRow \subseteq TokenRow' /\ new \in TokenRow'
  BY <1>2, <1>4, <1>5 DEF TokenRow
<1>9. new.tid = drawn' /\ new.current \in {drawn', None}
  BY <1>2
<1> HIDE DEF code, n, g0
<1>10. /\ tokens' \in Seq(TokenRow' \cup {None})
       /\ DOMAIN tokens' = DOMAIN tokens \cup {n} /\ n \notin DOMAIN tokens
       /\ tokens'[n] = new /\ \A i \in DOMAIN tokens : tokens'[i] = tokens[i]
  <2>1. tokens \in Seq(TokenRow' \cup {None})
    <3>1. tokens \in [1..Len(tokens) -> TokenRow' \cup {None}]
      BY <1>7, <1>8
    <3> QED BY <1>7, <3>1
  <2> QED BY <1>2, <1>7, <1>8, <2>1 DEF n
<1>11. Rows \subseteq Rows' /\ Rows' \subseteq Rows \cup {n}
  BY <1>10 DEF Rows
<1>12. \A i \in Rows : /\ tokens'[i] = tokens[i] /\ tokens[i].tid \in 1..drawn
                       /\ tokens[i].current # None => tokens[i].current \in 1..drawn
  BY <1>10, OAuthTypes DEF OAuthInv, Rows
<1>13. g0 \in Exchanges'
  <2>1. <<"code", code>> \in {"code", "refresh"} \X (0..drawn')
    BY <1>4, <1>5
  <2>2. n \in DOMAIN tokens'
    BY <1>10
  <2> QED BY <1>4, <2>1, <2>2 DEF Exchanges, g0
<1>14. OAuthShape'
  <2>1. Exchanges \subseteq Exchanges'
    BY <1>4, <1>10 DEF Exchanges
  <2>2. taken' \subseteq Exchanges'
    BY <1>2, <1>13, <2>1 DEF OAuthInv, OAuthShape
  <2>3. used' \subseteq (1..drawn') \X Rows'
    BY <1>3, <1>4, <1>11 DEF OAuthInv, OAuthShape
  <2>4. asked \in Seq([code : 0..drawn', is : {"open", "coded", "gone"}])
    <3> DEFINE R == [code : 0..drawn, is : {"open", "coded", "gone"}]
               R2 == [code : 0..drawn', is : {"open", "coded", "gone"}]
    <3>1. R \subseteq R2
      BY <1>4
    <3>2. asked \in [DOMAIN asked -> R] /\ \A X, f : f \in [DOMAIN asked -> X] => f \in Seq(X)
      BY AskedType DEF OAuthInv
    <3> HIDE DEF R, R2
    <3>3. asked \in [DOMAIN asked -> R2]
      BY <3>1, <3>2
    <3> QED BY <3>2, <3>3 DEF R2
  <2> QED BY <1>3, <1>4, <1>10, <2>2, <2>3, <2>4 DEF OAuthInv, OAuthShape
<1>15. \A s \in Requests : OAuthCarries(s)'
  BY <1>1, <1>3, StillCarries
<1>16. ASSUME NEW s \in Requests PROVE RotatesCurrent(s)'
  <2>1. CASE s # r
    <3>1. req'[s] = req[s] /\ RotatesCurrent(s)
      BY <1>1, <2>1 DEF Moves, OAuthInv
    <3> QED BY <1>4, <1>9, <1>10, <1>11, <1>12, <3>1 DEF RotatesCurrent, At
  <2> QED BY <1>1, <2>1
<1>17. \A by : by # <<"code", code>> /\ Untaken(by) => Untaken(by)'
  BY <1>2, <1>6 DEF Untaken
<1>18. CodesOnce'
  <2>1. \A s \in Requests : \A c : Creating(s, c)' => s # r /\ Creating(s, c)
    BY <1>1 DEF Creating, At, Moves
  <2>2. \A s \in Requests : At(s, "exchange", "create")' =>
          s # r /\ At(s, "exchange", "create") /\ req'[s] = req[s]
    BY <1>1 DEF At, Moves
  <2>3. Creating(r, code)
    BY <1>3 DEF Creating, code
  <2>4. ASSUME NEW a \in DOMAIN asked, asked[a].is = "coded", NEW c, c = asked[a].code
        PROVE  Untaken(<<"code", c>>)' /\ \A s \in Requests : ~Creating(s, c)'
    <3>1. Untaken(<<"code", c>>) /\ \A s \in Requests : ~Creating(s, c)
      BY <2>4 DEF OAuthInv, CodesOnce
    <3>2. <<"code", c>> # <<"code", code>>
      BY <2>3, <3>1
    <3>3. Untaken(<<"code", c>>)'
      BY <1>17, <3>1, <3>2
    <3> QED BY <2>1, <3>1, <3>3
  <2>5. ASSUME NEW s \in Requests PROVE CodeIsItsOwn(s)'
    <3> SUFFICES ASSUME At(s, "exchange", "create")'
                 PROVE  /\ Untaken(<<"code", req[s].code>>)'
                        /\ \A t \in Requests \ {s} : ~Creating(t, req[s].code)'
      BY <2>2 DEF CodeIsItsOwn
    <3>1. s # r /\ At(s, "exchange", "create") /\ req'[s] = req[s]
      BY <2>2
    <3>2. /\ Untaken(<<"code", req[s].code>>)
          /\ \A t \in Requests \ {s} : ~Creating(t, req[s].code)
      BY <3>1 DEF OAuthInv, CodesOnce, CodeIsItsOwn
    <3>3. <<"code", req[s].code>> # <<"code", code>>
      BY <2>3, <3>1, <3>2
    <3>4. ASSUME NEW c, c = req[s].code
          PROVE  Untaken(<<"code", c>>)' /\ \A t \in Requests \ {s} : ~Creating(t, c)'
      BY <1>17, <2>1, <3>2, <3>3, <3>4
    <3> QED BY <3>1, <3>4
  <2> QED BY <1>3, <2>4, <2>5 DEF CodesOnce
<1>19. RowsApart'
  <2>1. \A i \in Rows' : i = n \/ i \in Rows
    BY <1>11
  <2>2. \A i, j \in Rows' : tokens'[i].tid = tokens'[j].tid => i = j
    BY <1>4, <1>9, <1>10, <1>12, <2>1 DEF OAuthInv, RowsApart
  <2>3. \A i, j \in Rows' : tokens'[i].current = tokens'[j].current /\ tokens'[i].current # None => i = j
    BY <1>4, <1>9, <1>10, <1>12, <2>1 DEF OAuthInv, RowsApart
  <2>4. ASSUME NEW i \in Rows', NEW t, t = tokens'[i].current, t # None
        PROVE  Untaken(<<"refresh", t>>)'
    <3>1. Untaken(<<"refresh", t>>)
      <4>1. CASE i = n
        BY <1>3, <1>4, <1>9, <1>10, <2>4, <4>1
      <4>2. CASE i \in Rows
        BY <1>12, <2>4, <4>2 DEF OAuthInv, RowsApart
      <4> QED BY <2>1, <4>1, <4>2
    <3>2. <<"refresh", t>> # <<"code", code>>
      OBVIOUS
    <3> QED BY <1>17, <3>1, <3>2
  <2> QED BY <2>2, <2>3, <2>4 DEF RowsApart
<1>20. TakenOnce'
  BY <1>2, <1>3, <1>5, <1>6 DEF OAuthInv, TakenOnce, CodeIsItsOwn, Untaken, code
<1>21. ReplayRecognised'
  <2>1. \A g \in taken : g.row \in DOMAIN tokens
    BY OAuthTypes DEF OAuthInv
  <2>2. \A g \in taken : g.row \in Rows' => g.row \in Rows
    BY <1>10, <1>11, <2>1
  <2> QED BY <1>2, <1>3, <1>6, <1>10, <1>12, <2>2 DEF OAuthInv, ReplayRecognised
<1> QED BY <1>1, <1>14, <1>15, <1>16, <1>18, <1>19, <1>20, <1>21 DEF OAuthInv

\* The rotation itself: the id of the row stands for the refresh token that was
\* brought, so what is taken is current, and was not taken before.
LEMMA OAuthRotates ==
  ASSUME RequestShape, OAuthInv, NEW r \in Requests, At(r, "refresh", "rotate"), End(r),
         NEW i \in Rows, tokens[i].tid = req[r].tid, tokens[i].current # None,
         drawn' = drawn + 1,
         tokens' = [tokens EXCEPT ![i].tid = drawn', ![i].current = drawn'],
         used' = used \cup {<<tokens[i].current, i>>},
         taken' = taken \cup {[by |-> <<"refresh", req[r].token>>, refresh |-> drawn', row |-> i]},
         UNCHANGED <<asked, device>>
  PROVE  OAuthInv' /\ Moves(r) /\ req'[r].at = "end"
<1> DEFINE t0 == req[r].token
           g0 == [by |-> <<"refresh", t0>>, refresh |-> drawn', row |-> i]
           new == [tokens[i] EXCEPT !.tid = drawn', !.current = drawn']
<1>1. Moves(r) /\ req'[r].at = "end" /\ RotatesCurrent(r)' /\ ~At(r, "exchange", "create")'
  BY EndIs, EndOwesNothing DEF Moves
<1>2. tokens[i].current = t0 /\ t0 \in 1..drawn
  BY DEF OAuthInv, RotatesCurrent, OAuthCarries, At, Running
<1>3. /\ drawn \in Nat /\ drawn' \in 1..drawn' /\ 1..drawn \subseteq 1..drawn'
      /\ 0..drawn \subseteq 0..drawn' /\ drawn' \notin 1..drawn
      /\ \A op : Untaken(<<op, drawn + 1>>)
      /\ \A s \in Requests : At(s, "refresh", "rotate") => req[s].tid # drawn'
  BY DrawnIsNew
<1>4. g0.by = <<"refresh", t0>> /\ g0.refresh = drawn' /\ g0.row = i
  OBVIOUS
<1>5. /\ DOMAIN tokens = 1..Len(tokens) /\ Len(tokens) \in Nat
      /\ tokens \in [DOMAIN tokens -> TokenRow \cup {None}]
      /\ \A R, f : f \in [DOMAIN tokens -> R] => f \in Seq(R)
  BY TokensType DEF OAuthInv
<1>6. i \in DOMAIN tokens /\ tokens[i] \in TokenRow
  BY <1>5 DEF Rows
<1>7. TokenRow \subseteq TokenRow' /\ new \in TokenRow' /\ new.tid = drawn' /\ new.current = drawn'
  BY <1>3, <1>6 DEF TokenRow
<1>8. tokens' = [tokens EXCEPT ![i] = new]
  BY <1>6
<1>9. taken' = taken \cup {g0} /\ used' = used \cup {<<t0, i>>}
  BY <1>2
<1> HIDE DEF t0, g0, new
<1>10. /\ DOMAIN tokens' = DOMAIN tokens /\ tokens'[i] = new
       /\ \A j \in DOMAIN tokens : j # i => tokens'[j] = tokens[j]
  BY <1>6, <1>8
<1>11. Rows' = Rows /\ \A j \in Rows : j # i => tokens'[j] = tokens[j]
  <2>1. TokenRow' \subseteq [tid : Nat, code : Nat, current : Nat \cup {None}]
    BY <1>3 DEF TokenRow
  <2>2. new # None
    BY <1>7, <2>1, NoneAssumption
  <2> QED BY <1>6, <1>10, <2>2 DEF Rows
<1>12. \A j \in Rows : /\ tokens[j].tid \in 1..drawn
                       /\ tokens[j].current # None => tokens[j].current \in 1..drawn
  BY OAuthTypes DEF OAuthInv
<1>13. g0 \in Exchanges'
  <2>1. <<"refresh", t0>> \in {"code", "refresh"} \X (0..drawn')
    BY <1>2, <1>3
  <2> QED BY <1>3, <1>6, <1>10, <2>1 DEF Exchanges, g0
<1>14. OAuthShape'
  <2>1. Exchanges \subseteq Exchanges'
    BY <1>3, <1>10 DEF Exchanges
  <2>2. taken' \subseteq Exchanges'
    BY <1>9, <1>13, <2>1 DEF OAuthInv, OAuthShape
  <2>3. used' \subseteq (1..drawn') \X Rows'
    BY <1>2, <1>3, <1>9, <1>11 DEF OAuthInv, OAuthShape
  <2>4. asked \in Seq([code : 0..drawn', is : {"open", "coded", "gone"}])
    <3> DEFINE R == [code : 0..drawn, is : {"open", "coded", "gone"}]
               R2 == [code : 0..drawn', is : {"open", "coded", "gone"}]
    <3>1. R \subseteq R2
      BY <1>3
    <3>2. asked \in [DOMAIN asked -> R] /\ \A X, f : f \in [DOMAIN asked -> X] => f \in Seq(X)
      BY AskedType DEF OAuthInv
    <3> HIDE DEF R, R2
    <3>3. asked \in [DOMAIN asked -> R2]
      BY <3>1, <3>2
    <3> QED BY <3>2, <3>3 DEF R2
  <2>5. tokens' \in Seq(TokenRow' \cup {None})
    <3>1. tokens' \in [DOMAIN tokens -> TokenRow' \cup {None}]
      BY <1>5, <1>7, <1>8
    <3> QED BY <1>5, <3>1
  <2> QED BY <1>3, <2>2, <2>3, <2>4, <2>5 DEF OAuthInv, OAuthShape
<1>15. \A s \in Requests : OAuthCarries(s)'
  BY <1>1, StillCarries
<1>16. ASSUME NEW s \in Requests PROVE RotatesCurrent(s)'
  <2>1. CASE s # r
    <3>1. req'[s] = req[s] /\ RotatesCurrent(s)
      BY <1>1, <2>1 DEF Moves, OAuthInv
    <3>2. ASSUME At(s, "refresh", "rotate"), NEW j \in Rows, tokens'[j].tid = req[s].tid
          PROVE  tokens'[j].current = req[s].token
      <4>1. j # i
        BY <1>3, <1>7, <1>10, <3>2
      <4>2. tokens'[j] = tokens[j]
        BY <1>11, <4>1
      <4> QED BY <3>1, <3>2, <4>2 DEF RotatesCurrent
    <3>3. At(s, "refresh", "rotate")' => At(s, "refresh", "rotate")
      BY <3>1 DEF At
    <3>4. \A j \in Rows : At(s, "refresh", "rotate") /\ tokens'[j].tid = req[s].tid =>
            tokens'[j].current = req[s].token
      BY <3>2
    <3> QED BY <1>11, <3>1, <3>3, <3>4 DEF RotatesCurrent
  <2> QED BY <1>1, <2>1
<1>17. \A by : by # <<"refresh", t0>> /\ Untaken(by) => Untaken(by)'
  BY <1>4, <1>9 DEF Untaken
<1>18. CodesOnce'
  <2>1. \A s \in Requests : \A c : Creating(s, c)' => s # r /\ Creating(s, c)
    BY <1>1 DEF Creating, At, Moves
  <2>2. \A s \in Requests : At(s, "exchange", "create")' =>
          s # r /\ At(s, "exchange", "create") /\ req'[s] = req[s]
    BY <1>1 DEF At, Moves
  <2>3. \A c : Untaken(<<"code", c>>) => Untaken(<<"code", c>>)'
    <3>1. \A c : <<"code", c>> # <<"refresh", t0>>
      OBVIOUS
    <3> QED BY <1>17, <3>1
  <2>4. ASSUME NEW a \in DOMAIN asked, asked[a].is = "coded", NEW c, c = asked[a].code
        PROVE  Untaken(<<"code", c>>)' /\ \A s \in Requests : ~Creating(s, c)'
    BY <2>1, <2>3, <2>4 DEF OAuthInv, CodesOnce
  <2>5. ASSUME NEW s \in Requests PROVE CodeIsItsOwn(s)'
    BY <2>1, <2>2, <2>3 DEF OAuthInv, CodesOnce, CodeIsItsOwn
  <2> QED BY <2>4, <2>5 DEF CodesOnce
<1>19. RowsApart'
  <2> DEFINE tid(j) == tokens'[j].tid
             cur(j) == tokens'[j].current
  <2>1. tid(i) = drawn' /\ cur(i) = drawn'
    BY <1>7, <1>10
  <2>2. \A j \in Rows : j # i => tid(j) = tokens[j].tid /\ cur(j) = tokens[j].current
    BY <1>11
  <2> HIDE DEF tid, cur
  <2>3. ASSUME NEW j \in Rows, j # i
        PROVE  tid(j) # drawn' /\ (cur(j) # None => cur(j) # drawn')
    <3>1. tid(j) \in 1..drawn /\ (cur(j) # None => cur(j) \in 1..drawn)
      BY <1>12, <2>2, <2>3
    <3> QED BY <1>3, <3>1
  <2>4. \A j, k \in Rows : tid(j) = tid(k) => j = k
    BY <2>1, <2>2, <2>3 DEF OAuthInv, RowsApart
  <2>5. \A j, k \in Rows : cur(j) = cur(k) /\ cur(j) # None => j = k
    BY <2>1, <2>2, <2>3 DEF OAuthInv, RowsApart
  <2>6. ASSUME NEW j \in Rows', NEW t, t = tokens'[j].current, t # None
        PROVE  Untaken(<<"refresh", t>>)'
    <3>1. CASE j = i
      <4>1. t = drawn + 1 /\ t # t0
        BY <1>2, <1>3, <1>7, <1>10, <2>6, <3>1
      <4>2. <<"refresh", t>> # <<"refresh", t0>> /\ Untaken(<<"refresh", t>>)
        BY <1>3, <4>1
      <4> QED BY <1>17, <4>2
    <3>2. CASE j # i
      <4>1. j \in Rows /\ t = tokens[j].current
        BY <1>11, <2>6, <3>2
      <4>2. t # t0 /\ Untaken(<<"refresh", t>>)
        BY <1>2, <2>6, <3>2, <4>1 DEF OAuthInv, RowsApart
      <4>3. <<"refresh", t>> # <<"refresh", t0>>
        BY <4>2
      <4> QED BY <1>17, <4>2, <4>3
    <3> QED BY <3>1, <3>2
  <2> QED BY <1>11, <2>4, <2>5, <2>6 DEF RowsApart, tid, cur
<1>20. TakenOnce'
  <2>1. Untaken(<<"refresh", t0>>)
    BY <1>2 DEF OAuthInv, RowsApart
  <2> QED BY <1>4, <1>9, <2>1 DEF OAuthInv, TakenOnce, Untaken
<1>21. ReplayRecognised'
  <2> SUFFICES ASSUME NEW g \in taken', g.row \in Rows'
               PROVE  tokens'[g.row].current = g.refresh \/ <<g.refresh, g.row>> \in used'
    BY DEF ReplayRecognised
  <2>1. CASE g = g0
    BY <1>4, <1>7, <1>10, <2>1
  <2>2. CASE g \in taken
    <3>1. tokens[g.row].current = g.refresh \/ <<g.refresh, g.row>> \in used
      BY <1>11, <2>2 DEF OAuthInv, ReplayRecognised
    <3> QED BY <1>2, <1>9, <1>11, <3>1
  <2> QED BY <1>9, <2>1, <2>2
<1> QED BY <1>1, <1>14, <1>15, <1>16, <1>18, <1>19, <1>20, <1>21 DEF OAuthInv

\* Every step of the OAuth tables keeps what they rest on.
LEMMA OAuthSteps ==
  ASSUME RequestShape, OAuthInv, NEW r \in Requests, OAuthStep(r)
  PROVE  OAuthInv' /\ Moves(r) /\ (req'[r].op \in OAuthOps \/ req'[r].at = "end")
<1>1. CASE RotateToken(r)
  <2>1. End(r) /\ At(r, "refresh", "rotate")
    BY <1>1 DEF RotateToken
  <2>2. CASE UNCHANGED <<tokens, used, drawn, taken>>
    <3>1. Moves(r) /\ req'[r].at = "end"
      BY <2>1, EndIs DEF Moves
    <3>2. UNCHANGED <<asked, tokens, used, drawn, taken>> /\ device' \in BOOLEAN
      BY <1>1, <2>2 DEF RotateToken, OAuthInv, OAuthShape
    <3> QED BY <3>1, <3>2, EndOwesNothing, OAuthLooks
  <2>3. CASE \E i \in Rows :
               /\ tokens[i].tid = req[r].tid /\ tokens[i].current # None
               /\ drawn' = drawn + 1
               /\ tokens' = [tokens EXCEPT ![i].tid = drawn', ![i].current = drawn']
               /\ used' = used \cup {<<tokens[i].current, i>>}
               /\ taken' = taken \cup {[by |-> <<"refresh", req[r].token>>, refresh |-> drawn', row |-> i]}
               /\ UNCHANGED <<asked, device>>
    BY <2>1, <2>3, OAuthRotates
  <2> QED BY <1>1, <2>2, <2>3 DEF RotateToken
<1>2. CASE DeleteToken(r) \/ Takedown(r)
  <2>1. End(r) /\ (\E S : Drop(S)) /\ UNCHANGED <<asked, device, drawn, taken>>
    BY <1>2 DEF DeleteToken, Takedown
  <2> QED BY <2>1, OAuthDrops
<1> QED BY <1>1, <1>2, OAuthReads, OAuthRequests, OAuthCreates DEF OAuthStep

\* A step that is not about the OAuth tables.
LEMMA OAuthAside ==
  ASSUME OAuthInv, NEW r \in Requests, Moves(r), UNCHANGED <<asked, tokens, used, drawn, taken>>,
         device' \in BOOLEAN, req'[r].op \notin OAuthOps \/ req'[r].at = "end"
  PROVE  OAuthInv'
<1>1. CASE req'[r].at = "end"
  BY <1>1, EndOwesNothing, OAuthLooks
<1>2. CASE req'[r].op \notin OAuthOps
  <2>1. req'[r].op \notin {"grant", "deny", "exchange", "refresh"}
    BY <1>2 DEF OAuthOps
  <2>2. OAuthCarries(r)' /\ RotatesCurrent(r)' /\ ~At(r, "exchange", "create")'
    BY <2>1 DEF OAuthCarries, RotatesCurrent, At
  <2> QED BY <2>2, OAuthLooks
<1> QED BY <1>1, <1>2
-----------------------------------------------------------------------------
(***************************************************************************)
(* The mailed tokens.                                                      *)
(***************************************************************************)
LEMMA PurposesAre ==
  /\ PurposeSet = {"confirm", "reset", "delete", "plc", "update"}
  /\ DOMAIN Purposes = 1..5
  /\ Purposes[1] = "confirm" /\ Purposes[2] = "reset" /\ Purposes[3] = "delete"
  /\ Purposes[4] = "plc" /\ Purposes[5] = "update"
<1>1. /\ DOMAIN Purposes = 1..5
      /\ Purposes[1] = "confirm" /\ Purposes[2] = "reset" /\ Purposes[3] = "delete"
      /\ Purposes[4] = "plc" /\ Purposes[5] = "update"
  BY DEF Purposes
<1>2. \A i \in 1..5 : i = 1 \/ i = 2 \/ i = 3 \/ i = 4 \/ i = 5
  OBVIOUS
<1>3. {1, 2, 3, 4, 5} \subseteq 1..5
  OBVIOUS
<1>4. PurposeSet = {"confirm", "reset", "delete", "plc", "update"}
  BY <1>1, <1>2, <1>3 DEF PurposeSet
<1> QED BY <1>1, <1>4

MailOps == PurposeSet \cup {"mail", "adminEmail", "adminPassword"}

LEMMA OpsApart == \A op \in MailOps \cup {"return"} : op \notin OAuthOps
BY PurposesAre DEF MailOps, OAuthOps

\* A token is mailed for one purpose.
LEMMA MailedApart ==
  ASSUME MailShape, NEW p, NEW q, p # q
  PROVE  Mailed(p) \cap Mailed(q) = {}
BY DEF MailShape, Mailed

\* Tokens are only taken out, or marked as expired.
MailLess ==
  /\ mail' = [p \in PurposeSet |-> mail'[p]]
  /\ \A p \in PurposeSet : mail'[p] # None =>
       /\ mail[p] # None /\ mail'[p].n = mail[p].n
       /\ {"n", "old"} \subseteq DOMAIN mail'[p] /\ mail'[p].old \in BOOLEAN

LEMMA Lesser ==
  ASSUME MailShape
  PROVE  /\ mail' = mail => MailLess
         /\ mail' = Nothing => MailLess
         /\ \A p \in PurposeSet : mail' = Without(p) => MailLess /\ mail'[p] = None
         /\ \A p \in PurposeSet : mail[p] # None /\ mail' = [mail EXCEPT ![p].old = TRUE] => MailLess
<1>1. mail' = mail => MailLess
  BY DEF MailShape, MailLess
<1>2. mail' = Nothing => MailLess
  BY DEF Nothing, MailLess
<1>3. ASSUME NEW p \in PurposeSet, mail' = Without(p) PROVE MailLess /\ mail'[p] = None
  BY <1>3 DEF MailShape, Without, MailLess
<1>4. ASSUME NEW p \in PurposeSet, mail[p] # None, mail' = [mail EXCEPT ![p].old = TRUE]
      PROVE  MailLess
  <2> DEFINE old == [mail[p] EXCEPT !.old = TRUE]
  <2>1. {"n", "old"} \subseteq DOMAIN mail[p]
    BY <1>4 DEF MailShape
  <2>2. DOMAIN old = DOMAIN mail[p] /\ old["n"] = mail[p]["n"] /\ old["old"] = TRUE
    BY <2>1
  <2>3. mail' = [mail EXCEPT ![p] = old]
    BY <1>4 DEF MailShape
  <2> HIDE DEF old
  <2>4. mail' = [x \in PurposeSet |-> mail'[x]] /\ mail'[p] = old
        /\ \A x \in PurposeSet : x # p => mail'[x] = mail[x]
    BY <2>3 DEF MailShape
  <2>5. /\ mail[p] # None /\ mail'[p].n = mail[p].n
        /\ {"n", "old"} \subseteq DOMAIN mail'[p] /\ mail'[p].old \in BOOLEAN
    BY <1>4, <2>1, <2>2, <2>4
  <2>6. \A x \in PurposeSet : x # p /\ mail'[x] # None =>
          /\ mail[x] # None /\ mail'[x].n = mail[x].n
          /\ {"n", "old"} \subseteq DOMAIN mail'[x] /\ mail'[x].old \in BOOLEAN
    BY <2>4 DEF MailShape
  <2> QED BY <2>4, <2>5, <2>6 DEF MailLess
<1> QED BY <1>1, <1>2, <1>3, <1>4

\* What a step that mails nothing keeps.
LEMMA MailKeeps ==
  ASSUME MailInv, NEW r, Moves(r), sent' = sent, email' \in {email, email + 1}, MailLess,
         confirmed' \in BOOLEAN, raced' \in BOOLEAN, proven' \subseteq 1..email',
         \A x \in finished' \ finished :
           /\ \E m \in sent : m.n = x
           /\ \A p \in PurposeSet : mail'[p] # None => mail'[p].n # x,
         r \in Requests => MailCarries(r)' /\ TakenOut(r)'
  PROVE  /\ MailShape' /\ UsedIsGone'
         /\ \A s \in Requests : MailCarries(s)' /\ TakenOut(s)'
<1>1. email \in Nat \ {0} /\ email' \in Nat \ {0} /\ 1..email \subseteq 1..email'
  BY DEF MailInv, MailShape
<1>2. MailShape'
  <2>1. sent \subseteq [n : 1..Cardinality(sent), for : PurposeSet, to : 1..email']
    BY <1>1 DEF MailInv, MailShape
  <2>2. \A p \in PurposeSet : mail'[p] # None => mail'[p].n \in Mailed(p)'
    BY DEF MailInv, MailShape, MailLess, Mailed
  <2>3. finished' \subseteq {m.n : m \in sent'}
    BY DEF MailInv, MailShape
  <2> QED BY <1>1, <2>1, <2>2, <2>3 DEF MailInv, MailShape, MailLess
<1>3. UsedIsGone'
  BY DEF MailInv, UsedIsGone, MailLess
<1>4. ASSUME NEW s \in Requests, s # r PROVE MailCarries(s)' /\ TakenOut(s)'
  <2>1. req'[s] = req[s] /\ MailCarries(s) /\ TakenOut(s)
    BY <1>4 DEF Moves, MailInv
  <2>2. MailCarries(s)'
    BY <1>1, <2>1 DEF MailCarries, Running, Mailed
  <2>3. At(s, "plc", "sign") \/ At(s, "delete", "rows") => req[s].op \in PurposeSet
    BY PurposesAre DEF At
  <2>4. TakenOut(s)'
    BY <2>1, <2>3 DEF TakenOut, At, MailLess
  <2> QED BY <2>2, <2>4
<1> QED BY <1>2, <1>3, <1>4

\* A step by which the address stays, and the account.
LEMMA MailUses ==
  ASSUME MailInv, NEW r, Moves(r), UNCHANGED <<sent, email, raced>>, MailLess,
         confirmed' \in BOOLEAN, proven' \subseteq 1..email,
         status' = "none" => status = "none",
         \A x \in finished' \ finished :
           /\ \E m \in sent : m.n = x
           /\ \A p \in PurposeSet : mail'[p] # None => mail'[p].n # x,
         ConfirmedIsProven',
         r \in Requests => MailCarries(r)' /\ TakenOut(r)' /\ Addressed(r)'
  PROVE  MailInv'
<1>1. /\ MailShape' /\ UsedIsGone'
      /\ \A s \in Requests : MailCarries(s)' /\ TakenOut(s)'
  BY MailKeeps DEF MailInv, MailShape
<1>2. ASSUME NEW s \in Requests PROVE Addressed(s)'
  <2>1. CASE s = r
    BY <2>1
  <2>2. CASE s # r
    <3>1. req'[s] = req[s] /\ Addressed(s)
      BY <2>2 DEF Moves, MailInv
    <3> QED BY <3>1 DEF Addressed, At, Relies, SentTo
  <2> QED BY <2>1, <2>2
<1>3. MailAddressed'
  <2>1. ASSUME ~raced, NEW p \in PurposeSet, mail'[p] # None, NEW x, x = mail'[p].n
        PROVE  {m.to : m \in {m \in sent' : m.n = x}} = {email'}
    <3>1. SentTo(x) = {email}
      BY <2>1 DEF MailInv, MailAddressed, MailLess
    <3> QED BY <3>1 DEF SentTo
  <2>2. ASSUME ~raced, status' = "none" PROVE mail' = Nothing
    <3>1. \A p \in PurposeSet : mail[p] = None
      BY <2>2 DEF MailInv, MailAddressed, Nothing
    <3>2. \A p \in PurposeSet : mail'[p] = None
      BY <3>1 DEF MailLess
    <3> QED BY <3>2 DEF MailLess, Nothing
  <2> QED BY <2>1, <2>2 DEF MailAddressed, SentTo
<1> QED BY <1>1, <1>2, <1>3 DEF MailInv

\* A step after which the address is another one, or the account is.
LEMMA MailTurns ==
  ASSUME MailInv, NEW r \in Requests, Moves(r), req'[r].at = "end", sent' = sent,
         email' \in {email, email + 1}, MailLess, proven' = proven,
         (confirmed' = confirmed /\ email' = email) \/ confirmed' = FALSE,
         raced' \in BOOLEAN,
         ~raced' => ~raced /\ mail' = Nothing /\ \A s \in Requests \ {r} : ~Relies(s),
         \A x \in finished' \ finished :
           /\ \E m \in sent : m.n = x
           /\ \A p \in PurposeSet : mail'[p] # None => mail'[p].n # x
  PROVE  MailInv'
<1>0. email \in Nat /\ confirmed' \in BOOLEAN /\ proven' \subseteq 1..email'
  <2>1. email \in Nat /\ proven \subseteq 1..email /\ confirmed \in BOOLEAN
    BY DEF MailInv, MailShape
  <2>2. confirmed' \in BOOLEAN
    BY <2>1
  <2>3. 1..email \subseteq 1..email'
    BY <2>1
  <2> QED BY <2>1, <2>2, <2>3
<1>1. /\ MailShape' /\ UsedIsGone'
      /\ \A s \in Requests : MailCarries(s)' /\ TakenOut(s)'
  BY <1>0, EndOwesNothing, MailKeeps
<1>2. ASSUME NEW s \in Requests PROVE Addressed(s)'
  <2>1. CASE s = r
    BY <2>1, EndOwesNothing
  <2>2. CASE s # r
    <3>1. req'[s] = req[s]
      BY <2>2 DEF Moves
    <3>2. ~raced' => ~Relies(s)
      BY <2>2
    <3> QED BY <3>1, <3>2 DEF Addressed, At, Relies
  <2> QED BY <2>1, <2>2
<1>3. MailAddressed'
  BY DEF MailAddressed, Nothing
<1>4. ConfirmedIsProven'
  BY DEF MailInv, ConfirmedIsProven
<1> QED BY <1>1, <1>2, <1>3, <1>4 DEF MailInv

\* A step that changes nothing of the mailed tokens.
LEMMA MailLooks ==
  ASSUME MailInv, NEW r, Moves(r), UNCHANGED mailVars, status' = "none" => status = "none",
         r \in Requests => MailCarries(r)' /\ TakenOut(r)' /\ Addressed(r)'
  PROVE  MailInv'
<1>1. UNCHANGED <<sent, email, raced, finished, confirmed, proven>> /\ mail' = mail
  BY DEF mailVars
<1>2. MailLess /\ confirmed' \in BOOLEAN /\ proven' \subseteq 1..email
  BY <1>1, Lesser DEF MailInv, MailShape
<1>3. ConfirmedIsProven'
  BY <1>1 DEF MailInv, ConfirmedIsProven
<1>4. \A x \in finished' \ finished : FALSE
  BY <1>1
<1> QED BY <1>1, <1>2, <1>3, <1>4, MailUses

LEMMA MailAside ==
  ASSUME MailInv, NEW r \in Requests, Moves(r), UNCHANGED mailVars,
         status' = "none" => status = "none",
         req'[r].op \in OAuthOps \cup {"return"} \/ req'[r].at = "end"
  PROVE  MailInv'
<1>1. CASE req'[r].at = "end"
  BY <1>1, EndOwesNothing, MailLooks
<1>2. CASE req'[r].op \in OAuthOps \cup {"return"}
  <2>1. req'[r].op \notin MailOps
    BY <1>2, PurposesAre DEF MailOps, OAuthOps
  <2>2. req'[r].op \notin PurposeSet \cup {"mail", "adminEmail", "adminPassword", "update"}
        /\ req'[r].op \notin {"plc", "delete", "confirm"}
    BY <2>1, PurposesAre DEF MailOps
  <2>3. MailCarries(r)' /\ TakenOut(r)' /\ Addressed(r)'
    BY <2>2 DEF MailCarries, TakenOut, Addressed, Relies, At
  <2> QED BY <2>3, MailLooks
<1> QED BY <1>1, <1>2

LEMMA MailStarts ==
  ASSUME RequestShape, MailInv, NEW r \in Requests, MailStart(r)
  PROVE  MailInv' /\ Moves(r) /\ req'[r].op \in MailOps
<1>0. "start" \in Steps /\ PurposeSet \subseteq MailOps
      /\ {"mail", "adminEmail", "adminPassword"} \subseteq MailOps
  BY DEF Steps, MailOps
<1>1. UNCHANGED mailVars /\ status' = status
  BY DEF MailStart
<1>2. ASSUME NEW q, Go(r, q), {"op", "at"} \subseteq DOMAIN q, q.at = "start", q.op \in MailOps,
             q.op = "mail" => {"for", "to"} \subseteq DOMAIN q /\ q.for \in PurposeSet,
             q.op \in PurposeSet \ {"update"} => "n" \in DOMAIN q /\ q.n \in Mailed(q.op),
             q.op = "update" => "n" \in DOMAIN q /\ q.n \in Mailed("update") \cup {None},
             q.op \in {"adminEmail", "adminPassword"} => "n" \in DOMAIN q /\ q.n = None
      PROVE  MailInv' /\ Moves(r) /\ req'[r].op \in MailOps
  <2>1. Moves(r) /\ req'[r] = q
    BY <1>0, <1>2, GoIs, GoShape DEF Moves
  <2>2. MailCarries(r)' /\ TakenOut(r)' /\ Addressed(r)'
    BY <1>1, <1>2, <2>1 DEF MailCarries, TakenOut, Addressed, Relies, At, Mailed, mailVars
  <2> QED BY <1>1, <1>2, <2>1, <2>2, MailLooks
<1>3. ASSUME NEW p \in PurposeSet, Begin(r, [op |-> "mail", at |-> "start", for |-> p, to |-> 0])
      PROVE  MailInv' /\ Moves(r) /\ req'[r].op \in MailOps
  <2> DEFINE q == [op |-> "mail", at |-> "start", for |-> p, to |-> 0]
  <2>1. Go(r, q)
    BY <1>3 DEF Begin
  <2>2. DOMAIN q = {"op", "at", "for", "to"} /\ q.op = "mail" /\ q.at = "start" /\ q.for = p
    OBVIOUS
  <2>3. "mail" \notin PurposeSet
    BY PurposesAre
  <2> HIDE DEF q
  <2> QED BY <1>0, <1>2, <2>1, <2>2, <2>3
<1>4. ASSUME NEW p \in PurposeSet \ {"update"}, NEW n \in Mailed(p),
             Begin(r, [op |-> p, at |-> "start", n |-> n, address |-> email, password |-> password])
      PROVE  MailInv' /\ Moves(r) /\ req'[r].op \in MailOps
  <2> DEFINE q == [op |-> p, at |-> "start", n |-> n, address |-> email, password |-> password]
  <2>1. Go(r, q)
    BY <1>4 DEF Begin
  <2>2. DOMAIN q = {"op", "at", "n", "address", "password"} /\ q.op = p /\ q.at = "start" /\ q.n = n
    OBVIOUS
  <2>3. p \notin {"mail", "update", "adminEmail", "adminPassword"}
    BY PurposesAre
  <2> HIDE DEF q
  <2> QED BY <1>0, <1>2, <2>1, <2>2, <2>3
<1>5. ASSUME NEW n \in Mailed("update") \cup {None}, Begin(r, [op |-> "update", at |-> "start", n |-> n])
      PROVE  MailInv' /\ Moves(r) /\ req'[r].op \in MailOps
  <2> DEFINE q == [op |-> "update", at |-> "start", n |-> n]
  <2>1. Go(r, q)
    BY <1>5 DEF Begin
  <2>2. DOMAIN q = {"op", "at", "n"} /\ q.op = "update" /\ q.at = "start" /\ q.n = n
    OBVIOUS
  <2>3. "update" \in PurposeSet
    BY PurposesAre
  <2> HIDE DEF q
  <2> QED BY <1>0, <1>2, <2>1, <2>2, <2>3
<1>6. ASSUME NEW op \in {"adminEmail", "adminPassword"},
             Begin(r, [op |-> op, at |-> "start", n |-> None])
      PROVE  MailInv' /\ Moves(r) /\ req'[r].op \in MailOps
  <2> DEFINE q == [op |-> op, at |-> "start", n |-> None]
  <2>1. Go(r, q)
    BY <1>6 DEF Begin
  <2>2. DOMAIN q = {"op", "at", "n"} /\ q.op = op /\ q.at = "start" /\ q.n = None
    OBVIOUS
  <2>3. op \notin PurposeSet /\ op # "update" /\ op # "mail"
    BY PurposesAre
  <2> HIDE DEF q
  <2> QED BY <1>0, <1>2, <2>1, <2>2, <2>3
<1> QED BY <1>3, <1>4, <1>5, <1>6 DEF MailStart

\* Where a request goes on with what it has.
LEMMA MailGoesOn ==
  ASSUME RequestShape, NEW r \in Requests, NEW step \in Steps, To(r, step), step # "create",
         MailCarries(r), Running(r), sent' = sent
  PROVE  /\ Moves(r) /\ MailCarries(r)' /\ req'[r].op = req[r].op /\ req'[r].at = step
         /\ "n" \in DOMAIN req[r] => req'[r].n = req[r].n
<1>1. /\ RequestShape' /\ DOMAIN req'[r] = DOMAIN req[r]
      /\ req'[r].at = step /\ req'[r].op = req[r].op
      /\ \A f \in DOMAIN req[r] \ {"at"} : req'[r][f] = req[r][f]
      /\ \A s \in Requests \ {r} : req'[s] = req[s]
  BY ToIs
<1>2. /\ "n" \in DOMAIN req[r] => req'[r].n = req[r].n
      /\ "for" \in DOMAIN req[r] => req'[r].for = req[r].for
  BY <1>1
<1>3. MailCarries(r)'
  BY <1>1, <1>2 DEF MailCarries, Running, Mailed
<1> QED BY <1>1, <1>2, <1>3 DEF Moves

\* The address is read, to mail a token to it.
LEMMA MailAsks ==
  ASSUME RequestShape, MailInv, NEW r \in Requests, NEW p, NEW may, Ask(r, p, may)
  PROVE  MailInv' /\ Moves(r) /\ (req'[r].op \in MailOps \/ req'[r].at = "end")
<1>1. UNCHANGED mailVars /\ status' = status /\ At(r, "mail", "start")
  BY DEF Ask
<1>2. CASE End(r)
  <2>1. Moves(r) /\ req'[r].at = "end"
    BY <1>2, EndIs DEF Moves
  <2> QED BY <1>1, <2>1, EndOwesNothing, MailLooks
<1>3. CASE status # "none" /\ Go(r, [req[r] EXCEPT !.at = "create", !.to = email])
  <2> DEFINE q == [req[r] EXCEPT !.at = "create", !.to = email]
  <2>1. {"op", "at", "for", "to"} \subseteq DOMAIN req[r] /\ req[r].for \in PurposeSet
    BY <1>1 DEF RequestShape, MailInv, MailCarries, Running, At
  <2>2. /\ DOMAIN q = DOMAIN req[r] /\ q["at"] = "create" /\ q["op"] = req[r]["op"]
        /\ q["to"] = email /\ q["for"] = req[r]["for"]
    BY <2>1
  <2>3. "create" \in Steps
    BY DEF Steps
  <2> HIDE DEF q
  <2>4. Moves(r) /\ req'[r] = q
    BY <1>3, <2>1, <2>2, <2>3, GoIs, GoShape DEF Moves, q
  <2>5. /\ req'[r].op = "mail" /\ req'[r].at = "create" /\ req'[r].to = email
        /\ req'[r].for \in PurposeSet
    BY <1>1, <2>1, <2>2, <2>4 DEF At
  <2>6. email \in 1..email /\ email' = email
    BY <1>1 DEF MailInv, MailShape, mailVars
  <2>7. "mail" \notin PurposeSet /\ "mail" \in MailOps
    BY PurposesAre DEF MailOps
  <2>8. MailCarries(r)' /\ TakenOut(r)' /\ Addressed(r)'
    BY <1>1, <1>3, <2>1, <2>2, <2>4, <2>5, <2>6, <2>7 DEF MailCarries, TakenOut, Addressed, Relies, At
  <2> QED BY <1>1, <2>4, <2>5, <2>7, <2>8, MailLooks
<1> QED BY <1>2, <1>3 DEF Ask

\* The next token: its number is more than all that were mailed, and the address
\* it goes to is still that of the account, unless a change raced.
LEMMA MailCreates ==
  ASSUME RequestShape, MailInv, NEW r \in Requests, MailCreate(r)
  PROVE  MailInv' /\ Moves(r) /\ req'[r].at = "end"
<1> SUFFICES ASSUME NEW n, n = Cardinality(sent) + 1,
                    NEW for, for = req[r].for, NEW to, to = req[r].to
             PROVE  MailInv' /\ Moves(r) /\ req'[r].at = "end"
  OBVIOUS
<1> DEFINE m0 == [n |-> n, for |-> for, to |-> to]
           new == Stored(n)
<1>1. Moves(r) /\ req'[r].at = "end"
  BY EndIs DEF MailCreate, Moves
<1>2. /\ At(r, "mail", "create") /\ mail' = [mail EXCEPT ![for] = new] /\ sent' = sent \cup {m0}
      /\ UNCHANGED <<email, confirmed, finished, proven, raced, status>>
  BY DEF MailCreate
<1>3. for \in PurposeSet /\ to \in 1..email
  BY <1>2 DEF MailInv, MailCarries, Running, At
<1>4. m0 \in [n : {n}, for : PurposeSet, to : 1..email] /\ m0.n = n /\ m0.for = for /\ m0.to = to
  BY <1>3
<1>5. new.n = n /\ DOMAIN new = {"n", "old"} /\ new.old = FALSE
  BY DEF Stored
<1>6. /\ IsFiniteSet(sent) /\ Cardinality(sent) \in Nat
      /\ \A m \in sent : m.n \in 1..Cardinality(sent)
  BY FS_CardinalityType DEF MailInv, MailShape
<1>7. n \notin 1..Cardinality(sent) /\ n \in 1..n /\ 1..Cardinality(sent) \subseteq 1..n
  BY <1>6
<1>8. m0 \notin sent
  BY <1>4, <1>6, <1>7
<1>9. IsFiniteSet(sent') /\ Cardinality(sent') = n
  BY <1>2, <1>6, <1>8, FS_AddElement
<1> HIDE DEF m0, new
<1>10. /\ mail' = [p \in PurposeSet |-> mail'[p]] /\ mail'[for] = new
       /\ \A p \in PurposeSet : p # for => mail'[p] = mail[p]
  BY <1>2, <1>3 DEF MailInv, MailShape
<1>11. \A p : Mailed(p) \subseteq Mailed(p)' /\ Mailed(p) \subseteq 1..Cardinality(sent)
  BY <1>2, <1>6 DEF Mailed
<1>12. n \in Mailed(for)'
  BY <1>2, <1>4 DEF Mailed
<1>13. MailShape'
  <2>1. sent \subseteq [n : 1..n, for : PurposeSet, to : 1..email]
    BY <1>7 DEF MailInv, MailShape
  <2>2. m0 \in [n : 1..n, for : PurposeSet, to : 1..email]
    BY <1>4, <1>7
  <2>3. \A m, k \in sent' : m.n = k.n => m = k
    BY <1>2, <1>4, <1>6, <1>7 DEF MailInv, MailShape
  <2>4. \A p \in PurposeSet : mail'[p] # None =>
          {"n", "old"} \subseteq DOMAIN mail'[p] /\ mail'[p].old \in BOOLEAN /\ mail'[p].n \in Mailed(p)'
    <3>1. ASSUME NEW p \in PurposeSet, mail'[p] # None, p # for
          PROVE  {"n", "old"} \subseteq DOMAIN mail'[p] /\ mail'[p].old \in BOOLEAN /\ mail'[p].n \in Mailed(p)'
      BY <1>10, <1>11, <3>1 DEF MailInv, MailShape
    <3> QED BY <1>5, <1>10, <1>12, <3>1
  <2>5. sent' \subseteq [n : 1..Cardinality(sent'), for : PurposeSet, to : 1..email']
    BY <1>2, <1>9, <2>1, <2>2
  <2>6. finished' \subseteq {m.n : m \in sent'} /\ proven' \subseteq 1..email'
    BY <1>2 DEF MailInv, MailShape
  <2>7. email' \in Nat \ {0} /\ confirmed' \in BOOLEAN /\ raced' \in BOOLEAN
    BY <1>2 DEF MailInv, MailShape
  <2> QED BY <1>9, <1>10, <2>3, <2>4, <2>5, <2>6, <2>7 DEF MailShape
<1>14. ASSUME NEW s \in Requests PROVE MailCarries(s)' /\ TakenOut(s)' /\ Addressed(s)'
  <2>1. CASE s = r
    BY <1>1, <2>1, EndOwesNothing
  <2>2. CASE s # r
    <3>1. req'[s] = req[s] /\ MailCarries(s) /\ TakenOut(s) /\ Addressed(s)
      BY <1>1, <2>2 DEF Moves, MailInv
    <3>2. MailCarries(s)'
      BY <1>2, <1>11, <3>1 DEF MailCarries, Running
    <3>3. ASSUME At(s, "plc", "sign") \/ At(s, "delete", "rows")
          PROVE  mail'[req[s].op] = None \/ mail'[req[s].op].n # req[s].n
      <4>1. req[s].op \in PurposeSet \ {"update"}
        BY <3>3, PurposesAre DEF At
      <4>2. req[s].n \in 1..Cardinality(sent)
        BY <1>11, <3>1, <3>3, <4>1 DEF MailCarries, Running, At
      <4>3. CASE req[s].op = for
        BY <1>5, <1>7, <1>10, <4>2, <4>3
      <4>4. CASE req[s].op # for
        BY <1>10, <3>1, <3>3, <4>1, <4>4 DEF TakenOut
      <4> QED BY <4>3, <4>4
    <3>4. TakenOut(s)'
      BY <3>1, <3>3 DEF TakenOut, At
    <3>5. ASSUME At(s, "confirm", "store"), ~raced, NEW x, x = req[s].n
          PROVE  {m.to : m \in {m \in sent' : m.n = x}} = {email}
      <4>1. "confirm" \in PurposeSet \ {"update"}
        BY PurposesAre
      <4>2. x \in 1..Cardinality(sent)
        BY <1>11, <3>1, <3>5, <4>1 DEF MailCarries, Running, At
      <4>3. \A m \in sent' : m.n = x <=> m \in sent /\ m.n = x
        BY <1>2, <1>4, <1>7, <4>2
      <4>4. {m \in sent' : m.n = x} = {m \in sent : m.n = x}
        BY <1>2, <4>3
      <4> QED BY <3>1, <3>5, <4>4 DEF Addressed, SentTo
    <3>6. Addressed(s)'
      BY <1>2, <3>1, <3>5 DEF Addressed, At, Relies, SentTo
    <3> QED BY <3>2, <3>4, <3>6
  <2> QED BY <2>1, <2>2
<1>15. MailAddressed'
  <2>1. ~raced => to = email /\ status # "none"
    BY <1>2 DEF MailInv, Addressed, Relies
  <2>2. ASSUME ~raced, NEW p \in PurposeSet, mail'[p] # None, NEW x, x = mail'[p].n
        PROVE  {m.to : m \in {m \in sent' : m.n = x}} = {email'}
    <3>1. CASE p = for
      <4>1. x = n
        BY <1>5, <1>10, <2>2, <3>1
      <4>2. \A m \in sent' : m.n = x <=> m = m0
        BY <1>2, <1>4, <1>6, <1>7, <4>1
      <4>3. {m \in sent' : m.n = x} = {m0}
        BY <1>2, <4>2
      <4> QED BY <1>2, <1>4, <2>1, <2>2, <4>3
    <3>2. CASE p # for
      <4>1. x \in 1..Cardinality(sent) /\ SentTo(x) = {email}
        BY <1>10, <1>11, <2>2, <3>2 DEF MailInv, MailShape, MailAddressed
      <4>2. \A m \in sent' : m.n = x <=> m \in sent /\ m.n = x
        BY <1>2, <1>4, <1>7, <4>1
      <4>3. {m \in sent' : m.n = x} = {m \in sent : m.n = x}
        BY <1>2, <4>2
      <4> QED BY <1>2, <4>1, <4>3 DEF SentTo
    <3> QED BY <3>1, <3>2
  <2> QED BY <1>2, <2>1, <2>2 DEF MailAddressed, SentTo
<1>16. UsedIsGone'
  <2>1. finished \subseteq 1..Cardinality(sent)
    BY <1>6 DEF MailInv, MailShape
  <2>2. ASSUME NEW p \in PurposeSet, mail'[p] # None PROVE mail'[p].n \notin finished
    BY <1>5, <1>7, <1>10, <2>1, <2>2 DEF MailInv, UsedIsGone
  <2> QED BY <1>2, <2>2 DEF UsedIsGone
<1>17. ConfirmedIsProven'
  BY <1>2 DEF MailInv, ConfirmedIsProven
<1> QED BY <1>1, <1>13, <1>14, <1>15, <1>16, <1>17 DEF MailInv

\* A token is looked up: to be stored is to have been mailed to the address of
\* the account, and the request goes on with that.
LEMMA MailChecks ==
  ASSUME RequestShape, MailInv, NEW r \in Requests, NEW p \in PurposeSet, Check(r, p),
         At(r, p, "check") \/ (At(r, p, "start") /\ p # "confirm")
  PROVE  MailInv' /\ Moves(r) /\ (req'[r].op \in MailOps \/ req'[r].at = "end")
<1>1. /\ UNCHANGED <<email, confirmed, sent, finished, proven, raced, status, password>>
      /\ Running(r) /\ MailCarries(r) /\ req[r].op = p /\ p \in MailOps
  BY DEF Check, Running, At, MailInv, MailOps
<1>2. confirmed' \in BOOLEAN /\ proven' \subseteq 1..email /\ ConfirmedIsProven'
      /\ \A x \in finished' \ finished : FALSE
  BY <1>1 DEF MailInv, MailShape, ConfirmedIsProven
<1>3. CASE End(r)
  <2>1. Moves(r) /\ req'[r].at = "end"
    BY <1>3, EndIs DEF Moves
  <2>2. MailLess
    BY Lesser DEF Check, Valid, MailInv
  <2> QED BY <1>1, <1>2, <2>1, <2>2, EndOwesNothing, MailUses
<1>4. CASE Valid(p, req[r].n) /\ To(r, "store") /\ UNCHANGED mail
  <2>1. "store" \in Steps
    BY DEF Steps
  <2>2. "n" \in DOMAIN req[r]
    BY <1>1 DEF MailCarries
  <2>3. /\ Moves(r) /\ MailCarries(r)' /\ req'[r].op = p /\ req'[r].at = "store"
        /\ req'[r].n = req[r].n
    BY <1>1, <1>4, <2>1, <2>2, MailGoesOn
  <2>4. ASSUME ~raced, p = "confirm", NEW x, x = req[r].n
        PROVE  SentTo(x) = {email} /\ status # "none"
    <3>1. mail[p] # None /\ mail[p].n = x
      BY <1>4, <2>4 DEF Valid
    <3>2. Relies(r)
      BY <2>4 DEF Relies
    <3> QED BY <2>4, <3>1, <3>2 DEF MailInv, MailAddressed, Addressed
  <2>5. TakenOut(r)'
    BY <2>3 DEF TakenOut, At
  <2>6. p # "mail"
    BY PurposesAre
  <2>7. Addressed(r)'
    BY <1>1, <2>3, <2>4, <2>6 DEF Addressed, At, Relies, SentTo
  <2>8. UNCHANGED mailVars /\ status' = status
    BY <1>1, <1>4 DEF mailVars
  <2> QED BY <1>1, <2>3, <2>5, <2>7, <2>8, MailLooks
<1> QED BY <1>3, <1>4 DEF Check

\* The handlers that read the account before the token.
LEMMA MailReads ==
  ASSUME RequestShape, MailInv, NEW r \in Requests,
         \/ ConfirmUser(r) \/ UpdateUser(r) \/ DeleteUser(r)
         \/ (AdminEmail(r) /\ At(r, "adminEmail", "start"))
  PROVE  MailInv' /\ Moves(r) /\ (req'[r].op \in MailOps \/ req'[r].at = "end")
<1>1. UNCHANGED mailVars /\ status' = status
  BY DEF ConfirmUser, UpdateUser, DeleteUser, AdminEmail, At
<1>2. "check" \in Steps /\ "store" \in Steps /\ "confirm" \in MailOps /\ "update" \in MailOps
      /\ "delete" \in MailOps /\ "adminEmail" \in MailOps
  BY PurposesAre DEF Steps, MailOps
<1>3. CASE End(r)
  <2>1. Moves(r) /\ req'[r].at = "end"
    BY <1>3, EndIs DEF Moves
  <2> QED BY <1>1, <2>1, EndOwesNothing, MailLooks
<1>4. ASSUME NEW step \in {"check", "store"}, To(r, step), Running(r), req[r].op \in MailOps,
             req[r].op = "confirm" => step = "check" /\ status = "up"
      PROVE  MailInv' /\ Moves(r) /\ req'[r].op \in MailOps
  <2>1. MailCarries(r) /\ sent' = sent
    BY <1>1 DEF MailInv, mailVars
  <2>2. Moves(r) /\ MailCarries(r)' /\ req'[r].op = req[r].op /\ req'[r].at = step
    BY <1>2, <1>4, <2>1, MailGoesOn
  <2>3. TakenOut(r)' /\ Addressed(r)'
    BY <1>1, <1>4, <2>2 DEF TakenOut, Addressed, Relies, At
  <2> QED BY <1>1, <1>4, <2>2, <2>3, MailLooks
<1>5. CASE ConfirmUser(r)
  <2>1. Running(r) /\ req[r].op = "confirm"
    BY <1>5 DEF ConfirmUser, At, Running
  <2> QED BY <1>2, <1>3, <1>4, <1>5, <2>1 DEF ConfirmUser
<1>6. CASE UpdateUser(r)
  <2>1. Running(r) /\ req[r].op = "update"
    BY <1>6 DEF UpdateUser, At, Running
  <2> QED BY <1>2, <1>3, <1>4, <1>6, <2>1 DEF UpdateUser
<1>7. CASE DeleteUser(r)
  <2>1. Running(r) /\ req[r].op = "delete"
    BY <1>7 DEF DeleteUser, At, Running
  <2> QED BY <1>2, <1>3, <1>4, <1>7, <2>1 DEF DeleteUser
<1>8. CASE AdminEmail(r) /\ At(r, "adminEmail", "start")
  <2>1. Running(r) /\ req[r].op = "adminEmail"
    BY <1>8 DEF At, Running
  <2>2. End(r) \/ To(r, "store")
    BY <1>8 DEF AdminEmail, At
  <2> QED BY <1>2, <1>3, <1>4, <2>1, <2>2
<1> QED BY <1>5, <1>6, <1>7, <1>8

\* What a request brought, as an element of what was mailed.
LEMMA Brought ==
  ASSUME MailInv, NEW r \in Requests, Running(r), NEW p \in PurposeSet, req[r].op = p
  PROVE  /\ req[r].n \in Mailed(p) \/ (p = "update" /\ req[r].n = None)
         /\ req[r].n \in Mailed(p) =>
              /\ \E m \in sent : m.n = req[r].n
              /\ \A q \in PurposeSet : q # p /\ mail[q] # None => mail[q].n # req[r].n
<1>1. req[r].n \in Mailed(p) \/ (p = "update" /\ req[r].n = None)
  BY DEF MailInv, MailCarries
<1>2. ASSUME req[r].n \in Mailed(p)
      PROVE  /\ \E m \in sent : m.n = req[r].n
             /\ \A q \in PurposeSet : q # p /\ mail[q] # None => mail[q].n # req[r].n
  <2>1. \E m \in sent : m.n = req[r].n
    BY <1>2 DEF Mailed
  <2>2. ASSUME NEW q \in PurposeSet, q # p, mail[q] # None PROVE mail[q].n # req[r].n
    <3>1. mail[q].n \in Mailed(q)
      BY <2>2 DEF MailInv, MailShape
    <3> QED BY <1>2, <2>2, <3>1, MailedApart DEF MailInv
  <2> QED BY <2>1, <2>2
<1> QED BY <1>1, <1>2

\* A token takes effect, and is out of the table with the same step, or was before.
LEMMA MailFinishes ==
  ASSUME RequestShape, MailInv, NEW r \in Requests,
         ConfirmStore(r) \/ ResetPassword(r) \/ AdminPassword(r) \/ PlcSign(r)
  PROVE  MailInv' /\ Moves(r) /\ req'[r].at = "end"
<1>1. Moves(r) /\ req'[r].at = "end"
  BY EndIs DEF ConfirmStore, ResetPassword, AdminPassword, UpdateAccountPassword, PlcSign, Moves
<1>2. UNCHANGED <<sent, email, raced, status>>
  BY DEF ConfirmStore, ResetPassword, AdminPassword, UpdateAccountPassword, PlcSign
<1>3. "confirm" \in PurposeSet /\ "reset" \in PurposeSet /\ "plc" \in PurposeSet
  BY PurposesAre
<1>4. ASSUME NEW p \in PurposeSet, p # "update", Running(r), req[r].op = p, MailLess,
             finished' \subseteq finished \cup {req[r].n},
             mail'[p] = None \/ (mail' = mail /\ mail[p].n # req[r].n)
      PROVE  \A x \in finished' \ finished :
               /\ \E m \in sent : m.n = x
               /\ \A q \in PurposeSet : mail'[q] # None => mail'[q].n # x
  <2> SUFFICES ASSUME NEW x \in finished' \ finished
               PROVE  /\ \E m \in sent : m.n = x
                      /\ \A q \in PurposeSet : mail'[q] # None => mail'[q].n # x
    OBVIOUS
  <2>1. x = req[r].n
    BY <1>4
  <2>2. /\ \E m \in sent : m.n = x
        /\ \A q \in PurposeSet : q # p /\ mail[q] # None => mail[q].n # x
    BY <1>4, <2>1, Brought
  <2> QED BY <1>4, <2>1, <2>2 DEF MailLess
<1>5. ASSUME MailLess, confirmed' \in BOOLEAN, proven' \subseteq 1..email, ConfirmedIsProven',
             \A x \in finished' \ finished :
               /\ \E m \in sent : m.n = x
               /\ \A q \in PurposeSet : mail'[q] # None => mail'[q].n # x
      PROVE  MailInv'
  BY <1>1, <1>2, <1>5, EndOwesNothing, MailUses
<1>6. CASE ConfirmStore(r)
  <2>1. Running(r) /\ req[r].op = "confirm" /\ mail' = Without("confirm")
        /\ finished' \subseteq finished \cup {req[r].n}
    BY <1>6 DEF ConfirmStore, At, Running
  <2>2. MailLess /\ mail'["confirm"] = None
    BY <1>3, <2>1, Lesser DEF MailInv
  <2>3. proven' = proven \cup SentTo(req[r].n) /\ confirmed' = (confirmed \/ status # "none")
    BY <1>6 DEF ConfirmStore, SentTo
  <2>4. proven' \subseteq 1..email
    BY <2>3 DEF MailInv, MailShape, SentTo
  <2>5. confirmed' \in BOOLEAN
    BY <2>3
  <2>6. ~raced => email \in proven'
    <3>1. ~raced => SentTo(req[r].n) = {email}
      BY <1>6 DEF ConfirmStore, MailInv, Addressed
    <3> QED BY <2>3, <3>1
  <2>7. ConfirmedIsProven'
    BY <1>2, <2>6 DEF ConfirmedIsProven
  <2> QED BY <1>1, <1>3, <1>4, <1>5, <2>1, <2>2, <2>4, <2>5, <2>7
<1>7. CASE ResetPassword(r)
  <2>1. Running(r) /\ req[r].op = "reset" /\ mail' = Without("reset")
        /\ finished' \subseteq finished \cup {req[r].n} /\ UNCHANGED <<confirmed, proven>>
    BY <1>7 DEF ResetPassword, UpdateAccountPassword, At, Running
  <2>2. MailLess /\ mail'["reset"] = None
    BY <1>3, <2>1, Lesser DEF MailInv
  <2>3. confirmed' \in BOOLEAN /\ proven' \subseteq 1..email /\ ConfirmedIsProven'
    BY <1>2, <2>1 DEF MailInv, MailShape, ConfirmedIsProven
  <2> QED BY <1>1, <1>3, <1>4, <1>5, <2>1, <2>2, <2>3
<1>8. CASE AdminPassword(r)
  <2>1. Running(r) /\ req[r].op = "adminPassword" /\ mail' = Without("reset")
        /\ UNCHANGED <<confirmed, proven>>
        /\ finished' = finished \cup (IF req[r].n = None THEN {} ELSE {req[r].n})
    BY <1>8 DEF AdminPassword, UpdateAccountPassword, At, Running
  <2>2. req[r].n = None
    BY <2>1 DEF MailInv, MailCarries
  <2>3. MailLess
    BY <1>3, <2>1, Lesser DEF MailInv
  <2>4. confirmed' \in BOOLEAN /\ proven' \subseteq 1..email /\ ConfirmedIsProven'
    BY <1>2, <2>1 DEF MailInv, MailShape, ConfirmedIsProven
  <2>5. finished' = finished
    BY <2>1, <2>2
  <2> QED BY <1>1, <1>5, <2>3, <2>4, <2>5
<1>9. CASE PlcSign(r)
  <2>1. Running(r) /\ req[r].op = "plc" /\ mail' = mail
        /\ finished' \subseteq finished \cup {req[r].n} /\ UNCHANGED <<confirmed, proven>>
    BY <1>9 DEF PlcSign, At, Running
  <2>2. MailLess
    BY <2>1, Lesser DEF MailInv
  <2>3. mail["plc"] = None \/ mail["plc"].n # req[r].n
    BY <1>9 DEF PlcSign, MailInv, TakenOut, At
  <2>4. confirmed' \in BOOLEAN /\ proven' \subseteq 1..email /\ ConfirmedIsProven'
    BY <1>2, <2>1 DEF MailInv, MailShape, ConfirmedIsProven
  <2> QED BY <1>1, <1>3, <1>4, <1>5, <2>1, <2>2, <2>3, <2>4
<1> QED BY <1>6, <1>7, <1>8, <1>9

\* Tokens are taken out by the first of two steps.
LEMMA MailClears ==
  ASSUME RequestShape, MailInv, NEW r \in Requests, PlcCleanup(r) \/ DeleteMail(r)
  PROVE  MailInv' /\ Moves(r) /\ req'[r].op \in MailOps
<1>1. PICK p \in {"plc", "delete"}, step \in {"sign", "rows"} :
        /\ req[r].op = p /\ Running(r) /\ To(r, step) /\ (step = "sign" => p = "plc")
        /\ (step = "rows" => p = "delete") /\ mail' = IF p = "plc" THEN Without("plc") ELSE Nothing
  BY DEF PlcCleanup, DeleteMail, At, Running
<1>2. UNCHANGED <<email, confirmed, sent, finished, proven, raced, status>>
  BY DEF PlcCleanup, DeleteMail
<1>3. p \in PurposeSet /\ p \in MailOps /\ step \in Steps /\ step # "create"
  BY PurposesAre DEF MailOps, Steps
<1>4. "n" \in DOMAIN req[r] /\ MailCarries(r)
  BY <1>1, <1>3 DEF MailInv, MailCarries
<1>5. Moves(r) /\ MailCarries(r)' /\ req'[r].op = p /\ req'[r].at = step
  BY <1>1, <1>2, <1>3, <1>4, MailGoesOn
<1>6. MailLess /\ mail'[p] = None
  BY <1>1, <1>3, Lesser DEF MailInv, Nothing
<1>7. TakenOut(r)' /\ Addressed(r)'
  BY <1>1, <1>5, <1>6 DEF TakenOut, Addressed, Relies, At
<1>8. confirmed' \in BOOLEAN /\ proven' \subseteq 1..email /\ ConfirmedIsProven'
      /\ \A x \in finished' \ finished : FALSE
  BY <1>2 DEF MailInv, MailShape, ConfirmedIsProven
<1> QED BY <1>2, <1>3, <1>5, <1>6, <1>7, <1>8, MailUses

\* Another address, or another account: what relied on the old one has raced.
LEMMA MailChanges ==
  ASSUME RequestShape, MailInv, NEW r \in Requests,
         \/ UpdateEmail(r) \/ (AdminEmail(r) /\ At(r, "adminEmail", "store"))
         \/ DeleteRows(r) \/ Return(r)
  PROVE  MailInv' /\ Moves(r) /\ req'[r].at = "end"
<1>1. End(r)
  BY DEF UpdateEmail, AdminEmail, DeleteRows, Return, At
<1>2. Moves(r) /\ req'[r].at = "end"
  BY <1>1, EndIs DEF Moves
<1>3. ASSUME NEW b \in BOOLEAN, raced' = (raced \/ Relying # {} \/ b)
      PROVE  /\ raced' \in BOOLEAN
             /\ ~raced' => ~raced /\ ~b /\ \A s \in Requests \ {r} : ~Relies(s)
  <2>1. raced' \in BOOLEAN /\ (~raced' => ~raced /\ ~b /\ Relying = {})
    BY <1>3
  <2>2. Relying = {} => \A s \in Requests : ~Relies(s)
    BY DEF Relying, Relies
  <2> QED BY <2>1, <2>2
<1>4. ASSUME NewEmail(r), Running(r),
             req[r].op = "update" \/ req[r].op = "adminEmail"
      PROVE  MailInv'
  <2>1. /\ email' = email + 1 /\ confirmed' = FALSE /\ mail' = Nothing
        /\ finished' = finished \cup (IF req[r].n = None THEN {} ELSE {req[r].n})
        /\ UNCHANGED <<sent, proven>> /\ raced' = (raced \/ Relying # {})
    BY <1>4 DEF NewEmail
  <2>2. MailLess /\ \A p \in PurposeSet : mail'[p] = None
    BY <2>1, Lesser DEF MailInv, Nothing
  <2>3. req[r].n = None \/ \E m \in sent : m.n = req[r].n
    BY <1>4 DEF MailInv, MailCarries, Mailed
  <2>4. \A x \in finished' \ finished :
          /\ \E m \in sent : m.n = x
          /\ \A p \in PurposeSet : mail'[p] # None => mail'[p].n # x
    BY <2>1, <2>2, <2>3
  <2>5. raced' = (raced \/ Relying # {} \/ FALSE)
    BY <2>1
  <2>6. /\ raced' \in BOOLEAN
        /\ ~raced' => ~raced /\ \A s \in Requests \ {r} : ~Relies(s)
    BY <1>3, <2>5
  <2> QED BY <1>2, <2>1, <2>2, <2>4, <2>6, MailTurns
<1>5. ASSUME mail' = Nothing, UNCHANGED <<email, confirmed, sent, finished, proven, raced, status>>
      PROVE  MailInv'
  <2>1. MailLess /\ confirmed' \in BOOLEAN /\ proven' \subseteq 1..email /\ ConfirmedIsProven'
        /\ \A x \in finished' \ finished : FALSE
    BY <1>5, Lesser DEF MailInv, MailShape, ConfirmedIsProven
  <2> QED BY <1>2, <1>5, <2>1, EndOwesNothing, MailUses
<1>6. CASE UpdateEmail(r)
  <2>1. Running(r) /\ req[r].op = "update"
    BY <1>6 DEF UpdateEmail, At, Running
  <2> QED BY <1>2, <1>4, <1>5, <1>6, <2>1 DEF UpdateEmail
<1>7. CASE AdminEmail(r) /\ At(r, "adminEmail", "store")
  <2>1. Running(r) /\ req[r].op = "adminEmail" /\ status' = status
    BY <1>7 DEF AdminEmail, At, Running
  <2> QED BY <1>2, <1>4, <1>5, <1>7, <2>1 DEF AdminEmail, At
<1>8. CASE DeleteRows(r)
  <2>1. /\ UNCHANGED <<sent, email, confirmed, proven, mail>> /\ finished' = finished \cup {req[r].n}
        /\ raced' = (raced \/ Relying # {} \/ mail # Nothing)
        /\ At(r, "delete", "rows") /\ Running(r) /\ req[r].op = "delete"
    BY <1>8 DEF DeleteRows, At, Running
  <2>2. MailLess
    BY <2>1, Lesser DEF MailInv
  <2>3. "delete" \in PurposeSet
    BY PurposesAre
  <2>4. /\ \E m \in sent : m.n = req[r].n
        /\ \A q \in PurposeSet : q # "delete" /\ mail[q] # None => mail[q].n # req[r].n
    BY <2>1, <2>3, Brought
  <2>5. mail["delete"] = None \/ mail["delete"].n # req[r].n
    BY <2>1 DEF MailInv, TakenOut, At
  <2>6. \A x \in finished' \ finished :
          /\ \E m \in sent : m.n = x
          /\ \A p \in PurposeSet : mail'[p] # None => mail'[p].n # x
    BY <2>1, <2>4, <2>5
  <2>7. (mail # Nothing) \in BOOLEAN
    OBVIOUS
  <2>8. /\ raced' \in BOOLEAN
        /\ ~raced' => ~raced /\ ~(mail # Nothing) /\ \A s \in Requests \ {r} : ~Relies(s)
    BY <1>3, <2>1, <2>7
  <2> QED BY <1>2, <2>1, <2>2, <2>6, <2>8, MailTurns
<1>9. CASE Return(r)
  <2>1. UNCHANGED <<mail, sent, finished, proven, raced>>
    BY <1>9 DEF Return
  <2>2. MailLess /\ raced' \in BOOLEAN /\ \A x \in finished' \ finished : FALSE
    BY <2>1, Lesser DEF MailInv, MailShape
  <2>3. CASE status # "none" /\ UNCHANGED <<status, email, confirmed>>
    <3>1. UNCHANGED mailVars
      BY <2>1, <2>3 DEF mailVars
    <3> QED BY <1>2, <2>3, <3>1, EndOwesNothing, MailLooks
  <2>4. CASE status = "none" /\ email' = email + 1 /\ confirmed' = FALSE
    <3>1. ~raced => mail = Nothing /\ \A s \in Requests : ~Relies(s)
      BY <2>4 DEF MailInv, MailAddressed, Addressed
    <3> QED BY <1>2, <2>1, <2>2, <2>4, <3>1, MailTurns
  <2> QED BY <1>9, <2>3, <2>4 DEF Return
<1> QED BY <1>2, <1>6, <1>7, <1>8, <1>9
-----------------------------------------------------------------------------
(***************************************************************************)
(* The whole of it.                                                        *)
(***************************************************************************)
LEMMA MailStarting ==
  ASSUME Init
  PROVE  MailInv
<1> DEFINE had == IF confirmed THEN 5 ELSE 4
           number(p) == CHOOSE i \in DOMAIN Purposes : Purposes[i] = p
           mailed(i) == [n |-> i, for |-> Purposes[i], to |-> 1]
           f == [i \in 1..had |-> mailed(i)]
<1>1. /\ email = 1 /\ confirmed \in BOOLEAN /\ finished = {} /\ raced = FALSE
      /\ proven = IF confirmed THEN {1} ELSE {}
      /\ mail = [p \in PurposeSet |->
                   IF p = "update" => confirmed THEN Stored(number(p)) ELSE None]
      /\ sent = {mailed(i) : i \in {i \in DOMAIN Purposes : Purposes[i] = "update" => confirmed}}
  BY DEF Init, MailInit
<1>2. had \in 4..5 /\ 1..had \subseteq 1..5
  OBVIOUS
<1>3. {i \in DOMAIN Purposes : Purposes[i] = "update" => confirmed} = 1..had
  <2>1. \A i \in 1..5 : i # 5 => Purposes[i] # "update"
    BY PurposesAre
  <2>2. 1..had = {i \in 1..5 : i # 5 \/ confirmed}
    OBVIOUS
  <2> HIDE DEF had
  <2> QED BY <2>1, <2>2, PurposesAre
<1>4. sent = {mailed(i) : i \in 1..had}
  BY <1>1, <1>3
<1>5. \A i : mailed(i).n = i /\ mailed(i).for = Purposes[i] /\ mailed(i).to = 1
  OBVIOUS
<1>6. \A i \in 1..5 : mailed(i) \in [n : {i}, for : PurposeSet, to : {1}]
  BY PurposesAre DEF PurposeSet
<1>7. \A p \in PurposeSet : number(p) \in 1..5 /\ Purposes[number(p)] = p
  BY PurposesAre DEF PurposeSet
<1>8. \A p \in PurposeSet : (p = "update" => confirmed) => number(p) \in 1..had
  BY <1>3, <1>7, PurposesAre
<1> HIDE DEF number, mailed, had
<1>9. IsFiniteSet(sent) /\ Cardinality(sent) = had
  <2>1. f \in Bijection(1..had, sent)
    BY <1>4, <1>5 DEF Bijection, Injection, Surjection, IsInjective
  <2>2. IsFiniteSet(1..had) /\ Cardinality(1..had) = had
    BY <1>2, FS_Interval
  <2> QED BY <2>1, <2>2, FS_Bijection DEF ExistsBijection
<1>10. \A p \in PurposeSet : mail[p] # None =>
         /\ mail[p] = Stored(number(p)) /\ number(p) \in 1..had
         /\ mailed(number(p)) \in sent
  BY <1>1, <1>4, <1>8
<1>11. \A x : Stored(x).n = x /\ DOMAIN Stored(x) = {"n", "old"} /\ Stored(x).old = FALSE
  BY DEF Stored
<1>12. MailShape
  <2>1. \A p \in PurposeSet : mail[p] # None =>
          {"n", "old"} \subseteq DOMAIN mail[p] /\ mail[p].old \in BOOLEAN /\ mail[p].n \in Mailed(p)
    <3>1. ASSUME NEW p \in PurposeSet, mail[p] # None PROVE mail[p].n \in Mailed(p)
      <4>1. mailed(number(p)).for = p /\ mailed(number(p)).n = mail[p].n
        BY <1>5, <1>7, <1>10, <1>11, <3>1
      <4> QED BY <1>10, <3>1, <4>1 DEF Mailed
    <3> QED BY <1>10, <1>11, <3>1
  <2>2. sent \subseteq [n : 1..Cardinality(sent), for : PurposeSet, to : 1..email]
    BY <1>1, <1>2, <1>4, <1>6, <1>9
  <2>3. \A m, k \in sent : m.n = k.n => m = k
    BY <1>4, <1>5
  <2>4. proven \subseteq 1..email /\ email \in Nat \ {0} /\ finished \subseteq {m.n : m \in sent}
    BY <1>1
  <2> QED BY <1>1, <1>9, <2>1, <2>2, <2>3, <2>4 DEF MailShape
<1>13. ASSUME NEW r \in Requests PROVE MailCarries(r) /\ TakenOut(r) /\ Addressed(r)
  BY DEF Init, RequestsInit, Idle, MailCarries, Running, TakenOut, Addressed, At, Relies
<1>14. MailAddressed
  <2>1. ASSUME NEW p \in PurposeSet, mail[p] # None PROVE SentTo(mail[p].n) = {1}
    <3>1. mail[p].n = number(p) /\ mailed(number(p)) \in sent /\ mailed(number(p)).n = number(p)
      BY <1>5, <1>10, <1>11, <2>1
    <3>2. \A m \in sent : m.to = 1
      BY <1>4, <1>5
    <3> QED BY <3>1, <3>2 DEF SentTo
  <2> QED BY <1>1, <2>1 DEF MailAddressed, Init, RequestsInit
<1>15. UsedIsGone /\ ConfirmedIsProven
  BY <1>1 DEF UsedIsGone, ConfirmedIsProven
<1> QED BY <1>12, <1>13, <1>14, <1>15 DEF MailInv

LEMMA OAuthStarting ==
  ASSUME Init
  PROVE  OAuthInv
<1> DEFINE row == [tid |-> 1, code |-> 0, current |-> 1]
           g0 == [by |-> <<"code", 0>>, refresh |-> 1, row |-> 1]
           a0 == [code |-> 2, is |-> "coded"]
<1>1. /\ asked = <<a0>> /\ tokens = <<row>> /\ used = {} /\ device = TRUE /\ drawn = 2
      /\ taken = {g0}
  BY DEF Init, OAuthInit
<1>2. row.tid = 1 /\ row.current = 1 /\ g0.by = <<"code", 0>> /\ g0.refresh = 1 /\ g0.row = 1
      /\ a0.is = "coded" /\ a0.code = 2
  OBVIOUS
<1>3. row \in TokenRow /\ a0 \in [code : 0..drawn, is : {"open", "coded", "gone"}]
  BY <1>1 DEF TokenRow
<1>4. g0 \in [by : {"code", "refresh"} \X (0..drawn), refresh : 1..drawn, row : {1}]
  BY <1>1
<1> HIDE DEF row, g0, a0
<1>5. /\ DOMAIN tokens = {1} /\ tokens[1] = row /\ tokens \in Seq(TokenRow \cup {None})
      /\ DOMAIN asked = {1} /\ asked[1] = a0
      /\ asked \in Seq([code : 0..drawn, is : {"open", "coded", "gone"}])
  BY <1>1, <1>3
<1>6. Rows \subseteq {1}
  BY <1>5 DEF Rows
<1>7. OAuthShape
  BY <1>1, <1>4, <1>5 DEF OAuthShape, Exchanges
<1>8. ASSUME NEW r \in Requests
      PROVE  OAuthCarries(r) /\ RotatesCurrent(r) /\ ~At(r, "exchange", "create")
  BY DEF Init, RequestsInit, Idle, OAuthCarries, Running, RotatesCurrent, At
<1>9. CodesOnce
  <2>1. Untaken(<<"code", 2>>)
    BY <1>1, <1>2 DEF Untaken
  <2> QED BY <1>2, <1>5, <1>8, <2>1 DEF CodesOnce, CodeIsItsOwn, Creating
<1>10. RowsApart
  <2>1. Untaken(<<"refresh", 1>>)
    BY <1>1, <1>2 DEF Untaken
  <2> QED BY <1>2, <1>5, <1>6, <2>1 DEF RowsApart
<1>11. TakenOnce /\ ReplayRecognised
  BY <1>1, <1>2, <1>5 DEF TakenOnce, ReplayRecognised
<1> QED BY <1>7, <1>8, <1>9, <1>10, <1>11 DEF OAuthInv

LEMMA IInvInit == Init => IInv
<1> SUFFICES ASSUME Init PROVE IInv
  OBVIOUS
<1>1. AccountShape /\ RequestShape
  BY DEF Init, RequestsInit, AccountShape, RequestShape, Idle, Steps
<1> QED BY <1>1, OAuthStarting, MailStarting DEF IInv

LEMMA IInvStep == IInv /\ [Next]_vars => IInv'
<1> SUFFICES ASSUME IInv, [Next]_vars PROVE IInv'
  OBVIOUS
<1>0. AccountShape /\ RequestShape /\ OAuthInv /\ MailInv
  BY DEF IInv
<1>1. ASSUME NEW r \in Requests, OAuthStart(r) \/ OAuthStep(r), UNCHANGED mailVars PROVE IInv'
  <2>1. AccountShape' /\ (status' = "none" => status = "none")
    <3>1. CASE Takedown(r)
      BY <1>0, <3>1 DEF Takedown, AccountShape
    <3>2. CASE ~Takedown(r)
      <4>1. status' = status /\ password' = password
        BY <1>1, <3>2 DEF OAuthStart, OAuthStep, SignInUser, SignInVerify, SignInBind, SignOut,
             CreateRequest, GrantDevice, UpdateRequest, DeleteRequest, ConsumeRequestCode,
             CreateToken, FindTokenByCode, FindUsed, FindRow, RotateToken, ReadToken, DeleteToken
      <4> QED BY <1>0, <4>1 DEF AccountShape
    <3> QED BY <3>1, <3>2
  <2>2. OAuthInv' /\ Moves(r) /\ (req'[r].op \in OAuthOps \/ req'[r].at = "end")
    BY <1>0, <1>1, OAuthStarts, OAuthSteps
  <2>3. MailInv'
    BY <1>0, <1>1, <2>1, <2>2, MailAside
  <2> QED BY <2>1, <2>2, <2>3 DEF IInv, Moves
<1>2. ASSUME NEW r \in Requests, MailInv', Moves(r), AccountShape', UNCHANGED <<asked, tokens, used, drawn, taken>>,
             device' \in BOOLEAN, req'[r].op \in MailOps \cup {"return"} \/ req'[r].at = "end"
      PROVE  IInv'
  <2>1. OAuthInv'
    BY <1>0, <1>2, OpsApart, OAuthAside
  <2> QED BY <1>2, <2>1 DEF IInv, Moves
<1>3. ASSUME NEW r \in Requests, MailStart(r) \/ MailStep(r), UNCHANGED oauthVars PROVE IInv'
  <2>1. MailInv' /\ Moves(r) /\ (req'[r].op \in MailOps \/ req'[r].at = "end")
    <3>1. CASE \/ RequestPasswordReset(r) \/ RequestEmailConfirmation(r) \/ RequestAccountDelete(r)
               \/ RequestPlcOperationSignature(r) \/ RequestEmailUpdate(r)
      BY <1>0, <3>1, MailAsks DEF RequestPasswordReset, RequestEmailConfirmation,
         RequestAccountDelete, RequestPlcOperationSignature, RequestEmailUpdate
    <3>2. CASE AssertValidToken(r) \/ AssertValidTokenAndFindDid(r)
      <4>1. \E p \in PurposeSet :
              Check(r, p) /\ (At(r, p, "check") \/ (At(r, p, "start") /\ p # "confirm"))
        BY <3>2, PurposesAre DEF AssertValidToken, AssertValidTokenAndFindDid
      <4> QED BY <1>0, <4>1, MailChecks
    <3>3. CASE AdminEmail(r)
      <4>1. At(r, "adminEmail", "start") \/ At(r, "adminEmail", "store")
        BY <3>3 DEF AdminEmail
      <4> QED BY <1>0, <3>3, <4>1, MailReads, MailChanges
    <3> QED BY <1>0, <1>3, <3>1, <3>2, <3>3, MailStarts, MailCreates, MailReads, MailFinishes,
               MailClears, MailChanges DEF MailStep
  <2>2. AccountShape'
    <3>1. status' = status /\ password' \in {password, password + 1}
      BY <1>3 DEF MailStart, MailStep, RequestPasswordReset, RequestEmailConfirmation,
         RequestAccountDelete, RequestPlcOperationSignature, RequestEmailUpdate, Ask, MailCreate,
         AssertValidToken, AssertValidTokenAndFindDid, Check, ConfirmUser, ConfirmStore, UpdateUser,
         UpdateEmail, NewEmail, AdminEmail, ResetPassword, AdminPassword, UpdateAccountPassword,
         PlcCleanup, PlcSign, DeleteUser
    <3> QED BY <1>0, <3>1 DEF AccountShape
  <2>3. UNCHANGED <<asked, tokens, used, drawn, taken>> /\ device' \in BOOLEAN
    BY <1>0, <1>3 DEF oauthVars, OAuthInv, OAuthShape
  <2> QED BY <1>2, <2>1, <2>2, <2>3
<1>4. ASSUME NEW r \in Requests, ReturnStart(r) PROVE IInv'
  <2> DEFINE q == [op |-> "return", at |-> "start"]
  <2>1. Go(r, q) /\ UNCHANGED <<status, password, oauthVars, mailVars>>
    BY <1>4 DEF ReturnStart, Begin
  <2>2. DOMAIN q = {"op", "at"} /\ q.op = "return" /\ q.at = "start"
    OBVIOUS
  <2>3. "start" \in Steps
    BY DEF Steps
  <2> HIDE DEF q
  <2>4. Moves(r) /\ req'[r].op = "return"
    BY <1>0, <2>1, <2>2, <2>3, GoIs, GoShape DEF Moves
  <2>5. MailInv'
    BY <1>0, <2>1, <2>4, MailAside
  <2>6. AccountShape' /\ UNCHANGED <<asked, tokens, used, drawn, taken>> /\ device' \in BOOLEAN
    BY <1>0, <2>1 DEF AccountShape, oauthVars, OAuthInv, OAuthShape
  <2> QED BY <1>2, <2>4, <2>5, <2>6
<1>5. ASSUME NEW r \in Requests, DeleteMail(r) \/ DeleteRows(r) \/ Return(r) PROVE IInv'
  <2>1. MailInv' /\ Moves(r) /\ (req'[r].op \in MailOps \/ req'[r].at = "end")
    BY <1>0, <1>5, MailClears, MailChanges
  <2>2. AccountShape'
    BY <1>0, <1>5 DEF DeleteMail, DeleteRows, Return, AccountShape
  <2>3. UNCHANGED <<asked, tokens, used, drawn, taken>> /\ device' \in BOOLEAN
    BY <1>0, <1>5 DEF DeleteMail, DeleteRows, Return, oauthVars, OAuthInv, OAuthShape
  <2> QED BY <1>2, <2>1, <2>2, <2>3
<1>6. ASSUME RemoveOldExpired, UNCHANGED <<status, password, mailVars>> PROVE IInv'
  <2>1. OAuthInv' /\ RequestShape' /\ req' = req
    BY <1>0, <1>6, OAuthExpires
  <2>2. Moves(0) /\ 0 \notin Requests
    BY <2>1 DEF Moves, Requests
  <2>3. MailInv' /\ AccountShape'
    BY <1>0, <1>6, <2>2, MailLooks DEF AccountShape
  <2> QED BY <2>1, <2>3 DEF IInv
<1>7. ASSUME UNCHANGED vars PROVE IInv'
  <2>1. UNCHANGED <<status, password, req, asked, tokens, used, device, drawn, taken, mailVars>>
    BY <1>7 DEF vars, oauthVars
  <2>2. Moves(0) /\ 0 \notin Requests
    BY <1>0, <2>1 DEF Moves, Requests, RequestShape
  <2>3. MailInv' /\ AccountShape' /\ RequestShape'
    BY <1>0, <2>1, <2>2, MailLooks DEF AccountShape, Moves
  <2>4. OAuthInv'
    BY <1>0, <2>1 DEF OAuthInv, OAuthShape, TokenRow, Exchanges, Rows, OAuthCarries, Running,
       RotatesCurrent, CodesOnce, CodeIsItsOwn, Creating, Untaken, At, RowsApart, TakenOnce, ReplayRecognised
  <2> QED BY <2>3, <2>4 DEF IInv
<1> QED BY <1>1, <1>3, <1>4, <1>5, <1>6, <1>7 DEF Next, Start

LEMMA IInvariant == Spec => []IInv
BY IInvInit, IInvStep, PTL DEF Spec

\* Rows, requests and what was mailed have their types in every reachable state:
\* whatever the steps of an exchange, a rotation and a deletion interleave with.
THEOREM TypeCorrect == Spec => []TypeOK
<1>1. IInv => TypeOK
  <2> SUFFICES ASSUME IInv PROVE TypeOK
    OBVIOUS
  <2>1. OAuthTypeOK
    <3>1. \A i \in Rows : tokens[i] \in TokenRow
      <4>1. \A i \in DOMAIN tokens : tokens[i] \in TokenRow \cup {None}
        BY SeqElement DEF IInv, OAuthInv, OAuthShape
      <4> QED BY <4>1 DEF Rows
    <3> QED BY <3>1, OAuthTypes DEF IInv, OAuthInv, OAuthShape, OAuthTypeOK, TokenRow
  <2>2. MailTypeOK
    BY DEF IInv, MailInv, MailShape, MailTypeOK
  <2> QED BY <2>1, <2>2 DEF IInv, AccountShape, RequestShape, TypeOK
<1> QED BY <1>1, IInvariant, PTL

\* A code, and a refresh token, is exchanged for a refresh token at most once,
\* however many requests hold it: consumeRequestCode finds and deletes the code in
\* one statement, and rotateToken finds the row by an id that it changes.
THEOREM CodesAndTokensTakenOnce == Spec => []TakenOnce
<1>1. IInv => TakenOnce
  BY DEF IInv, OAuthInv
<1> QED BY <1>1, IInvariant, PTL

\* As long as a row of a token exists, each refresh token it ever had leads to it:
\* one that comes again is recognised by used_refresh_token or as the current one.
THEOREM ReplaysRecognised == Spec => []ReplayRecognised
<1>1. IInv => ReplayRecognised
  BY DEF IInv, OAuthInv
<1> QED BY <1>1, IInvariant, PTL

\* A mailed token that has taken effect is not in the table any more, for every
\* purpose and whatever was asked for beside it; also where, as for the deletion
\* of an account and for an operation of its DID, it takes effect a step later.
THEOREM UsedTokensGone == Spec => []UsedIsGone
<1>1. IInv => UsedIsGone
  BY DEF IInv, MailInv
<1> QED BY <1>1, IInvariant, PTL

\* The address of an account is confirmed only if a token mailed to that address
\* came back, unless a change of the address raced with another request.
THEOREM ConfirmedAddressesProven == Spec => []ConfirmedIsProven
<1>1. IInv => ConfirmedIsProven
  BY DEF IInv, MailInv
<1> QED BY <1>1, IInvariant, PTL
=============================================================================
