--------------------------- MODULE InvitesProofs ---------------------------
(***************************************************************************)
(* Proofs about Invites, for any number of requests at once, any interval, *)
(* epoch and clock: no code is used too often, and an excess of codes is   *)
(* always told to a request.                                               *)
(***************************************************************************)
EXTENDS Invites, FiniteSetTheorems, TLAPS

Steps == {"new", "start", "uses", "register", "codes", "insert", "count", "end"}
Request == [op : Ops \cup {None}, at : Steps, code : Nat, off : BOOLEAN, seen : Seq(Code),
            n : 0..MaxOpen, total : Nat]

Ended == {r \in Requests : req[r].at = "end"}
Shape ==
  /\ codes \in Seq(Code)
  /\ clock \in Times \cup {CreatedAt} /\ clock >= CreatedAt
  /\ down \in BOOLEAN /\ stopped \in BOOLEAN
  /\ req \in [Requests -> Request]
  /\ \A r \in Requests : req[r].code \in 0..Len(codes)
  /\ refused \in Nat /\ refused <= Cardinality(Ended)

Stock == Cardinality(Routine(codes))
EarnedAt(t) == Cardinality(Lived(t) \ Lived(Epoch))
RoutineAfterEpoch == \A i \in Routine(codes) : codes[i].at > Epoch

\* The codes that were read are codes that there still are, and no younger.
SeenIsOlder(rows) ==
  \A i \in DOMAIN rows :
    /\ i \in DOMAIN codes
    /\ rows[i].routine = codes[i].routine /\ rows[i].at = codes[i].at
    /\ rows[i].available = codes[i].available /\ (rows[i].disabled => codes[i].disabled)

\* What is to be inserted is right for the codes that were read: nobody may have
\* inserted any in the meantime.
Listing(r) ==
  /\ At(r, "list", "uses") => SeenIsOlder(req[r].seen)
  /\ At(r, "list", "insert") =>
       /\ req[r].n > 0 /\ clock > Epoch
       /\ req[r].total <= Stock + req[r].n /\ req[r].total <= EarnedAt(clock)
       /\ Stock + req[r].n = req[r].total => Cardinality(Open(codes)) + req[r].n <= MaxOpen
  /\ At(r, "list", "count") => req[r].total <= EarnedAt(clock)

\* Where codes are in excess, somebody has still to count them.
WillTell == \E r \in Requests : At(r, "list", "count") /\ Stock > req[r].total
Excess == refused = 0 => (FewOpen /\ Earned) \/ WillTell

IInv == Shape /\ UsesBounded /\ RoutineAfterEpoch /\ (\A r \in Requests : Listing(r)) /\ Excess
-----------------------------------------------------------------------------
(***************************************************************************)
(* What an account has earned.                                             *)
(***************************************************************************)
LEMMA Divides ==
  ASSUME NEW x \in Nat, NEW i \in Nat \ {0}, NEW k \in Nat
  PROVE  x \div i \in Nat /\ (k * i <= x <=> k <= x \div i)
<1>1. x \div i \in Nat /\ i * (x \div i) <= x /\ x < i * (x \div i) + i
  OBVIOUS
<1> DEFINE q == x \div i
<1>2. q \in Nat /\ i * q <= x /\ x < i * q + i
  BY <1>1
<1> HIDE DEF q
<1>3. ASSUME k <= q PROVE k * i <= x
  <2>1. k * i <= q * i
    BY <1>2, <1>3
  <2> QED BY <1>2, <2>1
<1>4. ASSUME k >= q + 1 PROVE k * i > x
  <2>1. k * i >= (q + 1) * i
    BY <1>2, <1>4
  <2>2. (q + 1) * i = i * q + i
    BY <1>2
  <2> QED BY <1>2, <2>1, <2>2
<1> QED BY <1>2, <1>3, <1>4 DEF q

LEMMA LivedIs ==
  ASSUME NEW t \in Nat
  PROVE  /\ IsFiniteSet(Lived(t))
         /\ t >= CreatedAt => /\ (t - CreatedAt) \div Interval \in Nat
                              /\ Lived(t) = 1..((t - CreatedAt) \div Interval)
         /\ t <= CreatedAt => Lived(t) = {}
         /\ \A u \in Nat : t <= u => Lived(t) \subseteq Lived(u)
<1>1. CreatedAt \in Nat /\ Interval \in Nat \ {0}
  BY InvitesAssumption
<1>2. \A k \in Nat : k * Interval \in Nat /\ k <= k * Interval
  BY <1>1
<1>3. IsFiniteSet(Lived(t))
  <2>1. IsFiniteSet(1..t) /\ Lived(t) \subseteq 1..t
    BY FS_Interval DEF Lived
  <2> QED BY <2>1, FS_Subset
<1>4. ASSUME t >= CreatedAt
      PROVE  /\ (t - CreatedAt) \div Interval \in Nat
             /\ Lived(t) = 1..((t - CreatedAt) \div Interval)
  <2> DEFINE x == t - CreatedAt
             q == x \div Interval
  <2>1. x \in Nat
    BY <1>1, <1>4
  <2>2. q \in Nat /\ \A k \in Nat : k * Interval <= x <=> k <= q
    BY <1>1, <2>1, Divides
  <2>3. \A k \in Nat : CreatedAt + k * Interval <= t <=> k * Interval <= x
    BY <1>1, <1>2
  <2> HIDE DEF x, q
  <2>4. \A k \in Nat : CreatedAt + k * Interval <= t => k <= t
    BY <1>1, <1>2
  <2>5. Lived(t) = 1..q
    BY <2>2, <2>3, <2>4 DEF Lived
  <2> QED BY <2>2, <2>5 DEF q, x
<1>5. ASSUME t <= CreatedAt PROVE Lived(t) = {}
  <2>1. \A k \in 1..t : k * Interval \in Nat /\ k * Interval >= 1
    BY <1>2
  <2> QED BY <1>1, <1>5, <2>1 DEF Lived
<1>6. ASSUME NEW u \in Nat, t <= u PROVE Lived(t) \subseteq Lived(u)
  <2>1. \A k \in 1..t : k \in 1..u /\ k * Interval \in Nat
    BY <1>2, <1>6
  <2> QED BY <1>1, <1>6, <2>1 DEF Lived
<1> QED BY <1>3, <1>4, <1>5, <1>6

LEMMA EarnedGrows ==
  ASSUME NEW t \in Nat, NEW u \in Nat, t <= u
  PROVE  EarnedAt(t) \in Nat /\ EarnedAt(u) \in Nat /\ EarnedAt(t) <= EarnedAt(u)
<1>1. IsFiniteSet(Lived(u)) /\ Lived(t) \subseteq Lived(u)
  BY LivedIs
<1>2. IsFiniteSet(Lived(u) \ Lived(Epoch)) /\ (Lived(t) \ Lived(Epoch)) \subseteq (Lived(u) \ Lived(Epoch))
  BY <1>1, FS_Subset
<1> QED BY <1>2, FS_Subset, FS_CardinalityType DEF EarnedAt

\* The arithmetic of calculateCodesToCreate, against the intervals lived.
LEMMA CouldCreateIsEarned ==
  ASSUME NEW t \in Nat, t >= CreatedAt
  PROVE  /\ CouldCreate(t) \in Int /\ CouldCreate(t) <= EarnedAt(t)
         /\ CouldCreate(t) >= 1 => t > Epoch
<1>1. CreatedAt \in Nat /\ Epoch \in Nat /\ Interval \in Nat \ {0}
  BY InvitesAssumption
<1> DEFINE q == (t - CreatedAt) \div Interval
           e == (Epoch - CreatedAt) \div Interval
<1>2. q \in Nat /\ Lived(t) = 1..q
  BY <1>1, LivedIs
<1>3. CASE CreatedAt >= Epoch
  <2>1. Lived(Epoch) = {} /\ CouldCreate(t) = q
    BY <1>1, <1>3, LivedIs DEF CouldCreate
  <2>2. EarnedAt(t) = Cardinality(1..q)
    BY <1>2, <2>1 DEF EarnedAt
  <2>3. q >= 1 => t > CreatedAt
    <3>1. t = CreatedAt => Lived(t) = {}
      BY <1>1, LivedIs
    <3>2. q >= 1 => 1 \in 1..q
      BY <1>2
    <3> QED BY <1>1, <1>2, <3>1, <3>2
  <2> HIDE DEF q
  <2>4. Cardinality(1..q) = q
    BY <1>2, FS_Interval
  <2> QED BY <1>1, <1>2, <1>3, <2>1, <2>2, <2>3, <2>4
<1>4. CASE CreatedAt < Epoch
  <2>1. e \in Nat /\ Lived(Epoch) = 1..e /\ CouldCreate(t) = q - e
    BY <1>1, <1>4, LivedIs DEF CouldCreate
  <2>2. EarnedAt(t) = Cardinality((1..q) \ (1..e))
    BY <1>2, <2>1 DEF EarnedAt
  <2>3. q >= e + 1 => t > Epoch
    <3>1. t <= Epoch => Lived(t) \subseteq Lived(Epoch)
      BY <1>1, LivedIs
    <3>2. q >= e + 1 => e + 1 \in 1..q /\ e + 1 \notin 1..e
      BY <1>2, <2>1
    <3> QED BY <1>1, <1>2, <2>1, <3>1, <3>2
  <2> HIDE DEF q, e
  <2>4. (1..q) \ (1..e) = (e + 1)..q
    BY <1>2, <2>1
  <2>5. Cardinality((e + 1)..q) = IF e + 1 > q THEN 0 ELSE q - e
    <3>1. e + 1 \in Int /\ q \in Int
      BY <1>2, <2>1
    <3>2. Cardinality((e + 1)..q) = IF e + 1 > q THEN 0 ELSE q - (e + 1) + 1
      BY ONLY <3>1, FS_Interval
    <3> QED BY <1>2, <2>1, <3>2
  <2>6. EarnedAt(t) = IF e + 1 > q THEN 0 ELSE q - e
    BY <2>2, <2>4, <2>5
  <2> QED BY <1>2, <2>1, <2>3, <2>6
<1> QED BY <1>1, <1>3, <1>4
-----------------------------------------------------------------------------
(***************************************************************************)
(* Codes and requests.                                                     *)
(***************************************************************************)
LEMMA RoutineFinite ==
  ASSUME NEW rows \in Seq(Code)
  PROVE  /\ IsFiniteSet(Routine(rows)) /\ IsFiniteSet(Open(rows)) /\ Open(rows) \subseteq Routine(rows)
         /\ Cardinality(Routine(rows)) \in Nat /\ Cardinality(Open(rows)) \in Nat
<1>1. Routine(rows) \subseteq 1..Len(rows) /\ Open(rows) \subseteq Routine(rows)
  BY DEF Routine, Open
<1>2. IsFiniteSet(1..Len(rows))
  BY FS_Interval
<1> QED BY <1>1, <1>2, FS_Subset, FS_CardinalityType

LEMMA CodeTypes ==
  ASSUME NEW rows \in Seq(Code), NEW i \in DOMAIN rows
  PROVE  rows[i] \in Code /\ rows[i].uses \in Nat /\ rows[i].available \in Nat
<1>1. rows[i] \in Code
  OBVIOUS
<1>2. rows[i].uses \in Nat /\ rows[i].available \in 1..(GiftUses + 1)
  BY <1>1 DEF Code
<1>3. 1..(GiftUses + 1) \subseteq Nat
  BY InvitesAssumption
<1> QED BY <1>1, <1>2, <1>3

LEMMA GoIs ==
  ASSUME Shape, NEW r \in Requests, NEW q \in Request, Go(r, q), req[r].at # "end"
  PROVE  /\ req' \in [Requests -> Request] /\ req'[r] = q
         /\ \A s \in Requests \ {r} : req'[s] = req[s]
         /\ Cardinality(Ended) \in Nat /\ Cardinality(Ended') \in Nat
         /\ Cardinality(Ended) <= Cardinality(Ended')
         /\ q.at = "end" => Cardinality(Ended') = Cardinality(Ended) + 1
<1>1. /\ req' \in [Requests -> Request] /\ req'[r] = q
      /\ \A s \in Requests \ {r} : req'[s] = req[s]
  BY DEF Shape, Go
<1>2. Ended \subseteq Requests /\ Ended' \subseteq Requests /\ Ended \subseteq Ended'
      /\ r \notin Ended /\ (q.at = "end" => Ended' = Ended \cup {r})
  BY <1>1 DEF Ended
<1>3. IsFiniteSet(Requests)
  <2>1. 1 \in Int /\ MaxRequests \in Int
    BY InvitesAssumption
  <2> QED BY <2>1, FS_Interval DEF Requests
<1>4. IsFiniteSet(Ended) /\ IsFiniteSet(Ended')
  BY <1>2, <1>3, FS_Subset
<1> QED BY <1>1, <1>2, <1>4, FS_Subset, FS_AddElement, FS_CardinalityType

\* Codes only grow older, and what is added is no code of the routine.
CodesAge ==
  /\ codes' \in Seq(Code) /\ DOMAIN codes \subseteq DOMAIN codes' /\ Len(codes) <= Len(codes')
  /\ \A i \in DOMAIN codes :
       /\ codes'[i].routine = codes[i].routine /\ codes'[i].at = codes[i].at
       /\ codes'[i].available = codes[i].available
       /\ (codes[i].disabled => codes'[i].disabled) /\ codes[i].uses <= codes'[i].uses
  /\ \A i \in DOMAIN codes' \ DOMAIN codes : ~codes'[i].routine

LEMMA Aged ==
  ASSUME Shape, CodesAge
  PROVE  /\ Routine(codes') = Routine(codes) /\ Open(codes') \subseteq Open(codes)
         /\ Stock' = Stock /\ Stock \in Nat
         /\ Cardinality(Open(codes)) \in Nat /\ Cardinality(Open(codes')) \in Nat
         /\ Cardinality(Open(codes')) <= Cardinality(Open(codes))
<1>1. codes \in Seq(Code) /\ codes' \in Seq(Code)
  BY DEF Shape, CodesAge
<1>2. Routine(codes') = Routine(codes)
  BY DEF CodesAge, Routine
<1>3. ASSUME NEW i \in Open(codes') PROVE i \in Open(codes)
  <2>1. i \in Routine(codes) /\ i \in DOMAIN codes /\ i \in DOMAIN codes'
    BY <1>2 DEF Open, Routine
  <2>2. codes[i] \in Code /\ codes'[i] \in Code
    BY <1>1, <2>1, CodeTypes
  <2>3. /\ codes[i].available \in Nat /\ codes[i].uses \in Nat
        /\ codes'[i].available \in Nat /\ codes'[i].uses \in Nat
    BY <2>2, InvitesAssumption DEF Code
  <2>4. ~codes'[i].disabled /\ codes'[i].available > codes'[i].uses
    BY DEF Open
  <2>5. ~codes[i].disabled /\ codes[i].available > codes[i].uses
    BY <2>1, <2>3, <2>4 DEF CodesAge
  <2> QED BY <2>1, <2>5 DEF Open
<1>4. IsFiniteSet(Open(codes)) /\ Cardinality(Open(codes)) \in Nat
      /\ Cardinality(Open(codes')) \in Nat /\ Cardinality(Routine(codes)) \in Nat
  BY <1>1, RoutineFinite
<1>5. Cardinality(Open(codes')) <= Cardinality(Open(codes))
  BY <1>3, <1>4, FS_Subset
<1> QED BY <1>2, <1>3, <1>4, <1>5 DEF Stock

\* A step that inserts no code of the routine and counts none.
LEMMA Kept ==
  ASSUME IInv, NEW r \in Requests, NEW q \in Request, Go(r, q), req[r].at # "end", CodesAge,
         clock' = clock, refused' = refused, down' \in BOOLEAN, stopped' \in BOOLEAN,
         q.code \in 0..Len(codes'), UsesBounded',
         ~At(r, "list", "count"), Listing(r)'
  PROVE  IInv'
<1>1. /\ req' \in [Requests -> Request] /\ req'[r] = q
      /\ \A s \in Requests \ {r} : req'[s] = req[s]
      /\ Cardinality(Ended) \in Nat /\ Cardinality(Ended') \in Nat
      /\ Cardinality(Ended) <= Cardinality(Ended')
  BY GoIs DEF IInv
<1>2. /\ Routine(codes') = Routine(codes) /\ Open(codes') \subseteq Open(codes)
      /\ Stock' = Stock /\ Stock \in Nat
      /\ Cardinality(Open(codes)) \in Nat /\ Cardinality(Open(codes')) \in Nat
      /\ Cardinality(Open(codes')) <= Cardinality(Open(codes))
  BY Aged DEF IInv
<1>3. Shape'
  <2>1. \A s \in Requests : req'[s].code \in 0..Len(codes')
    <3>1. Len(codes) \in Nat /\ Len(codes') \in Nat /\ Len(codes) <= Len(codes')
      BY DEF IInv, Shape, CodesAge
    <3>2. 0..Len(codes) \subseteq 0..Len(codes')
      BY <3>1
    <3> QED BY <1>1, <3>2 DEF IInv, Shape
  <2> QED BY <1>1, <2>1 DEF IInv, Shape, CodesAge
<1>4. RoutineAfterEpoch'
  BY <1>2 DEF IInv, RoutineAfterEpoch, CodesAge, Routine
<1>5. ASSUME NEW s \in Requests PROVE Listing(s)'
  <2>1. CASE s = r
    BY <2>1
  <2>2. CASE s # r
    <3>1. req'[s] = req[s] /\ Listing(s) /\ req[s] \in Request
      BY <1>1, <2>2 DEF IInv, Shape
    <3>2. ASSUME At(s, "list", "uses"), NEW rows, rows = req[s].seen PROVE SeenIsOlder(rows)'
      BY <3>1, <3>2 DEF Listing, SeenIsOlder, CodesAge
    <3>3. req[s].n \in Nat /\ req[s].total \in Nat
      BY <3>1 DEF Request, MaxOpen
    <3>4. At(s, "list", "insert") /\ Stock' + req[s].n = req[s].total =>
            Cardinality(Open(codes')) + req[s].n <= MaxOpen
      BY <1>2, <3>1, <3>3 DEF Listing, MaxOpen
    <3>5. /\ At(s, "list", "uses")' <=> At(s, "list", "uses")
          /\ At(s, "list", "insert")' <=> At(s, "list", "insert")
          /\ At(s, "list", "count")' <=> At(s, "list", "count")
      BY <3>1 DEF At
    <3>6. EarnedAt(clock)' = EarnedAt(clock)
      BY DEF EarnedAt, Lived
    <3>7. (At(s, "list", "uses") => SeenIsOlder(req[s].seen))'
      BY <3>1, <3>2, <3>5 DEF SeenIsOlder
    <3>8. At(s, "list", "insert")' =>
            /\ req'[s].n > 0 /\ clock' > Epoch
            /\ req'[s].total <= Stock' + req'[s].n /\ req'[s].total <= EarnedAt(clock)'
            /\ Stock' + req'[s].n = req'[s].total => Cardinality(Open(codes')) + req'[s].n <= MaxOpen
      BY <1>2, <3>1, <3>4, <3>5, <3>6 DEF Listing
    <3>9. At(s, "list", "count")' => req'[s].total <= EarnedAt(clock)'
      BY <3>1, <3>5, <3>6 DEF Listing
    <3> QED BY <3>7, <3>8, <3>9 DEF Listing
  <2> QED BY <2>1, <2>2
<1>6. Excess'
  <2>1. FewOpen => FewOpen'
    BY <1>2 DEF FewOpen, MaxOpen
  <2>2. Earned => Earned'
    BY <1>2 DEF Earned, Stock
  <2>3. WillTell => WillTell'
    <3>1. \A s \in Requests : At(s, "list", "count") => s # r /\ req'[s] = req[s]
      BY <1>1
    <3> QED BY <1>2, <3>1 DEF WillTell, At
  <2> QED BY <2>1, <2>2, <2>3 DEF IInv, Excess
<1> QED BY <1>3, <1>4, <1>5, <1>6 DEF IInv

\* A step that leads to no insertion.
LEMMA Plain ==
  ASSUME IInv, NEW r \in Requests, NEW q \in Request, Go(r, q), req[r].at # "end", CodesAge,
         clock' = clock, refused' = refused, down' \in BOOLEAN, stopped' \in BOOLEAN,
         q.code \in 0..Len(codes'), UsesBounded',
         ~At(r, "list", "count"), q.at \notin {"insert", "count"},
         q.op = "list" /\ q.at = "uses" => q.seen = codes /\ codes' = codes
  PROVE  IInv'
<1>1. req'[r] = q
  BY GoIs DEF IInv
<1>2. ASSUME At(r, "list", "uses")', NEW rows, rows = req'[r].seen PROVE SeenIsOlder(rows)'
  <2>1. rows = codes /\ codes' = codes
    BY <1>1, <1>2 DEF At
  <2> QED BY <2>1 DEF SeenIsOlder
<1>3. ~At(r, "list", "insert")' /\ ~At(r, "list", "count")'
  BY <1>1 DEF At
<1>4. Listing(r)'
  BY <1>2, <1>3 DEF Listing, SeenIsOlder
<1> QED BY <1>4, Kept

LEMMA SameCodes ==
  ASSUME IInv, UNCHANGED codes
  PROVE  CodesAge /\ UsesBounded'
<1>1. \A i \in DOMAIN codes : codes[i].uses \in Nat
  BY CodeTypes DEF IInv, Shape, Code
<1> QED BY <1>1 DEF IInv, Shape, CodesAge, UsesBounded

LEMMA RequestIs ==
  ASSUME Shape, NEW r \in Requests
  PROVE  /\ req[r] \in Request
         /\ \A step \in Steps : [req[r] EXCEPT !.at = step] \in Request
         /\ [Idle EXCEPT !.op = req[r].op, !.at = "end"] \in Request
<1>1. req[r] \in Request
  BY DEF Shape
<1>2. \A step \in Steps : [req[r] EXCEPT !.at = step] \in Request
  BY <1>1 DEF Request
<1>3. <<>> \in Seq(Code) /\ 0 \in 0..MaxOpen /\ "end" \in Steps
  BY DEF MaxOpen, Steps
<1>4. [Idle EXCEPT !.op = req[r].op, !.at = "end"] \in Request
  BY <1>1, <1>3 DEF Request, Idle
<1> QED BY <1>1, <1>2, <1>4

LEMMA EndKeeps ==
  ASSUME IInv, NEW r \in Requests, End(r), req[r].at # "end", CodesAge, UsesBounded',
         clock' = clock, refused' = refused, down' \in BOOLEAN, stopped' \in BOOLEAN,
         ~At(r, "list", "count")
  PROVE  IInv'
<1> DEFINE q == [Idle EXCEPT !.op = req[r].op, !.at = "end"]
<1>1. q \in Request /\ Go(r, q)
  BY RequestIs DEF IInv, End
<1>2. q.at = "end" /\ q.code = 0
  BY DEF Idle
<1>3. 0 \in 0..Len(codes')
  BY DEF CodesAge
<1> HIDE DEF q
<1> QED BY <1>1, <1>2, <1>3, Plain

LEMMA ToKeeps ==
  ASSUME IInv, NEW r \in Requests, NEW step \in Steps \ {"insert", "count"}, To(r, step),
         req[r].at # "end", step = "uses" => req[r].op # "list",
         UNCHANGED <<codes, clock, down, stopped, refused>>, ~At(r, "list", "count")
  PROVE  IInv'
<1> DEFINE q == [req[r] EXCEPT !.at = step]
<1>1. q \in Request /\ Go(r, q) /\ req[r] \in Request
  BY RequestIs DEF IInv, To
<1>2. q.at = step /\ q.code = req[r].code /\ q.op = req[r].op
  BY <1>1 DEF Request
<1>3. CodesAge /\ UsesBounded' /\ q.code \in 0..Len(codes') /\ down' \in BOOLEAN /\ stopped' \in BOOLEAN
  BY <1>2, SameCodes DEF IInv, Shape
<1> HIDE DEF q
<1> QED BY <1>1, <1>2, <1>3, Plain

LEMMA StartKeeps ==
  ASSUME IInv, NEW r \in Requests, NEW op \in Ops, NEW c \in DOMAIN codes, Start(r, op, c)
  PROVE  IInv'
<1> DEFINE n == IF op \in {"signup", "disable"} THEN c ELSE 0
           q == [Idle EXCEPT !.op = op, !.at = "start", !.code = n]
<1>1. Go(r, q) /\ UNCHANGED <<codes, clock, down, stopped, refused>> /\ req[r] = Idle
  BY DEF Start
<1>2. n \in Nat /\ n \in 0..Len(codes)
  BY DEF IInv, Shape
<1>3. <<>> \in Seq(Code) /\ 0 \in 0..MaxOpen /\ "start" \in Steps
  BY DEF MaxOpen, Steps
<1> HIDE DEF n
<1>4. q \in Request /\ q.at = "start" /\ q.code = n
  BY <1>2, <1>3 DEF Request, Idle
<1>5. req[r].at = "new"
  BY <1>1 DEF Idle
<1>6. CodesAge /\ UsesBounded' /\ down' \in BOOLEAN /\ stopped' \in BOOLEAN /\ n \in 0..Len(codes')
  BY <1>1, <1>2, SameCodes DEF IInv, Shape
<1> HIDE DEF q
<1> QED BY <1>1, <1>4, <1>5, <1>6, Plain DEF At

\* The sign-up: what the transaction checks again is what it changes.
LEMMA SignUpKeeps ==
  ASSUME IInv, NEW r \in Requests, Precheck(r) \/ Register(r)
  PROVE  IInv'
<1>1. /\ req[r].at # "end" /\ req[r].op = "signup" /\ ~At(r, "list", "count")
      /\ UNCHANGED <<clock, down, stopped, refused>>
  BY DEF Precheck, Register, At
<1>2. "uses" \in Steps \ {"insert", "count"} /\ "register" \in Steps \ {"insert", "count"}
  BY DEF Steps
<1>3. down' \in BOOLEAN /\ stopped' \in BOOLEAN
  BY <1>1 DEF IInv, Shape
<1>4. CASE Precheck(r)
  <2>1. UNCHANGED codes
    BY <1>4 DEF Precheck
  <2>2. End(r) \/ To(r, "uses") \/ To(r, "register")
    BY <1>4 DEF Precheck
  <2>3. CodesAge /\ UsesBounded'
    BY <2>1, SameCodes
  <2>4. CASE End(r)
    BY <1>1, <1>3, <2>3, <2>4, EndKeeps
  <2>5. CASE To(r, "uses")
    BY <1>1, <1>2, <2>1, <2>5, ToKeeps
  <2>6. CASE To(r, "register")
    BY <1>1, <1>2, <2>1, <2>6, ToKeeps
  <2> QED BY <2>2, <2>4, <2>5, <2>6
<1>5. CASE Register(r)
  <2> DEFINE c == req[r].code
  <2>1. CASE UNCHANGED codes
    BY <1>1, <1>3, <1>5, <2>1, SameCodes, EndKeeps DEF Register
  <2>2. CASE Left(c) /\ Use(c)
    <3> DEFINE new == [codes[c] EXCEPT !.uses = @ + 1]
    <3>1. codes' = [codes EXCEPT ![c] = new]
      BY <2>2 DEF Use
    <3>2. codes \in Seq(Code)
      BY DEF IInv, Shape
    <3>3. CASE c \in DOMAIN codes
      <4>1. codes[c] \in Code /\ codes[c].uses \in Nat /\ codes[c].available \in Nat
        BY <3>2, <3>3, CodeTypes
      <4>2. /\ new \in Code /\ new.uses = codes[c].uses + 1 /\ new.available = codes[c].available
            /\ new.routine = codes[c].routine /\ new.at = codes[c].at
            /\ new.disabled = codes[c].disabled
        BY <4>1 DEF Code
      <4> HIDE DEF new
      <4>3. /\ codes' \in Seq(Code) /\ DOMAIN codes' = DOMAIN codes /\ Len(codes') = Len(codes)
            /\ codes'[c] = new /\ \A i \in DOMAIN codes : i # c => codes'[i] = codes[i]
        BY <3>1, <3>2, <3>3, <4>2
      <4>4. \A i \in DOMAIN codes : codes[i].uses \in Nat
        BY <3>2, CodeTypes DEF Code
      <4>5. CodesAge
        <5>1. ASSUME NEW i \in DOMAIN codes
              PROVE  /\ codes'[i].routine = codes[i].routine /\ codes'[i].at = codes[i].at
                     /\ codes'[i].available = codes[i].available
                     /\ (codes[i].disabled => codes'[i].disabled) /\ codes[i].uses <= codes'[i].uses
          <6>1. CASE i = c
            BY <4>1, <4>2, <4>3, <6>1
          <6>2. CASE i # c
            BY <4>3, <4>4, <6>2
          <6> QED BY <6>1, <6>2
        <5>2. Len(codes) \in Nat
          BY <3>2
        <5> QED BY <4>3, <5>1, <5>2 DEF CodesAge
      <4>6. UsesBounded'
        <5>1. codes[c].uses + 1 <= codes[c].available
          BY <2>2, <4>1 DEF Left
        <5>2. ASSUME NEW i \in DOMAIN codes PROVE codes'[i].uses <= codes'[i].available
          BY <4>2, <4>3, <5>1 DEF IInv, UsesBounded
        <5> QED BY <4>3, <5>2 DEF UsesBounded
      <4> QED BY <1>1, <1>3, <1>5, <4>5, <4>6, EndKeeps DEF Register
    <3>4. CASE c \notin DOMAIN codes
      <4>1. codes' = codes
        BY <3>1, <3>2, <3>4
      <4> QED BY <1>1, <1>3, <1>5, <4>1, SameCodes, EndKeeps DEF Register
    <3> QED BY <3>3, <3>4
  <2> QED BY <1>5, <2>1, <2>2 DEF Register
<1> QED BY <1>4, <1>5

LEMMA AdminKeeps ==
  ASSUME IInv, NEW r \in Requests, Gift(r) \/ Disable(r) \/ SetFlag(r)
  PROVE  IInv'
<1>1. /\ req[r].at # "end" /\ ~At(r, "list", "count") /\ End(r)
      /\ clock' = clock /\ refused' = refused
  BY DEF Gift, Disable, SetFlag, At
<1>2. codes \in Seq(Code) /\ down \in BOOLEAN /\ stopped \in BOOLEAN
  BY DEF IInv, Shape
<1>3. \A i \in DOMAIN codes :
        /\ codes[i] \in Code /\ codes[i].uses \in Nat /\ codes[i].available \in Nat
        /\ codes[i].uses <= codes[i].available
  BY <1>2, CodeTypes DEF IInv, UsesBounded
<1>4. CASE Gift(r)
  <2> DEFINE new == [routine |-> FALSE, available |-> GiftUses, uses |-> 0, disabled |-> FALSE, at |-> clock]
  <2>1. codes' = Append(codes, new) /\ down' = down /\ stopped' = stopped
    BY <1>4 DEF Gift
  <2>2. new \in Code /\ ~new.routine /\ new.uses <= new.available
    BY InvitesAssumption DEF Code, IInv, Shape
  <2> HIDE DEF new
  <2>3. /\ codes' \in Seq(Code) /\ Len(codes) \in Nat /\ Len(codes') = Len(codes) + 1
        /\ DOMAIN codes = 1..Len(codes) /\ DOMAIN codes' = 1..(Len(codes) + 1)
        /\ codes'[Len(codes) + 1] = new /\ \A i \in DOMAIN codes : codes'[i] = codes[i]
    BY <1>2, <2>1, <2>2
  <2>4. CodesAge
    BY <1>3, <2>2, <2>3 DEF CodesAge
  <2>5. UsesBounded'
    BY <1>3, <2>2, <2>3 DEF UsesBounded
  <2> QED BY <1>1, <1>2, <2>1, <2>4, <2>5, EndKeeps
<1>5. ASSUME NEW c \in DOMAIN codes \cup {0}, codes' = [codes EXCEPT ![c].disabled = TRUE],
             down' = down, stopped' = stopped
      PROVE  IInv'
  <2> DEFINE new == [codes[c] EXCEPT !.disabled = TRUE]
  <2>1. codes' = [codes EXCEPT ![c] = new]
    BY <1>5
  <2>2. CASE c \in DOMAIN codes
    <3>1. /\ new \in Code /\ new.uses = codes[c].uses /\ new.available = codes[c].available
          /\ new.routine = codes[c].routine /\ new.at = codes[c].at /\ new.disabled
      BY <1>3, <2>2 DEF Code
    <3> HIDE DEF new
    <3>2. /\ codes' \in Seq(Code) /\ DOMAIN codes' = DOMAIN codes /\ Len(codes') = Len(codes)
          /\ codes'[c] = new /\ \A i \in DOMAIN codes : i # c => codes'[i] = codes[i]
      BY <1>2, <2>1, <2>2, <3>1
    <3>3. \A i \in DOMAIN codes :
            /\ codes'[i].routine = codes[i].routine /\ codes'[i].at = codes[i].at
            /\ codes'[i].available = codes[i].available
            /\ (codes[i].disabled => codes'[i].disabled) /\ codes'[i].uses = codes[i].uses
      BY <3>1, <3>2
    <3>4. CodesAge
      BY <1>2, <1>3, <3>2, <3>3 DEF CodesAge
    <3>5. UsesBounded'
      BY <1>3, <3>2, <3>3 DEF UsesBounded
    <3> QED BY <1>1, <1>2, <1>5, <3>4, <3>5, EndKeeps
  <2>3. CASE c \notin DOMAIN codes
    <3>1. codes' = codes
      BY <1>2, <2>1, <2>3
    <3> QED BY <1>1, <1>2, <1>5, <3>1, SameCodes, EndKeeps
  <2> QED BY <2>2, <2>3
<1>6. ASSUME codes' = [i \in DOMAIN codes |-> [codes[i] EXCEPT !.disabled = TRUE]],
             down' = down, stopped' = stopped
      PROVE  IInv'
  <2>1. \A i \in DOMAIN codes :
          /\ codes'[i] \in Code /\ codes'[i].uses = codes[i].uses
          /\ codes'[i].available = codes[i].available
          /\ codes'[i].routine = codes[i].routine /\ codes'[i].at = codes[i].at /\ codes'[i].disabled
    BY <1>3, <1>6 DEF Code
  <2>2. codes' \in Seq(Code) /\ DOMAIN codes' = DOMAIN codes /\ Len(codes') = Len(codes)
    <3>1. DOMAIN codes = 1..Len(codes) /\ Len(codes) \in Nat
      BY <1>2
    <3>2. codes' = [i \in 1..Len(codes) |-> codes'[i]]
      BY <1>6, <3>1
    <3> QED BY <2>1, <3>1, <3>2
  <2>3. CodesAge
    BY <1>3, <2>1, <2>2 DEF CodesAge
  <2>4. UsesBounded'
    BY <1>3, <2>1, <2>2 DEF UsesBounded
  <2> QED BY <1>1, <1>2, <1>6, <2>3, <2>4, EndKeeps
<1>7. CASE Disable(r)
  <2>1. req[r].code \in DOMAIN codes \cup {0}
    BY <1>2 DEF IInv, Shape
  <2> QED BY <1>5, <1>6, <1>7, <2>1 DEF Disable
<1>8. CASE SetFlag(r)
  <2>1. UNCHANGED codes /\ down' \in BOOLEAN /\ stopped' \in BOOLEAN
    BY <1>2, <1>8 DEF SetFlag
  <2> QED BY <1>1, <2>1, SameCodes, EndKeeps
<1> QED BY <1>4, <1>7, <1>8

\* The listing up to what it reads.
LEMMA ReadingKeeps ==
  ASSUME IInv, NEW r \in Requests, GetAccount(r) \/ GetCodes(r)
  PROVE  IInv'
<1>1. /\ req[r].at # "end" /\ ~At(r, "list", "count") /\ req[r].op = "list"
      /\ UNCHANGED <<codes, clock, down, stopped, refused>>
  BY DEF GetAccount, GetCodes, At
<1>2. CodesAge /\ UsesBounded' /\ down' \in BOOLEAN /\ stopped' \in BOOLEAN /\ codes' = codes
  BY <1>1, SameCodes DEF IInv, Shape
<1>3. req[r] \in Request /\ req[r].code \in 0..Len(codes') /\ codes \in Seq(Code) /\ stopped \in BOOLEAN
  BY <1>2 DEF IInv, Shape
<1>4. CASE GetAccount(r)
  <2> DEFINE q == [req[r] EXCEPT !.at = "codes", !.off = stopped]
  <2>1. End(r) \/ Go(r, q)
    BY <1>4 DEF GetAccount
  <2>2. q \in Request /\ q.at = "codes" /\ q.code = req[r].code
    BY <1>3 DEF Request, Steps
  <2> HIDE DEF q
  <2>3. CASE End(r)
    BY <1>1, <1>2, <2>3, EndKeeps
  <2>4. CASE Go(r, q)
    BY <1>1, <1>2, <1>3, <2>2, <2>4, Plain
  <2> QED BY <2>1, <2>3, <2>4
<1>5. CASE GetCodes(r)
  <2> DEFINE q == [req[r] EXCEPT !.at = "uses", !.seen = codes]
  <2>1. Go(r, q)
    BY <1>5 DEF GetCodes
  <2>2. q \in Request /\ q.at = "uses" /\ q.code = req[r].code /\ q.seen = codes
    BY <1>3 DEF Request, Steps
  <2> HIDE DEF q
  <2> QED BY <1>1, <1>2, <1>3, <2>1, <2>2, Plain
<1> QED BY <1>4, <1>5

\* What the listing decides to create is right for the codes that it has read.
LEMMA CreatingIs ==
  ASSUME IInv, NEW rows \in Seq(Code), SeenIsOlder(rows),
         \A i \in DOMAIN rows : rows[i].uses = codes[i].uses,
         NEW n, n = ToCreate(rows, clock), n > 0
  PROVE  /\ n \in 0..MaxOpen /\ n > 0 /\ clock > Epoch
         /\ Cardinality(Routine(rows)) + n \in Nat
         /\ Cardinality(Routine(rows)) + n <= Stock + n
         /\ Cardinality(Routine(rows)) + n <= EarnedAt(clock)
         /\ Stock + n = Cardinality(Routine(rows)) + n => Cardinality(Open(codes)) + n <= MaxOpen
<1>1. codes \in Seq(Code) /\ clock \in Nat /\ clock >= CreatedAt
  BY InvitesAssumption DEF IInv, Shape
<1> DEFINE a == Cardinality(Routine(rows))
           o == Cardinality(Open(rows))
           k == CouldCreate(clock)
<1>2. /\ IsFiniteSet(Routine(codes)) /\ IsFiniteSet(Open(rows)) /\ IsFiniteSet(Open(codes))
      /\ Stock \in Nat /\ a \in Nat /\ o \in Nat /\ Cardinality(Open(codes)) \in Nat
  BY <1>1, RoutineFinite DEF Stock
<1>3. Routine(rows) \subseteq Routine(codes)
  BY DEF SeenIsOlder, Routine
<1>4. a <= Stock /\ (a = Stock => Routine(rows) = Routine(codes))
  BY <1>2, <1>3, FS_Subset DEF Stock
<1>5. {i \in Routine(rows) : rows[i].at > Epoch} = Routine(rows)
  BY <1>3 DEF SeenIsOlder, RoutineAfterEpoch, IInv, Routine
<1>6. n = Smaller(MaxOpen - o, k - a)
  BY <1>5 DEF ToCreate
<1>7. k \in Int /\ k <= EarnedAt(clock) /\ (k >= 1 => clock > Epoch) /\ EarnedAt(clock) \in Nat
  BY <1>1, CouldCreateIsEarned, EarnedGrows
<1>8. ASSUME a = Stock PROVE Cardinality(Open(codes)) <= o
  <2>1. Open(codes) \subseteq Open(rows)
    <3>1. ASSUME NEW i \in Open(codes) PROVE i \in Open(rows)
      <4>1. i \in Routine(rows) /\ i \in DOMAIN rows
        BY <1>4, <1>8 DEF Open, Routine
      <4> QED BY <4>1 DEF Open, SeenIsOlder
    <3> QED BY <3>1
  <2> QED BY <1>2, <2>1, FS_Subset
<1> HIDE DEF a, o, k
<1>9. n <= 5 - o /\ n <= k - a /\ n \in Int
  BY <1>2, <1>6, <1>7 DEF Smaller, MaxOpen
<1>10. /\ n \in 0..MaxOpen /\ clock > Epoch /\ a + n \in Nat /\ a + n <= Stock + n
       /\ a + n <= EarnedAt(clock)
  BY <1>2, <1>4, <1>7, <1>9 DEF MaxOpen
<1>11. Stock + n = a + n => Cardinality(Open(codes)) + n <= MaxOpen
  BY <1>2, <1>8, <1>9 DEF MaxOpen
<1> QED BY <1>10, <1>11 DEF a

LEMMA ComputeKeeps ==
  ASSUME IInv, NEW r \in Requests, Compute(r)
  PROVE  IInv'
<1> DEFINE q == Creating(req[r])
           rows == WithUses(req[r].seen)
           n == ToCreate(rows, clock)
           total == Cardinality(Routine(rows)) + n
<1>1. /\ req[r].at # "end" /\ ~At(r, "list", "count") /\ At(r, "list", "uses")
      /\ UNCHANGED <<codes, clock, down, stopped, refused>>
  BY DEF Compute, At
<1>2. CodesAge /\ UsesBounded' /\ down' \in BOOLEAN /\ stopped' \in BOOLEAN /\ codes' = codes
  BY <1>1, SameCodes DEF IInv, Shape
<1>3. req[r] \in Request /\ req[r].code \in 0..Len(codes') /\ codes \in Seq(Code)
  BY <1>2 DEF IInv, Shape
<1>4. SeenIsOlder(req[r].seen) /\ req[r].seen \in Seq(Code)
  BY <1>1, <1>3 DEF IInv, Listing, Request
<1>5. rows = [i \in DOMAIN req[r].seen |-> [req[r].seen[i] EXCEPT !.uses = codes[i].uses]]
  BY DEF WithUses
<1>6. \A i \in DOMAIN req[r].seen : req[r].seen[i] \in Code /\ codes[i].uses \in Nat
  BY <1>3, <1>4, CodeTypes DEF SeenIsOlder
<1> HIDE DEF rows
<1>7. DOMAIN rows = DOMAIN req[r].seen
  BY <1>5
<1>8. \A i \in DOMAIN rows :
        /\ rows[i] \in Code /\ rows[i].routine = req[r].seen[i].routine
        /\ rows[i].available = req[r].seen[i].available /\ rows[i].at = req[r].seen[i].at
        /\ rows[i].disabled = req[r].seen[i].disabled /\ rows[i].uses = codes[i].uses
  BY <1>5, <1>6 DEF Code
<1>9. rows \in Seq(Code)
  <2>1. DOMAIN rows = 1..Len(req[r].seen) /\ Len(req[r].seen) \in Nat
    BY <1>4, <1>7
  <2>2. rows = [i \in 1..Len(req[r].seen) |-> rows[i]]
    BY <1>5, <2>1
  <2> QED BY <1>8, <2>1, <2>2
<1>10. SeenIsOlder(rows)
  BY <1>4, <1>7, <1>8 DEF SeenIsOlder
<1>11. q = [req[r] EXCEPT !.at = "insert", !.seen = <<>>, !.n = n, !.total = total]
  BY DEF Creating, rows
<1>12. n > 0 => /\ n \in 0..MaxOpen /\ n > 0 /\ clock > Epoch /\ total \in Nat
                /\ total <= Stock + n /\ total <= EarnedAt(clock)
                /\ Stock + n = total => Cardinality(Open(codes)) + n <= MaxOpen
  BY <1>8, <1>9, <1>10, CreatingIs
<1> HIDE DEF q, n, total
<1>13. q.n = n
  <2>1. DOMAIN req[r] = {"op", "at", "code", "off", "seen", "n", "total"}
    BY <1>3 DEF Request
  <2> QED BY <1>11, <2>1
<1>14. End(r) \/ (Go(r, q) /\ q.n > 0)
  BY DEF Compute, q
<1>15. CASE End(r)
  BY <1>1, <1>2, <1>15, EndKeeps
<1>16. CASE Go(r, q) /\ q.n > 0
  <2>1. <<>> \in Seq(Code) /\ "insert" \in Steps
    BY DEF Steps
  <2>2. /\ q \in Request /\ q.op = req[r].op /\ q.at = "insert" /\ q.code = req[r].code
        /\ q.total = total
    BY <1>3, <1>11, <1>12, <1>13, <1>16, <2>1 DEF Request
  <2>3. req'[r] = q
    BY <1>1, <1>16, <2>2, GoIs DEF IInv
  <2>4. At(r, "list", "insert")' /\ ~At(r, "list", "uses")' /\ ~At(r, "list", "count")'
    BY <1>1, <2>2, <2>3 DEF At
  <2>5. Stock' = Stock /\ Open(codes') = Open(codes) /\ EarnedAt(clock)' = EarnedAt(clock) /\ clock' = clock
    BY <1>1 DEF Stock, EarnedAt, Lived
  <2>6. Listing(r)'
    BY <1>12, <1>13, <1>16, <2>2, <2>3, <2>4, <2>5 DEF Listing
  <2> QED BY <1>1, <1>2, <1>3, <1>16, <2>2, <2>6, Kept
<1> QED BY <1>14, <1>15, <1>16

\* Of the requests that count too late one is refused, and no other has to tell.
LEMMA CountKeeps ==
  ASSUME IInv, NEW r \in Requests, Count(r)
  PROVE  IInv'
<1> DEFINE q == [Idle EXCEPT !.op = req[r].op, !.at = "end"]
<1>1. /\ At(r, "list", "count") /\ req[r].at # "end" /\ Go(r, q)
      /\ refused' = IF Stock > req[r].total THEN refused + 1 ELSE refused
      /\ UNCHANGED <<codes, clock, down, stopped>>
  BY DEF Count, At, End, Stock
<1>2. q \in Request
  BY RequestIs DEF IInv
<1>3. q.at = "end" /\ q.code = 0
  BY DEF Idle
<1> HIDE DEF q
<1>4. /\ req' \in [Requests -> Request] /\ req'[r] = q
      /\ \A s \in Requests \ {r} : req'[s] = req[s]
      /\ Cardinality(Ended) \in Nat /\ Cardinality(Ended') = Cardinality(Ended) + 1
  BY <1>1, <1>2, <1>3, GoIs DEF IInv
<1>5. /\ codes \in Seq(Code) /\ Stock \in Nat /\ refused \in Nat /\ refused <= Cardinality(Ended)
      /\ req[r].total \in Nat /\ clock \in Nat
  BY RoutineFinite, InvitesAssumption DEF IInv, Shape, Stock, Request
<1>6. Shape'
  <2>1. \A s \in Requests : req'[s].code \in 0..Len(codes')
    <3>1. 0 \in 0..Len(codes)
      BY <1>5
    <3> QED BY <1>1, <1>3, <1>4, <3>1 DEF IInv, Shape
  <2>2. refused' \in Nat /\ refused' <= Cardinality(Ended')
    BY <1>1, <1>4, <1>5
  <2> QED BY <1>1, <1>4, <2>1, <2>2 DEF IInv, Shape
<1>7. UsesBounded' /\ RoutineAfterEpoch'
  BY <1>1 DEF IInv, UsesBounded, RoutineAfterEpoch, Routine
<1>8. Stock' = Stock /\ Open(codes') = Open(codes) /\ EarnedAt(clock)' = EarnedAt(clock)
  BY <1>1 DEF Stock, EarnedAt, Lived
<1>9. ASSUME NEW s \in Requests PROVE Listing(s)'
  <2>1. CASE s = r
    BY <1>3, <1>4, <2>1 DEF Listing, At
  <2>2. CASE s # r
    <3>1. req'[s] = req[s] /\ Listing(s)
      BY <1>4, <2>2 DEF IInv
    <3>2. \A rows : SeenIsOlder(rows)' <=> SeenIsOlder(rows)
      BY <1>1 DEF SeenIsOlder
    <3>3. (At(s, "list", "uses") => SeenIsOlder(req[s].seen))'
      BY <1>1, <3>1 DEF At, Listing, SeenIsOlder
    <3>4. At(s, "list", "insert")' =>
            /\ req'[s].n > 0 /\ clock' > Epoch
            /\ req'[s].total <= Stock' + req'[s].n /\ req'[s].total <= EarnedAt(clock)'
            /\ Stock' + req'[s].n = req'[s].total => Cardinality(Open(codes')) + req'[s].n <= MaxOpen
      BY <1>1, <1>8, <3>1 DEF At, Listing
    <3>5. At(s, "list", "count")' => req'[s].total <= EarnedAt(clock)'
      BY <1>8, <3>1 DEF At, Listing
    <3> QED BY <3>3, <3>4, <3>5 DEF Listing
  <2> QED BY <2>1, <2>2
<1>10. Excess'
  <2>1. SUFFICES ASSUME refused' = 0 PROVE (FewOpen' /\ Earned') \/ WillTell'
    BY DEF Excess
  <2>2. refused = 0 /\ ~(Stock > req[r].total)
    BY <1>1, <1>5, <2>1
  <2>3. CASE FewOpen /\ Earned
    BY <1>1, <1>8, <2>3 DEF FewOpen, Earned, Lived, Routine
  <2>4. CASE WillTell
    <3>1. PICK s \in Requests : At(s, "list", "count") /\ Stock > req[s].total
      BY <2>4 DEF WillTell
    <3>2. s # r /\ req'[s] = req[s]
      BY <1>4, <2>2, <3>1
    <3> QED BY <1>8, <3>1, <3>2 DEF WillTell, At
  <2> QED BY <2>2, <2>3, <2>4 DEF IInv, Excess
<1> QED BY <1>6, <1>7, <1>9, <1>10 DEF IInv

\* What an insertion does to the codes.
LEMMA Inserted ==
  ASSUME NEW rows \in Seq(Code), NEW more \in Seq(Code), NEW n \in Nat, Len(more) = Len(rows) + n,
         \A i \in 1..Len(rows) : more[i] = rows[i],
         \A i \in (Len(rows) + 1)..(Len(rows) + n) : more[i].routine
  PROVE  /\ Cardinality(Routine(more)) = Cardinality(Routine(rows)) + n
         /\ Cardinality(Open(more)) <= Cardinality(Open(rows)) + n
<1> DEFINE L == Len(rows)
<1>1. L \in Nat /\ DOMAIN rows = 1..L
  OBVIOUS
<1>2. DOMAIN more = 1..(L + n)
  BY <1>1
<1>3. \A i \in 1..L : more[i] = rows[i]
  OBVIOUS
<1>4. \A i \in (L + 1)..(L + n) : more[i].routine
  OBVIOUS
<1> DEFINE N == (L + 1)..(L + n)
<1> HIDE DEF L
<1>5. IsFiniteSet(N) /\ Cardinality(N) = n
  <2>1. L + 1 \in Int /\ L + n \in Int
    BY <1>1
  <2>2. IsFiniteSet(N) /\ Cardinality(N) = IF L + 1 > L + n THEN 0 ELSE (L + n) - (L + 1) + 1
    BY ONLY <2>1, FS_Interval
  <2> QED BY <1>1, <2>2
<1>6. /\ IsFiniteSet(Routine(rows)) /\ IsFiniteSet(Open(rows))
      /\ Cardinality(Routine(rows)) \in Nat /\ Cardinality(Open(rows)) \in Nat
  BY RoutineFinite
<1>7. \A i \in DOMAIN more : i \in 1..L \/ i \in N
  BY <1>1, <1>2
<1>8. 1..L \subseteq DOMAIN more /\ N \subseteq DOMAIN more /\ (1..L) \cap N = {}
  BY <1>1, <1>2
<1>9. Cardinality(Routine(more)) = Cardinality(Routine(rows)) + n
  <2>1. Routine(more) = Routine(rows) \cup N
    BY <1>1, <1>3, <1>4, <1>7, <1>8 DEF Routine
  <2>2. Routine(rows) \cap N = {}
    BY <1>1, <1>8 DEF Routine
  <2> HIDE DEF N
  <2>3. Cardinality(Routine(rows) \cup N) = Cardinality(Routine(rows)) + Cardinality(N) - Cardinality({})
    BY <1>5, <1>6, <2>2, FS_Union
  <2>4. Cardinality({}) = 0
    BY FS_EmptySet
  <2>5. Cardinality(Routine(more)) = Cardinality(Routine(rows) \cup N)
    BY <2>1
  <2> QED BY <1>5, <1>6, <2>3, <2>4, <2>5
<1>10. Cardinality(Open(more)) <= Cardinality(Open(rows)) + n
  <2>1. Open(more) \subseteq Open(rows) \cup N
    BY <1>1, <1>3, <1>7 DEF Open, Routine
  <2> HIDE DEF N
  <2>2. /\ IsFiniteSet(Open(rows) \cup N) /\ IsFiniteSet(Open(rows) \cap N)
        /\ Cardinality(Open(rows) \cup N) = Cardinality(Open(rows)) + Cardinality(N)
                                            - Cardinality(Open(rows) \cap N)
    BY <1>5, <1>6, FS_Union, FS_Intersection
  <2>3. Cardinality(Open(rows) \cap N) \in Nat
    BY <2>2, FS_CardinalityType
  <2>4. IsFiniteSet(Open(more)) /\ Cardinality(Open(more)) <= Cardinality(Open(rows) \cup N)
    BY <2>1, <2>2, FS_Subset
  <2>5. Cardinality(Open(more)) \in Nat
    BY <2>4, FS_CardinalityType
  <2> QED BY <1>5, <1>6, <2>2, <2>3, <2>4, <2>5
<1> QED BY <1>9, <1>10

\* An insertion that others have overtaken will be told; one that none has
\* overtaken leaves no excess.
LEMMA InsertKeeps ==
  ASSUME IInv, NEW r \in Requests, Insert(r)
  PROVE  IInv'
<1> DEFINE q == [req[r] EXCEPT !.at = "count"]
           n == req[r].n
           code == [routine |-> TRUE, available |-> 1, uses |-> 0, disabled |-> req[r].off, at |-> clock]
<1>1. /\ At(r, "list", "insert") /\ req[r].at # "end" /\ Go(r, q)
      /\ codes' = codes \o [i \in 1..n |-> code]
      /\ UNCHANGED <<clock, down, stopped, refused>>
  BY DEF Insert, At, To
<1>2. req[r] \in Request /\ q \in Request
  BY RequestIs DEF IInv, Shape, Steps
<1>3. q.at = "count" /\ q.code = req[r].code /\ q.op = req[r].op /\ q.total = req[r].total
  BY <1>2 DEF Request
<1>4. /\ codes \in Seq(Code) /\ Stock \in Nat /\ Cardinality(Open(codes)) \in Nat
      /\ n \in Nat /\ req[r].total \in Nat /\ clock \in Nat /\ Epoch \in Nat
      /\ clock \in Times \cup {0, CreatedAt}
  <2>1. codes \in Seq(Code) /\ clock \in Times \cup {CreatedAt}
    BY DEF IInv, Shape
  <2>2. Stock \in Nat /\ Cardinality(Open(codes)) \in Nat
    BY <2>1, RoutineFinite DEF Stock
  <2>3. n \in Nat /\ req[r].total \in Nat
    BY <1>2 DEF Request, MaxOpen
  <2>4. clock \in Nat /\ Epoch \in Nat
    BY <2>1, InvitesAssumption
  <2> QED BY <2>1, <2>2, <2>3, <2>4
<1>5. /\ n > 0 /\ clock > Epoch
      /\ req[r].total <= Stock + n /\ req[r].total <= EarnedAt(clock)
      /\ Stock + n = req[r].total => Cardinality(Open(codes)) + n <= MaxOpen
  BY <1>1 DEF IInv, Listing
<1>6. code \in Code /\ code.routine /\ code.uses = 0 /\ code.available = 1 /\ code.at = clock
  <2>1. 1 \in 1..(GiftUses + 1) /\ 0 \in Nat /\ req[r].off \in BOOLEAN
    BY <1>2, InvitesAssumption DEF Request
  <2> QED BY <1>4, <2>1 DEF Code
<1> HIDE DEF q, code, n
<1>7. /\ req' \in [Requests -> Request] /\ req'[r] = q
      /\ \A s \in Requests \ {r} : req'[s] = req[s]
      /\ Cardinality(Ended) \in Nat /\ Cardinality(Ended') \in Nat
      /\ Cardinality(Ended) <= Cardinality(Ended')
  BY <1>1, <1>2, GoIs DEF IInv
<1>8. /\ codes' \in Seq(Code) /\ Len(codes') = Len(codes) + n /\ DOMAIN codes \subseteq DOMAIN codes'
      /\ \A i \in DOMAIN codes : codes'[i] = codes[i]
      /\ \A i \in DOMAIN codes' \ DOMAIN codes : codes'[i] = code
      /\ Cardinality(Routine(codes')) = Cardinality(Routine(codes)) + n
      /\ Cardinality(Open(codes')) <= Cardinality(Open(codes)) + n
  <2> DEFINE new == [i \in 1..n |-> code]
  <2>1. new \in Seq(Code) /\ Len(new) = n /\ \A i \in 1..n : new[i] = code
    BY <1>4, <1>6
  <2>2. codes' = codes \o new
    BY <1>1
  <2> HIDE DEF new
  <2>3. code \in Code /\ code.routine /\ codes \in Seq(Code) /\ n \in Nat
    BY <1>4, <1>6
  <2> DEFINE L == Len(codes)
  <2>4. L \in Nat /\ DOMAIN codes = 1..L /\ DOMAIN new = 1..n
    BY <2>1, <2>3
  <2>5. codes' \in Seq(Code) /\ Len(codes') = L + n /\ DOMAIN codes' = 1..(L + n)
    <3>1. codes' \in Seq(Code)
      BY <2>1, <2>2, <2>3
    <3>2. Len(codes') = L + n
      <4>1. codes \in Seq(Code) /\ new \in Seq(Code)
        BY <2>1, <2>3
      <4>2. Len(codes \o new) = Len(codes) + Len(new)
        BY ONLY <4>1
      <4> QED BY ONLY <2>1, <2>2, <4>2
    <3> QED BY <3>1, <3>2
  <2>6. \A i \in 1..L : codes'[i] = codes[i]
    BY <2>1, <2>2, <2>3
  <2>7. ASSUME NEW i \in (L + 1)..(L + n) PROVE codes'[i] = code
    <3>1. i - L \in 1..n /\ i \in 1..(L + n) /\ i > L
      BY <2>3, <2>4
    <3>2. codes'[i] = new[i - L]
      BY <2>1, <2>2, <2>3, <2>4, <3>1
    <3> QED BY <2>1, <3>1, <3>2
  <2>8. /\ Cardinality(Routine(codes')) = Cardinality(Routine(codes)) + n
        /\ Cardinality(Open(codes')) <= Cardinality(Open(codes)) + n
    BY <2>3, <2>5, <2>6, <2>7, Inserted
  <2> HIDE DEF L
  <2>9. /\ DOMAIN codes \subseteq DOMAIN codes'
        /\ \A i \in DOMAIN codes' \ DOMAIN codes : i \in (L + 1)..(L + n)
    BY <2>3, <2>4, <2>5
  <2> QED BY <2>4, <2>5, <2>6, <2>7, <2>8, <2>9 DEF L
<1>9. Stock' = Stock + n /\ Stock' = Cardinality(Routine(codes')) /\ Cardinality(Open(codes')) \in Nat
  BY <1>8, RoutineFinite DEF Stock
<1>10. EarnedAt(clock)' = EarnedAt(clock)
  BY <1>1 DEF EarnedAt, Lived
<1>11. Shape'
  <2>1. \A s \in Requests : req'[s].code \in 0..Len(codes')
    <3>1. Len(codes) \in Nat /\ Len(codes') \in Nat /\ Len(codes) <= Len(codes')
      BY <1>4, <1>8
    <3>2. 0..Len(codes) \subseteq 0..Len(codes')
      BY <3>1
    <3> QED BY <1>3, <1>7, <3>2 DEF IInv, Shape
  <2>2. refused \in Nat /\ refused <= Cardinality(Ended')
    BY <1>7 DEF IInv, Shape
  <2> QED BY <1>1, <1>7, <1>8, <2>1, <2>2 DEF IInv, Shape
<1>12. UsesBounded'
  BY <1>6, <1>8 DEF IInv, UsesBounded
<1>13. RoutineAfterEpoch'
  <2>1. ASSUME NEW i \in Routine(codes') PROVE codes'[i].at > Epoch
    <3>1. CASE i \in DOMAIN codes
      BY <1>8, <3>1 DEF IInv, RoutineAfterEpoch, Routine
    <3>2. CASE i \notin DOMAIN codes
      BY <1>5, <1>6, <1>8, <3>2 DEF Routine
    <3> QED BY <3>1, <3>2
  <2> QED BY <2>1 DEF RoutineAfterEpoch
<1>14. ASSUME NEW s \in Requests PROVE Listing(s)'
  <2>1. CASE s = r
    <3>1. ~At(r, "list", "uses")' /\ ~At(r, "list", "insert")'
      BY <1>3, <1>7 DEF At
    <3>2. req'[r].total <= EarnedAt(clock)'
      BY <1>3, <1>5, <1>7, <1>10
    <3> QED BY <2>1, <3>1, <3>2 DEF Listing
  <2>2. CASE s # r
    <3>1. req'[s] = req[s] /\ Listing(s) /\ req[s] \in Request
      BY <1>7, <2>2 DEF IInv, Shape
    <3>2. req[s].n \in Nat /\ req[s].total \in Nat
      BY <3>1 DEF Request, MaxOpen
    <3>3. (At(s, "list", "uses") => SeenIsOlder(req[s].seen))'
      BY <1>8, <3>1 DEF At, Listing, SeenIsOlder
    <3>4. At(s, "list", "insert")' => At(s, "list", "insert")
      BY <3>1 DEF At
    <3>5. ASSUME At(s, "list", "insert")
          PROVE  /\ req[s].total <= Stock' + req[s].n
                 /\ Stock' + req[s].n # req[s].total
      BY <1>4, <1>5, <1>9, <3>1, <3>2, <3>5 DEF Listing
    <3>6. At(s, "list", "insert")' =>
            /\ req'[s].n > 0 /\ clock' > Epoch
            /\ req'[s].total <= Stock' + req'[s].n /\ req'[s].total <= EarnedAt(clock)'
            /\ Stock' + req'[s].n = req'[s].total => Cardinality(Open(codes')) + req'[s].n <= MaxOpen
      BY <1>1, <1>10, <3>1, <3>4, <3>5 DEF Listing
    <3>7. At(s, "list", "count")' => req'[s].total <= EarnedAt(clock)'
      BY <1>10, <3>1 DEF At, Listing
    <3> QED BY <3>3, <3>6, <3>7 DEF Listing
  <2> QED BY <2>1, <2>2
<1>15. Excess'
  <2>1. CASE Stock + n = req[r].total
    <3>1. Cardinality(Open(codes')) <= MaxOpen
      BY <1>4, <1>5, <1>8, <1>9, <2>1 DEF MaxOpen
    <3>2. Cardinality(Routine(codes')) <= EarnedAt(clock)'
      BY <1>5, <1>9, <1>10, <2>1
    <3>3. FewOpen' /\ Earned'
      BY <3>1, <3>2 DEF FewOpen, Earned, EarnedAt
    <3> QED BY <3>3 DEF Excess
  <2>2. CASE Stock + n # req[r].total
    <3>1. Stock' > req[r].total
      BY <1>4, <1>5, <1>9, <2>2
    <3>2. At(r, "list", "count")' /\ req'[r].total = req[r].total
      BY <1>1, <1>3, <1>7 DEF At
    <3>3. (At(r, "list", "count") /\ Stock > req[r].total)'
      BY <3>1, <3>2
    <3> QED BY <3>3 DEF Excess, WillTell
  <2> QED BY <2>1, <2>2
<1> QED BY <1>11, <1>12, <1>13, <1>14, <1>15 DEF IInv

\* As time passes an account earns more codes, never fewer.
LEMMA TickKeeps ==
  ASSUME IInv, Tick
  PROVE  IInv'
<1>1. /\ clock' \in Times /\ clock' > clock /\ clock \in Nat /\ clock' \in Nat /\ Epoch \in Nat
      /\ UNCHANGED <<codes, down, stopped, refused, req>>
  BY InvitesAssumption DEF IInv, Shape, Tick
<1>2. EarnedAt(clock) \in Nat /\ EarnedAt(clock') \in Nat /\ EarnedAt(clock) <= EarnedAt(clock')
  BY <1>1, EarnedGrows
<1>3. Stock' = Stock /\ Ended' = Ended /\ Stock \in Nat
  BY <1>1, RoutineFinite DEF Stock, Ended, IInv, Shape
<1>4. Shape'
  <2>1. clock' >= CreatedAt
    BY <1>1, InvitesAssumption DEF IInv, Shape
  <2> QED BY <1>1, <1>3, <2>1 DEF IInv, Shape
<1>5. UsesBounded' /\ RoutineAfterEpoch'
  BY <1>1 DEF IInv, UsesBounded, RoutineAfterEpoch, Routine
<1>6. ASSUME NEW s \in Requests PROVE Listing(s)'
  <2>1. req'[s] = req[s] /\ Listing(s) /\ req[s].total \in Nat
    BY <1>1 DEF IInv, Shape, Request
  <2>2. (At(s, "list", "uses") => SeenIsOlder(req[s].seen))'
    BY <1>1, <2>1 DEF At, Listing, SeenIsOlder
  <2>3. At(s, "list", "insert")' =>
          /\ req'[s].n > 0 /\ clock' > Epoch
          /\ req'[s].total <= Stock' + req'[s].n /\ req'[s].total <= EarnedAt(clock')
          /\ Stock' + req'[s].n = req'[s].total => Cardinality(Open(codes')) + req'[s].n <= MaxOpen
    BY <1>1, <1>2, <1>3, <2>1 DEF At, Listing
  <2>4. At(s, "list", "count")' => req'[s].total <= EarnedAt(clock')
    BY <1>1, <1>2, <2>1 DEF At, Listing
  <2> QED BY <2>2, <2>3, <2>4 DEF Listing
<1>7. Excess'
  <2>1. FewOpen => FewOpen'
    BY <1>1 DEF FewOpen
  <2>2. Earned => Earned'
    <3>1. Earned <=> Stock <= EarnedAt(clock)
      BY DEF Earned, Stock, EarnedAt
    <3>2. Earned' <=> Stock' <= EarnedAt(clock')
      BY DEF Earned, Stock, EarnedAt
    <3> QED BY <1>2, <1>3, <3>1, <3>2
  <2>3. WillTell => WillTell'
    BY <1>1, <1>3 DEF WillTell, At
  <2> QED BY <1>1, <2>1, <2>2, <2>3 DEF IInv, Excess
<1> QED BY <1>4, <1>5, <1>6, <1>7 DEF IInv

LEMMA InitHolds == Init => IInv
<1> SUFFICES ASSUME Init PROVE IInv
  OBVIOUS
<1>1. req = [r \in Requests |-> Idle] /\ clock = CreatedAt /\ refused = 0
  BY DEF Init
<1> DEFINE code == [routine |-> FALSE, available |-> GiftUses, uses |-> 0, disabled |-> FALSE, at |-> 0]
<1>2. codes = <<code>>
  BY DEF Init
<1>3. code \in Code /\ ~code.routine /\ code.uses <= code.available
  BY InvitesAssumption DEF Code
<1> HIDE DEF code
<1>4. codes \in Seq(Code) /\ DOMAIN codes = {1} /\ codes[1] = code /\ Len(codes) = 1
  BY <1>2, <1>3
<1>5. Routine(codes) = {} /\ Open(codes) = {} /\ Cardinality({}) = 0
  BY <1>3, <1>4, FS_EmptySet DEF Routine, Open
<1>6. Idle \in Request /\ Idle.at = "new" /\ Idle.code = 0
  <2>1. <<>> \in Seq(Code) /\ 0 \in 0..MaxOpen /\ "new" \in Steps
    BY DEF MaxOpen, Steps
  <2> QED BY <2>1 DEF Idle, Request
<1>7. Shape
  <2>1. Ended = {}
    BY <1>1, <1>6 DEF Ended
  <2>2. \A r \in Requests : req[r].code \in 0..Len(codes)
    BY <1>1, <1>4, <1>6
  <2>3. clock \in Times \cup {CreatedAt} /\ clock >= CreatedAt
    BY <1>1, InvitesAssumption
  <2>4. req \in [Requests -> Request]
    BY <1>1, <1>6
  <2>5. refused \in Nat /\ refused <= Cardinality(Ended)
    BY <1>1, <1>5, <2>1
  <2>6. down \in BOOLEAN /\ stopped \in BOOLEAN
    BY DEF Init
  <2> QED BY <1>4, <2>2, <2>3, <2>4, <2>5, <2>6 DEF Shape
<1>8. UsesBounded /\ RoutineAfterEpoch
  BY <1>3, <1>4, <1>5 DEF UsesBounded, RoutineAfterEpoch
<1>9. \A r \in Requests : Listing(r)
  BY <1>1, <1>6 DEF Listing, At
<1>10. Excess
  <2>1. EarnedAt(clock) \in Nat
    BY <1>1, EarnedGrows, InvitesAssumption
  <2>2. FewOpen
    BY <1>5 DEF FewOpen, MaxOpen
  <2>3. Earned
    BY <1>5, <2>1 DEF Earned, EarnedAt
  <2> QED BY <2>2, <2>3 DEF Excess
<1> QED BY <1>7, <1>8, <1>9, <1>10 DEF IInv

LEMMA StepKeeps == IInv /\ [Next]_vars => IInv'
<1> SUFFICES ASSUME IInv, [Next]_vars PROVE IInv'
  OBVIOUS
<1>1. CASE \E r \in Requests, op \in Ops, c \in DOMAIN codes : Start(r, op, c)
  BY <1>1, StartKeeps
<1>2. ASSUME NEW r \in Requests, Step(r) PROVE IInv'
  BY <1>2, SignUpKeeps, ReadingKeeps, ComputeKeeps, InsertKeeps, CountKeeps, AdminKeeps DEF Step
<1>3. CASE Tick
  BY <1>3, TickKeeps
<1>4. CASE UNCHANGED vars
  <2>1. /\ codes' = codes /\ clock' = clock /\ down' = down /\ stopped' = stopped
        /\ refused' = refused /\ req' = req
    BY <1>4 DEF vars
  <2>2. Shape' /\ UsesBounded' /\ RoutineAfterEpoch'
    BY <2>1 DEF IInv, Shape, Ended, UsesBounded, RoutineAfterEpoch, Routine
  <2>3. \A r \in Requests : Listing(r)'
    BY <2>1 DEF IInv, Listing, At, SeenIsOlder, Stock, EarnedAt, Lived
  <2>4. Excess'
    BY <2>1 DEF IInv, Excess, FewOpen, Earned, WillTell, At, Stock
  <2> QED BY <2>2, <2>3, <2>4 DEF IInv
<1> QED BY <1>1, <1>2, <1>3, <1>4 DEF Next

LEMMA Invariance == Spec => []IInv
BY InitHolds, StepKeeps, PTL DEF Spec
-----------------------------------------------------------------------------
\* Codes are codes, a request inserts at most MaxOpen of them, and no more
\* requests are refused than there are.
THEOREM TypeCorrect == Spec => []TypeOK
<1>1. ASSUME IInv PROVE TypeOK
  <2>1. \A r \in Requests : req[r].n \in 0..MaxOpen /\ req[r].code \in 0..Len(codes)
    BY <1>1 DEF IInv, Shape, Request
  <2>2. IsFiniteSet(Requests) /\ Cardinality(Requests) = MaxRequests /\ MaxRequests \in Nat
    <3>1. 1 \in Int /\ MaxRequests \in Nat
      BY InvitesAssumption
    <3>2. IsFiniteSet(1..MaxRequests)
          /\ Cardinality(1..MaxRequests) = IF 1 > MaxRequests THEN 0 ELSE MaxRequests - 1 + 1
      BY <3>1, FS_Interval
    <3> QED BY <3>1, <3>2 DEF Requests
  <2>3. Ended \subseteq Requests
    BY DEF Ended
  <2>4. IsFiniteSet(Ended) /\ Cardinality(Ended) \in Nat /\ Cardinality(Ended) <= MaxRequests
    BY <2>2, <2>3, FS_Subset, FS_CardinalityType
  <2>5. refused \in 0..MaxRequests
    BY <1>1, <2>2, <2>4 DEF IInv, Shape
  <2> QED BY <1>1, <2>1, <2>5 DEF IInv, Shape, TypeOK
<1> QED BY <1>1, Invariance, PTL

\* However many sign-ups race for a code, and whatever the transaction of each
\* finds changed since its own check, none is used more often than it may be.
THEOREM UsesAreBounded == Spec => []UsesBounded
<1>1. IInv => UsesBounded
  BY DEF IInv
<1> QED BY <1>1, Invariance, PTL

\* Listings that race may insert more codes than the account has earned, or more
\* than may be open; one of them counts them all and is refused.
THEOREM ExcessTold == Spec => []ExcessIsTold
<1>1. ASSUME IInv PROVE ExcessIsTold
  <2>1. WillTell => InProgress # {}
    BY DEF WillTell, At, InProgress
  <2> QED BY <1>1, <2>1 DEF IInv, Excess, ExcessIsTold
<1> QED BY <1>1, Invariance, PTL
=============================================================================
