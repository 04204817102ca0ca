------------------------------- MODULE Invites -------------------------------
(***************************************************************************)
(* The invite codes of one account: earned with time, given by an admin,   *)
(* used by sign-ups, disabled.                                             *)
(*                                                                         *)
(* A query of the account database is one step, a transaction too; between *)
(* the queries that a handler makes outside a transaction any other        *)
(* request may run.                                                        *)
(***************************************************************************)
EXTENDS Integers, Sequences, FiniteSets

CONSTANTS
  None,
  CreatedAt,      \* when the account was created
  Epoch,          \* since when codes are earned
  Interval,       \* the time in which a code is earned
  GiftUses,       \* the uses of a code that an admin gives
  Ops,            \* the operations that requests may ask for
  MaxRequests,    \* bound: requests in a behaviour
  MaxConcurrent,  \* bound: requests in progress at once
  Times           \* bound: the moments, after its creation, at which anything happens

ASSUME InvitesAssumption ==
  /\ CreatedAt \in Nat /\ Epoch \in Nat /\ Interval \in Nat \ {0} /\ GiftUses \in Nat \ {0}
  /\ MaxRequests \in Nat /\ MaxConcurrent \in Nat /\ Times \subseteq Nat

VARIABLES
  codes,    \* the table invite_code, in the order of insertion, and the uses of each
  clock,
  down,     \* the account is taken down
  stopped,  \* its invites are disabled
  refused,  \* history: how many requests were refused as DuplicateCreate
  req       \* request -> how far its handler has come

vars == <<codes, clock, down, stopped, refused, req>>

Requests == 1..MaxRequests
MaxOpen == 5
Code == [routine : BOOLEAN, available : 1..(GiftUses + 1), uses : Nat, disabled : BOOLEAN,
         at : Times \cup {0, CreatedAt}]

Idle == [op |-> None, at |-> "new", code |-> 0, off |-> FALSE, seen |-> <<>>, n |-> 0, total |-> 0]

Init ==
  /\ codes = <<[routine |-> FALSE, available |-> GiftUses, uses |-> 0, disabled |-> FALSE, at |-> 0]>>
  /\ clock = CreatedAt /\ down = FALSE /\ stopped = FALSE /\ refused = 0
  /\ req = [r \in Requests |-> Idle]

At(r, op, step) == req[r].op = op /\ req[r].at = step
Go(r, q) == req' = [req EXCEPT ![r] = q]
To(r, step) == Go(r, [req[r] EXCEPT !.at = step])
End(r) == Go(r, [Idle EXCEPT !.op = req[r].op, !.at = "end"])
InProgress == {r \in Requests : req[r].at \notin {"new", "end"}}

Start(r, op, c) ==
  /\ req[r] = Idle /\ \A s \in 1..(r - 1) : req[s] # Idle
  /\ Cardinality(InProgress) < MaxConcurrent
  /\ Go(r, [Idle EXCEPT !.op = op, !.at = "start",
              !.code = IF op \in {"signup", "disable"} THEN c ELSE 0])
  /\ UNCHANGED <<codes, clock, down, stopped, refused>>

Tick ==
  /\ \E t \in Times : t > clock /\ clock' = t
  /\ UNCHANGED <<codes, down, stopped, refused, req>>

-----------------------------------------------------------------------------
(* createAccount with a code *)

(* The two queries of ensureInviteIsAvailable. *)
Offered(c) == ~down /\ ~codes[c].disabled
Left(c) == codes[c].available > codes[c].uses

Precheck(r) ==
  /\ \/ At(r, "signup", "start") /\ IF Offered(req[r].code) THEN To(r, "uses") ELSE End(r)
     \/ At(r, "signup", "uses") /\ IF Left(req[r].code) THEN To(r, "register") ELSE End(r)
  /\ UNCHANGED <<codes, clock, down, stopped, refused>>

Use(c) == codes' = [codes EXCEPT ![c].uses = @ + 1]
RegisterTrusting(r) ==   \* mutant: the transaction trusts the check before it
  /\ At(r, "signup", "register")
  /\ Use(req[r].code)
  /\ End(r)
  /\ UNCHANGED <<clock, down, stopped, refused>>

(* The transaction checks again. *)
Register(r) ==
  LET c == req[r].code
  IN  /\ At(r, "signup", "register")
      /\ IF Offered(c) /\ Left(c) THEN Use(c) ELSE UNCHANGED codes
      /\ End(r)
      /\ UNCHANGED <<clock, down, stopped, refused>>

-----------------------------------------------------------------------------
(* getAccountInviteCodes, asked to create what is available *)

GetAccount(r) ==
  /\ At(r, "list", "start")
  /\ IF down THEN End(r) ELSE Go(r, [req[r] EXCEPT !.at = "codes", !.off = stopped])
  /\ UNCHANGED <<codes, clock, down, stopped, refused>>

Routine(rows) == {i \in DOMAIN rows : rows[i].routine}
Open(rows) == {i \in Routine(rows) : ~rows[i].disabled /\ rows[i].available > rows[i].uses}

(* How many intervals the account has lived since the epoch. *)
CouldCreate(now) ==
  LET all == (now - CreatedAt) \div Interval
  IN  IF CreatedAt >= Epoch THEN all ELSE all - (Epoch - CreatedAt) \div Interval

(* calculateCodesToCreate *)
Smaller(x, y) == IF x < y THEN x ELSE y
ToCreate(rows, now) ==
  Smaller(MaxOpen - Cardinality(Open(rows)),
          CouldCreate(now) - Cardinality({i \in Routine(rows) : rows[i].at > Epoch}))

(* getAccountsInviteCodes reads the codes, *)
GetCodes(r) ==
  /\ At(r, "list", "codes")
  /\ Go(r, [req[r] EXCEPT !.at = "uses", !.seen = codes])
  /\ UNCHANGED <<codes, clock, down, stopped, refused>>

(* then their uses; what is to be created follows from both. *)
WithUses(rows) == [i \in DOMAIN rows |-> [rows[i] EXCEPT !.uses = codes[i].uses]]
Creating(q) ==
  LET rows == WithUses(q.seen)
      n == ToCreate(rows, clock)
  IN  [q EXCEPT !.at = "insert", !.seen = <<>>, !.n = n, !.total = Cardinality(Routine(rows)) + n]
ComputeAlways(r) ==   \* mutant: codes are created even when there are none to create
  /\ At(r, "list", "uses")
  /\ Go(r, Creating(req[r]))
  /\ UNCHANGED <<codes, clock, down, stopped, refused>>
Compute(r) ==
  LET q == Creating(req[r])
  IN  /\ At(r, "list", "uses")
      /\ IF q.n > 0 THEN Go(r, q) ELSE End(r)
      /\ UNCHANGED <<codes, clock, down, stopped, refused>>

(* createAccountInviteCodes inserts, *)
Insert(r) ==
  LET new == [i \in 1..req[r].n |->
                [routine |-> TRUE, available |-> 1, uses |-> 0, disabled |-> req[r].off, at |-> clock]]
  IN  /\ At(r, "list", "insert")
      /\ codes' = codes \o new
      /\ To(r, "count")
      /\ UNCHANGED <<clock, down, stopped, refused>>

(* and then counts: what it has inserted stays. *)
CountNothing(r) ==   \* mutant: no count
  /\ At(r, "list", "count")
  /\ End(r)
  /\ UNCHANGED <<codes, clock, down, stopped, refused>>
Count(r) ==
  /\ At(r, "list", "count")
  /\ refused' = IF Cardinality(Routine(codes)) > req[r].total THEN refused + 1 ELSE refused
  /\ End(r)
  /\ UNCHANGED <<codes, clock, down, stopped>>

-----------------------------------------------------------------------------
(* What an admin does: each is one query, or a transaction. *)

Gift(r) ==
  /\ At(r, "gift", "start")
  /\ codes' = Append(codes, [routine |-> FALSE, available |-> GiftUses, uses |-> 0,
                             disabled |-> FALSE, at |-> clock])
  /\ End(r)
  /\ UNCHANGED <<clock, down, stopped, refused>>

(* disableInviteCodes, of a code and of all codes of the account. *)
Disable(r) ==
  /\ \/ /\ At(r, "disable", "start")
        /\ codes' = [codes EXCEPT ![req[r].code].disabled = TRUE]
     \/ /\ At(r, "disableAll", "start")
        /\ codes' = [i \in DOMAIN codes |-> [codes[i] EXCEPT !.disabled = TRUE]]
  /\ End(r)
  /\ UNCHANGED <<clock, down, stopped, refused>>

SetFlag(r) ==
  /\ \/ At(r, "stop", "start") /\ stopped' = TRUE /\ UNCHANGED down
     \/ At(r, "resume", "start") /\ stopped' = FALSE /\ UNCHANGED down
     \/ At(r, "takedown", "start") /\ down' = TRUE /\ UNCHANGED stopped
     \/ At(r, "restore", "start") /\ down' = FALSE /\ UNCHANGED stopped
  /\ End(r)
  /\ UNCHANGED <<codes, clock, refused>>

Step(r) ==
  \/ Precheck(r) \/ Register(r)
  \/ GetAccount(r) \/ GetCodes(r) \/ Compute(r) \/ Insert(r) \/ Count(r)
  \/ Gift(r) \/ Disable(r) \/ SetFlag(r)

Next ==
  \/ \E r \in Requests, op \in Ops, c \in DOMAIN codes : Start(r, op, c)
  \/ \E r \in Requests : Step(r)
  \/ Tick

Spec == Init /\ [][Next]_vars

-----------------------------------------------------------------------------
(* Properties. *)

(* Codes are codes, and a request inserts a few of them or none. *)
TypeOK ==
  /\ codes \in Seq(Code)
  /\ clock \in Times \cup {CreatedAt} /\ down \in BOOLEAN /\ stopped \in BOOLEAN /\ refused \in 0..MaxRequests
  /\ \A r \in Requests : req[r].n \in 0..MaxOpen /\ req[r].code \in 0..Len(codes)

(* However many sign-ups race for a code, it is not used more often than   *)
(* it may be (tests/invite-codes.test.ts:98, "handles racing invite code   *)
(* uses").                                                                 *)
UsesBounded == \A c \in DOMAIN codes : codes[c].uses <= codes[c].available

(* getAccountInviteCodes.ts:109: "we allow a max of 5 open codes at a      *)
(* given time".                                                            *)
FewOpen == Cardinality(Open(codes)) <= MaxOpen

(* An account has no more codes than it has lived intervals since the      *)
(* epoch: whatever was used, disabled, given or taken down in between.     *)
Lived(t) == {k \in 1..t : CreatedAt + k * Interval <= t}
Earned == Cardinality(Routine(codes)) <= Cardinality(Lived(clock) \ Lived(Epoch))

(* Where requests race to more codes than that, one of them is told: no    *)
(* excess of codes remains without a request that was refused.             *)
ExcessIsTold ==
  InProgress = {} /\ refused = 0 => FewOpen /\ Earned
=============================================================================
