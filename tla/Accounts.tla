------------------------------- MODULE Accounts -------------------------------
(***************************************************************************)
(* The life of the accounts of a PDS: created, moved in, renamed,          *)
(* activated, deactivated, taken down, written to and deleted.             *)
(*                                                                         *)
(* What an account is lies in four places that no transaction spans: its   *)
(* rows in the account database, its directory in the actor store, its     *)
(* document in the PLC directory, and its events in the sequencer.  Each   *)
(* request is a script of steps, one per await of its handler: any other   *)
(* request may run between two of them.  The account database has a single *)
(* connection, so a query or transaction of its own is one step.           *)
(***************************************************************************)
EXTENDS Naturals, Sequences, FiniteSets, SequencesExt

CONSTANTS
  Dids, Handles,
  None,
  Existing,       \* the accounts there are at the start, an injection into Handles
  Ops,            \* the operations that requests may ask for
  MaxEvents       \* bound: requests, failed steps and crashes; a request that
                  \* begins beside another of its account counts twice

VARIABLES
  actor,   \* did -> its row in the table actor, or None
  root,    \* did -> whether it has a row in the table repo_root
  store,   \* did -> its actor store: "none", "empty" (migrated only) or "repo"
  plc,     \* did -> the handle in its DID document
  log,     \* did -> its events that are in repo_seq, in their order
  req,     \* request -> what it asks for, and what its handler has still to do
  undo,    \* did -> what a deletion that nobody awaits has still to do
  faults,  \* steps that have failed
  crashes, \* times the process has ended
  overlaps, \* requests that have begun beside another of their account
  litter,  \* history: the accounts of which a failed step has left a store behind
  seen,    \* history: what a request in progress could have read of its account
  gone     \* history: did -> a deletion has ended since an account was made

db == <<actor, root>>
trouble == <<faults, crashes, overlaps, litter>>
vars == <<db, store, plc, log, req, undo, trouble, seen, gone>>

Requests == 1..MaxEvents
Creations == {"create", "migrate", "signup"}
Row == [handle : Handles, down : BOOLEAN, off : BOOLEAN]
Statuses == {"active", "takendown", "deactivated", "deleted"}
Event == LET Of(kinds, values) == [kind : kinds, is : values, by : Requests \cup {0}]
         IN  Of({"account"}, Statuses) \cup Of({"identity"}, Handles) \cup Of({"commit", "sync"}, {None})

(* What formatAccountStatus makes of a row. *)
Status(row) ==
  CASE row = None -> "deleted"
    [] row # None /\ row.down -> "takendown"
    [] row # None /\ ~row.down /\ row.off -> "deactivated"
    [] OTHER -> "active"

(* The script of each operation: the awaits of its handler, in their order. *)
Script ==
  [create |-> <<"free", "absent", "make", "repo", "plc", "register",
                "identity", "active", "commit", "sync", "root">>,
   signup |-> <<"free", "absent", "make", "repo", "plc", "register",
                "identity", "active", "commit", "sync", "root", "present">>,
   migrate |-> <<"free", "absent", "make", "repo", "register", "root">>,
   activate |-> <<"find", "on", "read", "status", "announce", "identity", "sync">>,
   deactivate |-> <<"off", "status", "announce">>,
   adminOn |-> <<"on", "status", "announce">>,
   adminOff |-> <<"off", "status", "announce">>,
   takedown |-> <<"down", "status", "announce">>,
   restore |-> <<"up", "status", "announce">>,
   handle |-> <<"auth", "lookup", "plc", "rename", "identity">>,
   adminHandle |-> <<"lookup", "plc", "rename", "identity">>,
   write |-> <<"auth", "open", "commit", "root">>,
   delete |-> <<"find", "destroy", "unroot", "unactor", "tombstone", "purge">>,
   adminDelete |-> <<"destroy", "unroot", "unactor", "tombstone", "purge">>]

ASSUME AccountsAssumption ==
  /\ DOMAIN Existing \subseteq Dids /\ IsInjective(Existing)
  /\ \A d \in DOMAIN Existing : Existing[d] \in Handles
  /\ Ops \subseteq DOMAIN Script
  /\ MaxEvents \in Nat

(* What stands for nothing is none of the things it stands for. *)
ASSUME NoneAssumption ==
  None \notin Dids \cup Handles \cup Row \cup DOMAIN Script \cup Statuses

Idle == [op |-> None, did |-> None, handle |-> None, got |-> None, todo |-> <<>>]

Init ==
  /\ actor = [d \in Dids |-> IF d \in DOMAIN Existing
                               THEN [handle |-> Existing[d], down |-> FALSE, off |-> FALSE]
                               ELSE None]
  /\ root = [d \in Dids |-> d \in DOMAIN Existing]
  /\ store = [d \in Dids |-> IF d \in DOMAIN Existing THEN "repo" ELSE "none"]
  /\ plc = [d \in Dids |-> IF d \in DOMAIN Existing THEN Existing[d] ELSE None]
  /\ log = [d \in Dids |-> IF d \in DOMAIN Existing
                             THEN <<[kind |-> "identity", is |-> Existing[d], by |-> 0],
                                    [kind |-> "account", is |-> "active", by |-> 0]>>
                             ELSE <<>>]
  /\ req = [r \in Requests |-> Idle]
  /\ undo = [d \in Dids |-> <<>>]
  /\ faults = 0 /\ crashes = 0 /\ overlaps = 0 /\ litter = {}
  /\ seen = [r \in Requests |-> {}]
  /\ gone = [d \in Dids |-> FALSE]

-----------------------------------------------------------------------------
(* How a request moves along its script. *)

At(r, step) == req[r].todo # <<>> /\ Head(req[r].todo) = step
InProgress(d) == {r \in Requests : req[r].did = d /\ req[r].todo # <<>>}
AtRest(d) == InProgress(d) = {} /\ undo[d] = <<>>
Left == MaxEvents - Cardinality({r \in Requests : req[r] # Idle}) - faults - crashes - overlaps

(* What it asks for, and of which account, stays. *)
With(q, handle, got, todo) == [op |-> q.op, did |-> q.did, handle |-> handle, got |-> got, todo |-> todo]

GoTo(r, todo) == req' = [req EXCEPT ![r] = With(@, @.handle, @.got, todo)]
Pass(r) == GoTo(r, Tail(req[r].todo))
PassWith(r, x) == req' = [req EXCEPT ![r] = With(@, @.handle, x, Tail(@.todo))]

(* A handler that throws.  The creations destroy the store they have made, *)
(* once; a sign-up that has registered its account also starts to delete   *)
(* the rows, and does not wait for it.                                     *)
LeaveStore(r) == <<>>   \* mutant: no clean-up
Outside == {"free", "absent", "make", "destroy"}   \* before the try of the handler, or in its catch
Thrown(r) ==
  IF req[r].op \in Creations /\ Head(req[r].todo) \notin Outside
    THEN <<"destroy">> ELSE <<>>
Unregisters(r) ==
  /\ req[r].op = "signup"
  /\ Head(req[r].todo) \in {"identity", "active", "commit", "sync", "root", "present"}
Throw(r) ==
  /\ GoTo(r, Thrown(r))
  /\ undo' = IF Unregisters(r)
               THEN [undo EXCEPT ![req[r].did] = <<"unroot", "unactor">>]
               ELSE undo

(* A step that only reads: it goes on if what it finds allows it. *)
ReadStep(r, step, ok, move) ==
  /\ At(r, step)
  /\ IF ok THEN move /\ UNCHANGED undo ELSE Throw(r)
  /\ UNCHANGED <<db, store, plc, log, trouble, gone>>

(* A request.  A DID that a creation registers with PLC is a fresh one.    *)
(* Only one that moves in brings a DID of its own.                         *)
Start(r, op, d, h) ==
  /\ req[r] = Idle /\ \A s \in 1..(r - 1) : req[s] # Idle
  /\ overlaps' = IF AtRest(d) THEN overlaps ELSE overlaps + 1
  /\ Left > (IF AtRest(d) THEN 0 ELSE 1)
  /\ op \in {"create", "signup"} =>
       plc[d] = None /\ \A s \in Requests : req[s].did # d
  /\ req' = [req EXCEPT ![r] =
               [op |-> op, did |-> d, got |-> None, todo |-> Script[op],
                handle |-> IF op \in Creations \cup {"handle", "adminHandle"} THEN h ELSE None]]
  /\ UNCHANGED <<db, store, plc, log, undo, faults, crashes, litter, gone>>

-----------------------------------------------------------------------------
(* Reads. *)

Holders(h) == {d \in Dids : actor[d] # None /\ actor[d].handle = h}

(* The check for a new account looks at active accounts only. *)
Free(r) ==
  ReadStep(r, "free", \A d \in Holders(req[r].handle) : Status(actor[d]) # "active", Pass(r))

AnyStore(r) == ReadStep(r, "absent", TRUE, Pass(r))   \* mutant: no check for a store
Absent(r) == ReadStep(r, "absent", store[req[r].did] = "none", Pass(r))

(* A sign-up ends with a look for the account, and throws if it does not   *)
(* find it, active.                                                        *)
Present(r) == ReadStep(r, "present", Status(actor[req[r].did]) = "active", Pass(r))

(* activateAccount keeps the handle it reads here for its identity event, *)
(* and does not see an account that is taken down; deleteAccount does.     *)
Find(r) ==
  LET row == actor[req[r].did]
  IN  ReadStep(r, "find",
        row # None /\ (req[r].op = "activate" => ~row.down),
        req' = [req EXCEPT ![r] = With(@, row.handle, @.got, Tail(@.todo))])

(* The status checks of the verifier for updateHandle and repo writes. *)
Auth(r) ==
  LET row == actor[req[r].did]
  IN  ReadStep(r, "auth",
        row # None /\ ~row.down /\ (req[r].op = "write" => ~row.off), Pass(r))

(* The reads that need the store: the sync data of an activation, and the *)
(* opening of the store for a write.                                       *)
OpenStore(r) ==
  \/ ReadStep(r, "read", store[req[r].did] = "repo", Pass(r))
  \/ ReadStep(r, "open", store[req[r].did] = "repo", Pass(r))

(* Whether the handle is taken.  updateHandle does not look at accounts    *)
(* that are taken down, updateAccountHandle does.  The owner of the handle *)
(* skips to the event.                                                     *)
Visible(op, h) ==
  {d \in Holders(h) : op = "handle" => ~actor[d].down}
Lookup(r) ==
  LET found == Visible(req[r].op, req[r].handle)
  IN  ReadStep(r, "lookup", found \subseteq {req[r].did},
        GoTo(r, IF found = {} THEN Tail(req[r].todo) ELSE <<"identity">>))

(* Mutant: the status as formatAccountStatus has it, undefined when active. *)
BareStatus(r) ==
  LET status == Status(actor[req[r].did])
  IN  ReadStep(r, "status", TRUE, PassWith(r, IF status = "active" THEN None ELSE status))

(* Mutant: a request announces the status it has set. *)
AssumeStatus(r) ==
  ReadStep(r, "status", TRUE,
    PassWith(r, IF req[r].op \in {"activate", "adminOn"} THEN "active" ELSE Status(actor[req[r].did])))

ReadStatus(r) ==
  ReadStep(r, "status", TRUE, PassWith(r, Status(actor[req[r].did])))

-----------------------------------------------------------------------------
(* Writes to the actor store, the PLC directory and the account database. *)

(* ActorStore.create, after its check: it opens the database that it finds *)
(* or makes it, and migrates it.                                           *)
Make(r) ==
  LET d == req[r].did
  IN  /\ At(r, "make")
      /\ store' = [store EXCEPT ![d] = IF @ = "none" THEN "empty" ELSE @]
      /\ gone' = [gone EXCEPT ![d] = FALSE]
      /\ PassWith(r, store[d])
      /\ UNCHANGED <<db, plc, log, undo, trouble>>

(* createRepo inserts the root of the repository: it fails on a second one. *)
CreateRepo(r) ==
  LET d == req[r].did
  IN  /\ At(r, "repo")
      /\ IF store[d] = "empty"
           THEN store' = [store EXCEPT ![d] = "repo"] /\ Pass(r) /\ UNCHANGED undo
           ELSE Throw(r) /\ UNCHANGED store
      /\ UNCHANGED <<db, plc, log, trouble, gone>>

Destroy(r) ==
  LET d == req[r].did
  IN  /\ At(r, "destroy")
      /\ store' = [store EXCEPT ![d] = "none"]
      /\ litter' = litter \ {d}
      /\ Pass(r)
      /\ UNCHANGED <<db, plc, log, undo, faults, crashes, overlaps, gone>>

(* The directory takes the operation: that it knows the DID, and takes     *)
(* the key of this server for it, is left to Fault.                        *)
UpdatePlc(r) ==
  /\ At(r, "plc")
  /\ plc' = [plc EXCEPT ![req[r].did] = req[r].handle]
  /\ Pass(r)
  /\ UNCHANGED <<db, store, log, undo, trouble, gone>>

(* The transaction of createAccount. *)
Register(r) ==
  LET q == req[r]
  IN  /\ At(r, "register")
      /\ IF actor[q.did] = None /\ Holders(q.handle) = {}
           THEN /\ actor' = [actor EXCEPT ![q.did] =
                       [handle |-> q.handle, down |-> FALSE, off |-> q.op = "migrate"]]
                /\ root' = [root EXCEPT ![q.did] = TRUE]
                /\ Pass(r) /\ UNCHANGED undo
           ELSE Throw(r) /\ UNCHANGED db
      /\ UNCHANGED <<store, plc, log, trouble, gone>>

(* Mutant: nobody looks at the number of updated rows. *)
RenameOrNot(r) ==
  LET q == req[r]
  IN  /\ At(r, "rename")
      /\ actor' = IF actor[q.did] # None /\ Holders(q.handle) = {}
                    THEN [actor EXCEPT ![q.did].handle = q.handle] ELSE actor
      /\ Pass(r)
      /\ UNCHANGED <<root, store, plc, log, undo, trouble, gone>>

(* updateHandle: no row is updated when any account holds the handle. *)
Rename(r) ==
  LET q == req[r]
  IN  /\ At(r, "rename")
      /\ IF actor[q.did] # None /\ Holders(q.handle) = {}
           THEN actor' = [actor EXCEPT ![q.did].handle = q.handle] /\ Pass(r) /\ UNCHANGED undo
           ELSE Throw(r) /\ UNCHANGED actor
      /\ UNCHANGED <<root, store, plc, log, trouble, gone>>

(* activateAccount, deactivateAccount, takedownAccount: updates of a row *)
(* that may be missing.                                                   *)
SetRow(r, step, row) ==
  LET d == req[r].did
  IN  /\ At(r, step)
      /\ actor' = [actor EXCEPT ![d] = IF @ = None THEN None ELSE row]
      /\ Pass(r)
      /\ UNCHANGED <<root, store, plc, log, undo, trouble, gone>>
SetStatus(r) ==
  LET row == actor[req[r].did]
  IN  \/ SetRow(r, "on", [row EXCEPT !.off = FALSE])
      \/ SetRow(r, "off", [row EXCEPT !.off = TRUE])
      \/ SetRow(r, "down", [row EXCEPT !.down = TRUE])
      \/ SetRow(r, "up", [row EXCEPT !.down = FALSE])

(* updateRepoRoot is an upsert. *)
UpdateRepoRoot(r) ==
  /\ At(r, "root")
  /\ root' = [root EXCEPT ![req[r].did] = TRUE]
  /\ Pass(r)
  /\ UNCHANGED <<actor, store, plc, log, undo, trouble, gone>>

(* deleteAccount deletes from five tables, one after the other; of these, *)
(* repo_root comes first and actor last.                                   *)
DeleteRow(step, d) ==
  \/ step = "unroot" /\ root' = [root EXCEPT ![d] = FALSE] /\ UNCHANGED actor
  \/ step = "unactor" /\ actor' = [actor EXCEPT ![d] = None] /\ UNCHANGED root
DeleteRows(r) ==
  /\ \E step \in {"unroot", "unactor"} : At(r, step) /\ DeleteRow(step, req[r].did)
  /\ Pass(r)
  /\ UNCHANGED <<store, plc, log, undo, trouble, gone>>
UndoRows(d) ==
  /\ undo[d] # <<>>
  /\ DeleteRow(Head(undo[d]), d)
  /\ undo' = [undo EXCEPT ![d] = Tail(@)]
  /\ UNCHANGED <<store, plc, log, req, trouble, gone>>

-----------------------------------------------------------------------------
(* The sequencer. *)

Emit(r, step, kind, x) ==
  /\ At(r, step)
  /\ log' = [log EXCEPT ![req[r].did] = Append(@, [kind |-> kind, is |-> x, by |-> r])]
  /\ Pass(r)
  /\ UNCHANGED <<db, store, plc, undo, trouble, gone>>

Sequence(r) ==
  \/ Emit(r, "active", "account", "active")
  \/ Emit(r, "announce", "account", req[r].got)
  \/ Emit(r, "tombstone", "account", "deleted")
  \/ Emit(r, "identity", "identity", req[r].handle)
  \/ Emit(r, "commit", "commit", None)
  \/ Emit(r, "sync", "sync", None)

(* Mutant: deleteAllForUser without the event to spare. *)
PurgeAll(r) ==
  LET d == req[r].did
  IN  /\ At(r, "purge")
      /\ log' = [log EXCEPT ![d] = <<>>]
      /\ gone' = [gone EXCEPT ![d] = TRUE]
      /\ Pass(r)
      /\ UNCHANGED <<db, store, plc, undo, trouble>>

(* deleteAllForUser spares the one event that this request has sequenced, *)
(* if another deletion has not deleted it.                                 *)
Own(l, r) == {i \in DOMAIN l : l[i].by = r}
Spared(l, r) == IF Own(l, r) = {} THEN <<>> ELSE <<l[Max(Own(l, r))]>>
Purge(r) ==
  LET d == req[r].did
  IN  /\ At(r, "purge")
      /\ log' = [log EXCEPT ![d] = Spared(@, r)]
      /\ gone' = [gone EXCEPT ![d] = TRUE]
      /\ Pass(r)
      /\ UNCHANGED <<db, store, plc, undo, trouble>>

-----------------------------------------------------------------------------
(* A step that fails for a reason of its own: an invite used up or an      *)
(* email taken in the transaction, PLC out of reach, a database error.     *)
(* The making and the destroying of a store are several awaits each, with  *)
(* no clean-up of their own: a making that fails may have made the         *)
(* database file, and what a destroying has not deleted stays.             *)
HalfMade(r) ==
  LET d == req[r].did
  IN  /\ At(r, "make") /\ store[d] = "none"
      /\ store' = [store EXCEPT ![d] = "empty"]
      /\ litter' = litter \cup {d}
      /\ gone' = [gone EXCEPT ![d] = FALSE]
HalfDestroyed(r) ==
  LET d == req[r].did
  IN  /\ At(r, "destroy")
      /\ store' \in {store, [store EXCEPT ![d] = "none"]}
      /\ litter' = litter \cup {d}
      /\ UNCHANGED gone
Fault(r) ==
  /\ Left > 0 /\ req[r].todo # <<>>
  /\ faults' = faults + 1
  /\ Throw(r)
  /\ HalfMade(r) \/ HalfDestroyed(r) \/ (~At(r, "destroy") /\ UNCHANGED <<store, litter, gone>>)
  /\ UNCHANGED <<db, plc, log, crashes, overlaps>>

(* The process ends and starts again: nothing of a request survives.  A    *)
(* deletion that nobody awaits has nobody to catch its error, which ends   *)
(* the process.                                                            *)
Crash ==
  /\ Left > 0 /\ \E d \in Dids : ~AtRest(d)
  /\ crashes' = crashes + 1
  /\ req' = [r \in Requests |-> [req[r] EXCEPT !.todo = <<>>]]
  /\ undo' = [d \in Dids |-> <<>>]
  /\ UNCHANGED <<db, store, plc, log, faults, overlaps, litter, gone>>

Step(r) ==
  \/ Free(r) \/ Absent(r) \/ Present(r) \/ Find(r) \/ Auth(r) \/ OpenStore(r) \/ Lookup(r)
  \/ ReadStatus(r)
  \/ Make(r) \/ CreateRepo(r) \/ Destroy(r) \/ UpdatePlc(r) \/ Register(r) \/ Rename(r)
  \/ SetStatus(r) \/ UpdateRepoRoot(r) \/ DeleteRows(r) \/ Sequence(r) \/ Purge(r)
  \/ Fault(r)

View(row) == [status |-> Status(row), handle |-> IF row = None THEN None ELSE row.handle]
Watch ==
  seen' = [r \in Requests |->
             IF req'[r].todo = <<>> THEN {}
             ELSE seen[r] \cup {View(actor[req'[r].did]), View(actor'[req'[r].did])}]

Next ==
  /\ \/ \E r \in Requests, op \in Ops, d \in Dids, h \in Handles : Start(r, op, d, h)
     \/ \E r \in Requests : Step(r)
     \/ \E d \in Dids : UndoRows(d)
     \/ Crash
  /\ Watch

Spec == Init /\ [][Next]_vars

-----------------------------------------------------------------------------
(* Properties. *)

(* Rows, stores, documents, events and requests have their types. *)
TypeOK ==
  /\ actor \in [Dids -> Row \cup {None}] /\ root \in [Dids -> BOOLEAN]
  /\ store \in [Dids -> {"none", "empty", "repo"}]
  /\ plc \in [Dids -> Handles \cup {None}]
  /\ \A d \in Dids : log[d] \in Seq(Event) /\ undo[d] \in Seq({"unroot", "unactor"})
  /\ \A r \in Requests : req[r] = Idle \/ (req[r].op \in Ops /\ req[r].did \in Dids)
  /\ Left \in 0..MaxEvents /\ litter \subseteq Dids

Undisturbed(d) == AtRest(d) /\ faults = 0 /\ crashes = 0 /\ overlaps = 0

(* What the last event of a kind says, or None. *)
LastOf(l, kind) ==
  LET told == {i \in DOMAIN l : l[i].kind = kind} IN IF told = {} THEN None ELSE l[Max(told)].is

(* What a consumer of the firehose takes the status of an account to be:   *)
(* it has not heard of an account that has no events.                      *)
HeardIn(l) == IF LastOf(l, "account") = None THEN "deleted" ELSE LastOf(l, "account")
Heard(d) == HeardIn(log[d])

(* Once the requests for an account have ended, and none of them failed or *)
(* raced, the last account event tells its status and the last identity    *)
(* event, where there is one, its handle, whatever was asked before and    *)
(* however often.  An account that has moved in is not announced before    *)
(* its activation; a rename that loses its handle announces nothing.       *)
Announced ==
  \A d \in Dids : Undisturbed(d) =>
    /\ \/ Heard(d) = Status(actor[d])
       \/ Heard(d) = "deleted" /\ Status(actor[d]) = "deactivated"
    /\ actor[d] # None => LastOf(log[d], "identity") \in {None, actor[d].handle}

(* Once its requests have ended without a failure, an account has a        *)
(* repository, a root and a row, or none of them: a creation that found    *)
(* its handle taken at the last moment leaves nothing.                     *)
AllOrNothing ==
  \A d \in Dids : Undisturbed(d) =>
    /\ actor[d] # None <=> store[d] = "repo"
    /\ actor[d] # None <=> root[d]
    /\ store[d] # "empty"

(* An account whose deletion has ended has no rows, no store, and only the *)
(* news of its deletion among its events: later requests for it, failed    *)
(* steps and restarts bring nothing back.  A store that is made again for  *)
(* its DID, if only by half, is the beginning of another account.          *)
DeletionFinal ==
  \A d \in Dids : gone[d] /\ AtRest(d) /\ overlaps = 0 =>
    /\ actor[d] = None /\ ~root[d] /\ store[d] = "none"
    /\ log[d] # <<>>
    /\ \A i \in DOMAIN log[d] : log[d][i].kind = "account" /\ log[d][i].is = "deleted"

(* Whatever runs beside it, a request announces only a status or a handle  *)
(* that the account had at some moment while the request was in progress:  *)
(* the status is read back after the change, never assumed.                *)
AnnouncedWasTrue ==
  [][\A d \in Dids : Len(log'[d]) > Len(log[d]) =>
       LET e == Last(log'[d]) IN
         /\ e.kind = "account" => \E v \in seen[e.by] : v.status = e.is
         /\ e.kind = "identity" => \E v \in seen[e.by] : v.handle = e.is]_vars

(* A creation that fails after it has made its store destroys it: without  *)
(* a crash or a race, no store is left without an account, unless the      *)
(* making or the destroying of the store is itself what failed, and until  *)
(* the store is destroyed.  Of those two, the code cleans up neither.      *)
StoreHasAccount ==
  \A d \in Dids :
    AtRest(d) /\ crashes = 0 /\ overlaps = 0 /\ store[d] # "none" => actor[d] # None \/ d \in litter

(* tests/handles.test.ts:125: "if handle update fails, it does not update  *)
(* their did document".                                                    *)
DocOnlyIfRenamed ==
  [][\A r \in Requests :
       At(r, "rename") /\ req'[r].todo = <<>> /\ trouble' = trouble
         => plc'[req[r].did] # req[r].handle]_vars

(* tests/account-deletion.test.ts:156: "check we do have a account         *)
(* (deletion) event for this did", of an account whose deletion has ended. *)
DeletionHasEvent == \A d \in Dids : gone[d] /\ AtRest(d) => Heard(d) = "deleted" /\ log[d] # <<>>

(* createAccount.ts:103, of the clean-up of a creation: "this will only be *)
(* reached if the actor store _did not_ exist before".                     *)
DestroysOwnStore ==
  \A r \in Requests : req[r].op \in Creations /\ At(r, "destroy") => req[r].got = "none"
=============================================================================
