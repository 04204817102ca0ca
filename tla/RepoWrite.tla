----------------------------- MODULE RepoWrite -----------------------------
(***************************************************************************)
(* Writes to the repository of one account: the handlers createRecord,     *)
(* putRecord, deleteRecord, applyWrites and importRepo                     *)
(* (src/src/api/com/atproto/repo), the transaction of the actor store they *)
(* run in (actor-store/actor-store.ts, actor-store/repo/transactor.ts,     *)
(* db/db.ts), the commit event put on the firehose inside of it and the    *)
(* repo root that the account database keeps beside it.                    *)
(*                                                                         *)
(* The actor store is a SQLite file in WAL mode: a transaction reads one   *)
(* snapshot, takes the only write lock at its first write, and is refused  *)
(* it, and retried from the start, if the file has changed since its       *)
(* snapshot.  The firehose is another database, so its insert stays even   *)
(* if the transaction does not commit.                                     *)
(***************************************************************************)
EXTENDS Integers, Sequences, FiniteSets, FiniteSetsExt

CONSTANTS
  Writers,    \* concurrent requests
  Rkeys,      \* record paths of the repository
  Cids,       \* contents of records
  Subject,    \* what a content links to: the post that is liked, say
  MaxWrites,  \* writes of one applyWrites (200 in the code)
  MaxTries,   \* runs of the function of a transaction (60 in the code)
  MaxRequests, \* bound of the model on requests
  MaxFaults,   \* bound of the model on crashes and failing COMMITs
  Kinds,       \* the requests to consider, of those in AllKinds
  Gone,        \* no record; null as the swapRecord of a request
  None         \* not given, not held

AllKinds == {"create", "put", "delete", "apply", "import"}

ASSUME WriteAssumption ==
  /\ MaxTries \in Nat \ {0} /\ MaxRequests \in Nat /\ MaxFaults \in Nat
  /\ MaxWrites \in Nat /\ IsFiniteSet(Rkeys)
  /\ Kinds \subseteq AllKinds
  /\ Gone \notin Cids
  /\ Cids \subseteq DOMAIN Subject
  /\ None \notin Cids \cup {Gone} \cup Writers \cup Nat

VARIABLES
  repo,        \* the committed actor store
  lock,        \* the writer that holds its write lock, or None
  phase,       \* phase[w]: how far the request of w is
  req,         \* req[w]: the request
  txn,         \* txn[w]: the commit its transaction has formatted
  tries,       \* tries[w]: runs of the transaction so far
  events,      \* the commit events of the account on the firehose
  accountRoot, \* the revision in repo_root of the account database
  lastRev,     \* the last TID given out
  commits,     \* history: the revisions of client writes committed, in order
  started,     \* the number of requests so far
  faults       \* the number of crashes and failed COMMITs so far

storeVars == <<repo, lock, commits>>
reqVars   == <<phase, req, txn, tries>>
vars == <<storeVars, reqVars, events, accountRoot, lastRev, started, faults>>

\* begin: the transaction is to run.  formatted: it has read and computed the
\* commit.  written: it holds the lock and has applied the commit.
\* sequenced: the event is on the firehose.  root: committed, the account
\* database is to be told.
Phases == {"idle", "begin", "formatted", "written", "sequenced", "root"}
Holding == {"written", "sequenced"}

Records == [Rkeys -> Cids \cup {Gone}]
EmptyRepo == [k \in Rkeys |-> Gone]
Contents(tree) == {tree[k] : k \in DOMAIN tree} \ {Gone}

\* repo.rev: the row of repo_root.  repo.signed: the revision inside of the
\* commit it points to, which differs after an import.  repo.tree: the MST.
\* repo.index: the table of records.  repo.blocks: record blocks stored.
Init ==
  /\ repo = [rev |-> 0, signed |-> 0, tree |-> EmptyRepo, index |-> EmptyRepo,
             blocks |-> {}]
  /\ lock = None
  /\ phase = [w \in Writers |-> "idle"]
  /\ req = [w \in Writers |-> None]
  /\ txn = [w \in Writers |-> None]
  /\ tries = [w \in Writers |-> 0]
  /\ events = <<>>
  /\ accountRoot = 0
  /\ lastRev = 0
  /\ commits = <<>>
  /\ started = 0
  /\ faults = 0
-----------------------------------------------------------------------------
\* A write of a commit.  A commit is a sequence of them, and may name a path more
\* than once.
WriteOps == [action : {"create", "update"}, key : Rkeys, cid : Cids]
            \cup [action : {"delete"}, key : Rkeys, cid : {Gone}]
Creation(k, c) == [action |-> "create", key |-> k, cid |-> c]
Update(k, c)   == [action |-> "update", key |-> k, cid |-> c]
Deletion(k)    == [action |-> "delete", key |-> k, cid |-> Gone]

\* A client that gives a swap gives what it saw when it sent the request.
Requests == {r \in
  [kind : {"create"}, key : Rkeys, cid : Cids, validate : BOOLEAN,
   swapCommit : {None, repo.rev}]
  \cup
  (UNION {[kind : {"put"}, key : {k}, cid : Cids, swapCommit : {None, repo.rev},
           swapRecord : {None, repo.index[k]}] : k \in Rkeys})
  \cup
  (UNION {[kind : {"delete"}, key : {k}, swapCommit : {None, repo.rev},
           swapRecord : {None, repo.index[k]} \ {Gone}] : k \in Rkeys})
  \cup
  (UNION {[kind : {"apply"}, writes : [1..n -> WriteOps],
           swapCommit : {None, repo.rev}] : n \in 0..MaxWrites})
  \cup
  [kind : {"import"}, tree : Records] :
  r.kind \in Kinds}

\* Mutant: a conflict only with the very same record.
SameRecordConflicts(index, r) ==
  IF r.validate THEN {k \in Rkeys : index[k] = r.cid} ELSE {}

\* getBacklinkConflicts, read from the table of backlinks, which indexRecord and
\* deleteRecord keep in step with the records.
BacklinkConflicts(index, r) ==
  IF r.validate
    THEN {k \in Rkeys : index[k] # Gone /\ Subject[index[k]] = Subject[r.cid]}
    ELSE {}

\* The orders in which a query may give the members of S.
Orders(S) == {f \in [1..Cardinality(S) -> S] : \A x \in S : \E i \in DOMAIN f : f[i] = x}

\* What a request may have written.
Writes(index, r) ==
  CASE r.kind = "create" ->
         {Append([i \in DOMAIN ks |-> Deletion(ks[i])], Creation(r.key, r.cid)) :
            ks \in Orders(BacklinkConflicts(index, r))}
    [] r.kind = "put" ->
         {<<IF index[r.key] = Gone THEN Creation(r.key, r.cid) ELSE Update(r.key, r.cid)>>}
    [] r.kind = "delete" -> {<<Deletion(r.key)>>}
    [] r.kind = "apply" -> {r.writes}

\* putRecord and deleteRecord of what is already so answer without a commit.
IsNoop(index, r) ==
  \/ r.kind = "put" /\ index[r.key] = r.cid
  \/ r.kind = "delete" /\ index[r.key] = Gone

\* BadCommitSwapError and BadRecordSwapError of formatCommit.
SwapFails(r) ==
  \/ r.kind # "import" /\ r.swapCommit \notin {None, repo.rev}
  \/ r.kind \in {"put", "delete"} /\ r.swapRecord \notin {None, repo.index[r.key]}

\* What path k holds before the i-th of the writes: what the last of the earlier
\* ones made of it.
Before(tree, writes, i, k) ==
  LET earlier == {j \in 1..(i - 1) : writes[j].key = k}
  IN IF earlier = {} THEN tree[k] ELSE writes[Max(earlier)].cid

Apply(tree, writes) == [k \in Rkeys |-> Before(tree, writes, Len(writes) + 1, k)]

\* The tree refuses to add what is there and to change what is not.
Fits(tree, writes) ==
  \A i \in DOMAIN writes :
    writes[i].action = "create" <=> Before(tree, writes, i, writes[i].key) = Gone

\* The contents that the paths which differ between two trees have in the first.
Changed(before, after) == {k \in Rkeys : before[k] # after[k]}
Replaced(before, after) == {before[k] : k \in Changed(before, after)} \ {Gone}

\* Contents that go at one path and come at another: the diff of the library has
\* them both removed and new or neither, which depends on the order of the paths.
Moved(before, after) == Replaced(before, after) \cap Replaced(after, before)
RemovedCids(before, after, moved) == (Replaced(before, after) \ Replaced(after, before)) \cup moved
NewCids(before, after, moved) == (Replaced(after, before) \ Replaced(before, after)) \cup moved

\* The paths that are updated or deleted, delAndUpdateUris.
Touched(writes) == {writes[i].key : i \in {j \in DOMAIN writes : writes[j].action # "create"}}

\* Mutant: no duplicate is looked for.
NoDuplicates(index, removed, touched) == {}

\* getDuplicateRecordCids: of those, the ones a record at another path still has.
DuplicateCids(index, removed, touched) ==
  {cid \in removed : \E k \in Rkeys \ touched : index[k] = cid}
-----------------------------------------------------------------------------
\* Mutant: since is the revision of the row, not of the signed commit.
FormatCommitSinceRow(writes, moved, rev) ==
  LET after == Apply(repo.tree, writes)
  IN [snap |-> repo.rev,
      store |-> [rev |-> rev, signed |-> rev, tree |-> after, index |-> after,
                 blocks |-> repo.blocks \cup Contents(after)],
      event |-> [rev |-> rev, since |-> repo.rev, prevData |-> repo.tree, data |-> after,
                 ops |-> [i \in DOMAIN writes |->
                            [key |-> writes[i].key, cid |-> writes[i].cid,
                             prev |-> repo.index[writes[i].key]]]]]

\* What a commit makes of the store, and the event that describes it.  The blocks
\* are put before the removed ones are deleted; the prev of an op is read from the
\* index, before any of the writes.
FormatCommit(writes, moved, rev) ==
  LET after   == Apply(repo.tree, writes)
      removed == RemovedCids(repo.tree, after, moved)
  IN [snap |-> repo.rev,
      store |-> [rev |-> rev, signed |-> rev, tree |-> after,
                 index |-> Apply(repo.index, writes),
                 blocks |-> (repo.blocks \cup NewCids(repo.tree, after, moved))
                            \ (removed \ DuplicateCids(repo.index, removed, Touched(writes)))],
      event |-> [rev |-> rev, since |-> repo.signed,
                 prevData |-> repo.tree, data |-> after,
                 ops |-> [i \in DOMAIN writes |->
                            [key |-> writes[i].key, cid |-> writes[i].cid,
                             prev |-> repo.index[writes[i].key]]]]]

\* importRepo: verifyDiff, then the records that differ.  The commit was signed
\* elsewhere, nothing is sequenced and no duplicate is looked for.
FormatImport(tree, moved, rev) ==
  [snap |-> repo.rev,
   store |-> [rev |-> rev, signed |-> 0, tree |-> tree,
              index |-> [k \in Rkeys |-> IF k \in Changed(repo.tree, tree)
                                           THEN tree[k] ELSE repo.index[k]],
              blocks |-> (repo.blocks \cup NewCids(repo.tree, tree, moved))
                         \ RemovedCids(repo.tree, tree, moved)],
   event |-> None]

\* What the transaction of a request may compute.
Formats(r, rev) ==
  IF r.kind = "import"
    THEN {FormatImport(r.tree, moved, rev) : moved \in SUBSET Moved(repo.tree, r.tree)}
    ELSE UNION {{FormatCommit(writes, moved, rev) :
                   moved \in SUBSET Moved(repo.tree, Apply(repo.tree, writes))} :
                writes \in {s \in Writes(repo.index, r) : Fits(repo.tree, s)}}

Finish(w) ==
  /\ phase' = [phase EXCEPT ![w] = "idle"]
  /\ req' = [req EXCEPT ![w] = None]
  /\ txn' = [txn EXCEPT ![w] = None]
  /\ tries' = [tries EXCEPT ![w] = 0]

\* The request is authorised and its writes are prepared.
Start(w) ==
  /\ phase[w] = "idle"
  /\ started < MaxRequests
  /\ started' = started + 1
  /\ \E r \in Requests : req' = [req EXCEPT ![w] = r]
  /\ phase' = [phase EXCEPT ![w] = "begin"]
  /\ UNCHANGED <<storeVars, txn, tries, events, accountRoot, lastRev, faults>>

\* The transaction reads its snapshot: it has nothing to do, or is refused.
Refuse(w) ==
  /\ phase[w] = "begin"
  /\ \/ IsNoop(repo.index, req[w])
     \/ SwapFails(req[w])
     \/ Formats(req[w], lastRev + 1) = {}
  /\ Finish(w)
  /\ UNCHANGED <<storeVars, events, accountRoot, lastRev, started, faults>>

\* Or it computes the commit, under a TID that was never used.
Format(w) ==
  /\ phase[w] = "begin"
  /\ ~IsNoop(repo.index, req[w])
  /\ ~SwapFails(req[w])
  /\ lastRev' = lastRev + 1
  /\ \E t \in Formats(req[w], lastRev + 1) : txn' = [txn EXCEPT ![w] = t]
  /\ tries' = [tries EXCEPT ![w] = @ + 1]
  /\ phase' = [phase EXCEPT ![w] = "formatted"]
  /\ UNCHANGED <<storeVars, req, events, accountRoot, started, faults>>

Stale(w) == repo.rev # txn[w].snap

\* Mutant: the lock alone is enough.
WriteAnyway(w) ==
  /\ phase[w] = "formatted"
  /\ lock = None
  /\ lock' = w
  /\ phase' = [phase EXCEPT ![w] = "written"]
  /\ UNCHANGED <<repo, commits, req, txn, tries, events, accountRoot, lastRev,
                 started, faults>>

\* applyCommit, indexWrites: the first of their statements takes the lock.
Write(w) ==
  /\ phase[w] = "formatted"
  /\ lock = None
  /\ ~Stale(w)
  /\ lock' = w
  /\ phase' = [phase EXCEPT ![w] = "written"]
  /\ UNCHANGED <<repo, commits, req, txn, tries, events, accountRoot, lastRev,
                 started, faults>>

\* Mutant: no limit to the retries.
RetryForever(w) ==
  /\ phase' = [phase EXCEPT ![w] = "begin"]
  /\ txn' = [txn EXCEPT ![w] = None]
  /\ UNCHANGED <<req, tries>>

\* retrySqlite: the function runs again from the start, or the request fails.
Retry(w) ==
  \/ /\ tries[w] < MaxTries
     /\ phase' = [phase EXCEPT ![w] = "begin"]
     /\ txn' = [txn EXCEPT ![w] = None]
     /\ UNCHANGED <<req, tries>>
  \/ Finish(w)

\* SQLITE_BUSY, SQLITE_BUSY_SNAPSHOT.
Busy(w) ==
  /\ phase[w] = "formatted"
  /\ lock # None \/ Stale(w)
  /\ Retry(w)
  /\ UNCHANGED <<storeVars, events, accountRoot, lastRev, started, faults>>

\* sequencer.sequenceCommit, awaited inside of the transaction.
SequenceCommit(w) ==
  /\ phase[w] = "written"
  /\ req[w].kind # "import"
  /\ events' = Append(events, txn[w].event)
  /\ phase' = [phase EXCEPT ![w] = "sequenced"]
  /\ UNCHANGED <<storeVars, req, txn, tries, accountRoot, lastRev, started,
                 faults>>

\* Mutant: an error after the event is on the firehose.
RollbackLate(w) ==
  /\ phase[w] \in {"formatted"} \cup Holding
  /\ lock' = IF phase[w] \in Holding THEN None ELSE lock
  /\ Retry(w)
  /\ UNCHANGED <<repo, commits, events, accountRoot, lastRev, started, faults>>

\* A commit that is too large, an error of the sequencer, of the index or of the
\* blobs: ROLLBACK.
Rollback(w) ==
  /\ phase[w] \in {"formatted", "written"}
  /\ lock' = IF phase[w] = "written" THEN None ELSE lock
  /\ Retry(w)
  /\ UNCHANGED <<repo, commits, events, accountRoot, lastRev, started, faults>>

\* COMMIT itself fails.
CommitFails(w) ==
  /\ phase[w] = "sequenced"
  /\ faults < MaxFaults
  /\ faults' = faults + 1
  /\ lock' = None
  /\ Finish(w)
  /\ UNCHANGED <<repo, commits, events, accountRoot, lastRev, started>>

\* Mutant: the event is left for after the commit.
CommitFirst(w) ==
  /\ phase[w] = "written"
  /\ repo' = txn[w].store
  /\ lock' = None
  /\ phase' = [phase EXCEPT ![w] = "root"]
  /\ commits' = Append(commits, txn[w].store.rev)
  /\ UNCHANGED <<req, txn, tries, events, accountRoot, lastRev, started, faults>>

Commit(w) ==
  /\ \/ phase[w] = "sequenced"
     \/ phase[w] = "written" /\ req[w].kind = "import"
  /\ repo' = txn[w].store
  /\ lock' = None
  /\ IF req[w].kind = "import"
       THEN /\ Finish(w)
            /\ UNCHANGED commits
       ELSE /\ phase' = [phase EXCEPT ![w] = "root"]
            /\ commits' = Append(commits, txn[w].store.rev)
            /\ UNCHANGED <<req, txn, tries>>
  /\ UNCHANGED <<events, accountRoot, lastRev, started, faults>>

\* accountManager.updateRepoRoot: an upsert, whose failure is only logged.
UpdateRepoRoot(w) ==
  /\ phase[w] = "root"
  /\ \/ accountRoot' = txn[w].store.rev
     \/ UNCHANGED accountRoot
  /\ Finish(w)
  /\ UNCHANGED <<storeVars, events, lastRev, started, faults>>

\* The process dies: what was not committed is gone, the databases are not.
Crash ==
  /\ faults < MaxFaults
  /\ faults' = faults + 1
  /\ lock' = None
  /\ phase' = [w \in Writers |-> "idle"]
  /\ req' = [w \in Writers |-> None]
  /\ txn' = [w \in Writers |-> None]
  /\ tries' = [w \in Writers |-> 0]
  /\ UNCHANGED <<repo, commits, events, accountRoot, lastRev, started>>
-----------------------------------------------------------------------------
Proceed(w) ==
  \/ Refuse(w) \/ Format(w) \/ Write(w) \/ Busy(w) \/ SequenceCommit(w)
  \/ Commit(w) \/ UpdateRepoRoot(w)

Next ==
  \/ \E w \in Writers : Start(w) \/ Proceed(w) \/ Rollback(w) \/ CommitFails(w)
  \/ Crash

Spec == Init /\ [][Next]_vars
-----------------------------------------------------------------------------
Revs == 0..(MaxRequests * MaxTries)
Commits == [rev : Revs, since : Revs, prevData : Records, data : Records,
            ops : Seq([key : Rkeys, cid : Cids \cup {Gone}, prev : Cids \cup {Gone}])]
Stores == [rev : Revs, signed : Revs, tree : Records, index : Records,
           blocks : SUBSET Cids]

\* The shape of the state; a request runs its transaction at most MaxTries times
\* (retrySqlite), and the lock of the store has a holder exactly while a
\* transaction has written to it.
TypeOK ==
  /\ repo \in Stores
  /\ phase \in [Writers -> Phases]
  /\ \A w \in Writers : phase[w] \in Holding <=> lock = w
  /\ lock \in Writers \cup {None}
  /\ tries \in [Writers -> 0..MaxTries]
  /\ accountRoot \in Revs /\ lastRev \in Revs
  /\ \A i \in DOMAIN events : events[i] \in Commits
  /\ started \in 0..MaxRequests /\ faults \in 0..MaxFaults

EventOf(rev) == {i \in DOMAIN events : events[i].rev = rev}
Committed(rev) == \E i \in DOMAIN commits : commits[i] = rev

\* A write that is committed is on the firehose, exactly once, whatever fails and
\* however often the transaction was run: the event goes out first.
Sequenced ==
  \A i \in DOMAIN commits : Cardinality(EventOf(commits[i])) = 1

\* The other way round an event may describe a commit that is not there, but only
\* while its transaction is about to commit, or if it was cut off there by a
\* crash or a failed COMMIT: no conflict, retry or refusal leaves one behind.
PhantomOnlyByFault ==
  LET phantom == {i \in DOMAIN events : ~Committed(events[i].rev)}
      pending == {w \in Writers : phase[w] = "sequenced"}
  IN Cardinality(phantom) <= faults + Cardinality(pending)

\* A commit takes no block that a record still has, if the commit does not name the
\* record, or no path that it changes had the same contents: where records share
\* contents and one of them goes, the block stays for the others
\* (getDuplicateRecordCids).  That query leaves out the paths the commit updates or
\* deletes and cannot know those it creates, so one that it names, and leaves with
\* contents it takes away elsewhere, may lose its block; so may importRepo.
BlocksKept ==
  [][\A w \in Writers : Commit(w) /\ req[w].kind # "import" =>
       \A k \in Rkeys :
         \/ repo'.index[k] \in repo'.blocks \cup {Gone}
         \/ repo'.index[k] = repo.index[k] /\ repo.index[k] \notin repo.blocks
         \/ /\ \E i \in DOMAIN txn[w].event.ops : txn[w].event.ops[i].key = k
            /\ repo'.index[k] \in Replaced(repo.tree, repo'.tree)]_vars

\* Not so (see README): that a commit leaves every record its block, the ones it
\* names included (formatCommit: blocks referenced by another record are kept).
AllBlocksKept ==
  [][\A w \in Writers :
       Commit(w) /\ req[w].kind # "import" /\ Contents(repo.index) \subseteq repo.blocks
         => Contents(repo'.index) \subseteq repo'.blocks]_vars

\* A swapCommit or swapRecord still holds when the write it guards is committed,
\* not only when it was compared.
SwapHonoured ==
  [][\A w \in Writers : Commit(w) => ~SwapFails(req[w])]_vars

\* Requests that race to create a like of one post leave one like
\* (getBacklinkConflicts), the last.
OneRecordPerSubject ==
  [][\A w \in Writers :
       Commit(w) /\ req[w].kind = "create" /\ req[w].validate =>
         \A k \in Rkeys \ {req[w].key} :
           repo'.index[k] = Gone \/ Subject[repo'.index[k]] # Subject[req[w].cid]]_vars

\* The events of committed writes, in the order of the firehose.
CommittedEvents ==
  LET seen == {i \in DOMAIN events : Committed(events[i].rev)}
      nth(n) == CHOOSE i \in seen : Cardinality({j \in seen : j <= i}) = n
  IN [n \in 1..Cardinality(seen) |-> events[nth(n)]]

\* Committed writes are as if they had run one after the other, and the events of
\* them, in the order of the firehose, are their log; the table of records, which
\* getRecord answers from, has what the signed tree has, after an import too.
Serial == INSTANCE SerialRepo WITH
  tree <- repo.tree, index <- repo.index, rev <- repo.rev, head <- repo.signed,
  feed <- CommittedEvents
IsSerial == Serial!Spec
=============================================================================
