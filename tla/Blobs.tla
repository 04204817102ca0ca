------------------------------- MODULE Blobs -------------------------------
(***************************************************************************)
(* The blobs of one account: what uploadBlob, the repository writes,       *)
(* importRepo and the blob takedowns of updateSubjectStatus do to the      *)
(* tables blob and record_blob (actor-store/blob/transactor.ts) and to the *)
(* files of the disk blob store (disk-blobstore.ts), which follow no       *)
(* transaction, and the deletions left to the background queue             *)
(* (background.ts) when a transaction has committed.                       *)
(*                                                                         *)
(* A transaction that touches files holds the write lock of the actor      *)
(* store by then, so at most one runs (RepoWrite models how they contend); *)
(* the files are worked on by as many jobs as there are references.        *)
(***************************************************************************)
EXTENDS Integers, Sequences, FiniteSets, SequencesExt

CONSTANTS
  Cids,        \* the contents of blobs
  Uris,        \* the records of the repository
  Keys,        \* names of temporary files, one for each upload
  MaxRefs,     \* bound of the model on the blobs of a record
  MaxBatch,    \* bound of the model on the writes of a commit (200 in the code)
  MaxEvents,   \* bound of the model on commits, imports, takedowns and faults
  Kinds,       \* the requests to consider, of those in AllKinds
  Gone,        \* no record
  None         \* no row, no key, no file, no transaction

\* "twice": commits that write one record more than once.
AllKinds == {"write", "twice", "import", "takedown", "fault"}

ASSUME BlobAssumption ==
  /\ MaxRefs \in Nat /\ MaxBatch \in Nat /\ MaxEvents \in Nat
  /\ Kinds \subseteq AllKinds

Row == [temp : Keys \cup {None}, taken : BOOLEAN]
Transactions ==
  [no : Nat, todo : SUBSET ((Uris \cup {None}) \X Cids), hook : SUBSET Cids,
   move : [cid : Cids, applied : BOOLEAN, done : BOOLEAN] \cup {None}]

\* What stands for nothing is none of the things it stands for.
ASSUME NoneAssumption ==
  /\ None \notin Keys \cup Uris \cup Cids \cup Row \cup {"torn", "whole"}
  /\ None \notin [cid : Cids, applied : BOOLEAN, done : BOOLEAN] \cup Transactions
  /\ \A cs \in SUBSET Cids : cs # Gone

VARIABLES
  db,       \* the committed tables: blob, record_blob, and the blobs of records
  work,     \* the tables as the running transaction sees them
  txn,      \* the running transaction, or None
  jobs,     \* calls of makePermanent that have not returned
  content,  \* content[k]: what was uploaded as k
  staged,   \* uploads on disk whose transaction has not run
  tmp,      \* the temporary files
  disk,     \* disk[c]: the stored file of c
  jail,     \* jail[c]: the quarantined file of c
  pending,  \* pending[c]: deletions of c in the background queue
  banned,   \* history: the blobs the moderator has taken down last
  spoiled,  \* history: blobs uploaded again before their deletion was done, moved
            \* by a takedown or its end while a job wrote them, or whose write broke off
  stray,    \* history: blobs whose file a takedown, or its lifting, moved that failed
            \* or was cut off then, or a left-over job wrote when they were taken down
  forgotten, \* history: blobs with a file that no deletion is queued for, or whose
            \* deletion failed or was lost in a crash
  events,   \* the number of requests and faults so far
  runs      \* the number of transactions begun so far

files == <<tmp, disk, jail>>
history == <<banned, spoiled, stray, forgotten>>
vars == <<db, work, txn, jobs, content, staged, files, pending, history, events, runs>>

Tables == [blob : [Cids -> Row \cup {None}], tether : SUBSET (Uris \X Cids),
           refs : [Uris -> (SUBSET Cids) \cup {Gone}]]
FileStates == {None, "torn", "whole"}

NoFiles == [c \in Cids |-> None]
Init ==
  /\ db = [blob |-> [c \in Cids |-> None], tether |-> {}, refs |-> [u \in Uris |-> Gone]]
  /\ work = db
  /\ txn = None
  /\ jobs = {}
  /\ content = [k \in Keys |-> None]
  /\ staged = {} /\ tmp = {}
  /\ disk = NoFiles /\ jail = NoFiles
  /\ pending = [c \in Cids |-> 0]
  /\ banned = {} /\ spoiled = {} /\ stray = {} /\ forgotten = {}
  /\ events = 0 /\ runs = 0
-----------------------------------------------------------------------------
Tethered(d, c) == \E u \in Uris : <<u, c>> \in d.tether
Permanent(d, c) == d.blob[c] # None /\ d.blob[c].temp = None
Taken(d, c) == d.blob[c] # None /\ d.blob[c].taken

\* The jobs the running transaction waits for; those of a transaction that has
\* failed go on until they are done.
Live == {j \in jobs : txn # None /\ j.no = txn.no}

\* A transaction begins and changes its tables.  todo: the references it is to
\* process.  hook: the blobs to delete from disk after it has committed.
\* move: for a takedown, the blob whose file it moves, where to, and if it has.
Begin(tables, todo, hook, move) ==
  /\ txn = None
  /\ work' = tables
  /\ txn' = [no |-> runs, todo |-> todo, hook |-> hook, move |-> move]
  /\ runs' = runs + 1

Ask ==
  /\ events < MaxEvents
  /\ events' = events + 1

\* The files the transaction has moved, or stored for rows that go with it.
Moved == IF txn # None /\ txn.move # None /\ txn.move.done THEN {txn.move.cid} ELSE {}
Stored == {c \in Cids : db.blob[c] = None /\ work.blob[c] # None /\ disk[c] # None}

\* Mutant: what the transaction has written stays.
RollBackNothing ==
  /\ txn' = None
  /\ stray' = stray \cup Moved
  /\ UNCHANGED work

\* The running transaction is rolled back; its files stay as they are.
RollBack ==
  /\ txn' = None
  /\ work' = db
  /\ stray' = stray \cup Moved

Abort ==
  /\ RollBack
  /\ forgotten' = forgotten \cup Stored
-----------------------------------------------------------------------------
\* uploadBlobAndGetMetadata: the file is written before any transaction.
PutTemp(k, c) ==
  /\ content[k] = None
  /\ content' = [content EXCEPT ![k] = c]
  /\ tmp' = tmp \cup {k}
  /\ staged' = staged \cup {k}
  /\ UNCHANGED <<db, work, txn, jobs, disk, jail, pending, history, events, runs>>

\* The upsert of trackUntetheredBlob: a blob that is permanent stays so.
Track(d, c, k) ==
  CASE d.blob[c] = None    -> [d EXCEPT !.blob[c] = [temp |-> k, taken |-> FALSE]]
    [] Permanent(d, c)     -> d
    [] OTHER               -> [d EXCEPT !.blob[c].temp = k]

\* The transaction of uploadBlob.  The blob is made permanent if a record that
\* refers to it is already indexed.
Upload(k) ==
  LET c == content[k] IN
  /\ k \in staged
  /\ staged' = staged \ {k}
  /\ \/ /\ txn = None
        /\ Taken(db, c)
        /\ UNCHANGED <<work, txn, runs, spoiled>>
     \/ /\ ~Taken(db, c)
        /\ Begin(Track(db, c, k),
                 IF Tethered(db, c) THEN {<<None, c>>} ELSE {}, {}, None)
        /\ spoiled' = IF pending[c] > 0 THEN spoiled \cup {c} ELSE spoiled
  /\ UNCHANGED <<db, jobs, content, files, pending, banned, stray, forgotten, events>>
-----------------------------------------------------------------------------
Refs == {cs \in SUBSET Cids : Cardinality(cs) <= MaxRefs}

\* A write: [uri, action, refs], where refs are the blobs of the new record.
WriteOps ==
  [uri : Uris, action : {"create", "update"}, refs : Refs]
  \cup [uri : Uris, action : {"delete"}, refs : {Gone}]

\* The write of a commit that has the last word on a record.
LastWrite(ws, u) ==
  CHOOSE i \in DOMAIN ws : ws[i].uri = u /\ \A j \in DOMAIN ws : ws[j].uri = u => j <= i

\* indexWrites, one write after another.
Indexed(refs, ws) ==
  [u \in Uris |-> IF \E i \in DOMAIN ws : ws[i].uri = u THEN ws[LastWrite(ws, u)].refs ELSE refs[u]]

\* The tree of the repository takes the writes of a commit one after another.
Legal(refs, ws) ==
  \A i \in DOMAIN ws :
    (ws[i].action = "create") = (Indexed(refs, SubSeq(ws, 1, i - 1))[ws[i].uri] = Gone)

Commits ==
  {ws \in UNION {[1 .. n -> WriteOps] : n \in 1 .. MaxBatch} :
     /\ Legal(db.refs, ws)
     /\ "twice" \in Kinds \/ \A i, j \in DOMAIN ws : ws[i].uri = ws[j].uri => i = j}

Creating(ws) == {w \in ToSet(ws) : w.action # "delete"}
\* Mutant: an update leaves the rows of the record it replaces.
ReplacingDeleted(ws) == {w.uri : w \in {v \in ToSet(ws) : v.action = "delete"}}

Replacing(ws) == {w.uri : w \in {v \in ToSet(ws) : v.action # "create"}}

\* record_blob as deleteDereferencedBlobs leaves it.
TetherAfter(d, ws) == {t \in d.tether : t[1] \notin Replacing(ws)}
Freed(d, ws) == {t[2] : t \in d.tether \ TetherAfter(d, ws)}

\* Mutant: other records are not asked, only the new ones.
KeptByWrites(d, ws) == UNION {w.refs : w \in Creating(ws)}

\* cidsToKeep
Kept(d, ws) == (UNION {w.refs : w \in Creating(ws)}) \cup {t[2] : t \in TetherAfter(d, ws)}

Dereferenced(d, ws) == Freed(d, ws) \ Kept(d, ws)

\* indexWrites, and processWriteBlobs up to its tasks.
Written(d, ws) ==
  [blob   |-> [c \in Cids |-> IF c \in Dereferenced(d, ws) THEN None ELSE d.blob[c]],
   tether |-> TetherAfter(d, ws),
   refs   |-> Indexed(d.refs, ws)]

\* createRecord, putRecord, deleteRecord and applyWrites.
Write(ws) ==
  /\ Kinds \cap {"write", "twice"} # {}
  /\ Ask
  /\ Begin(Written(db, ws), UNION {{w.uri} \X w.refs : w \in Creating(ws)},
           Dereferenced(db, ws), None)
  /\ UNCHANGED <<db, jobs, content, staged, files, pending, history>>

\* importRepo changes record_blob by insertBlobs alone, and the table blob and
\* the files not at all: the blobs are to be uploaded after.
Import(refs) ==
  /\ "import" \in Kinds /\ Ask
  /\ txn = None /\ refs # db.refs
  /\ LET added == {t \in Uris \X Cids :
                     /\ refs[t[1]] \notin {Gone, db.refs[t[1]]}
                     /\ t[2] \in refs[t[1]]}
     IN db' = [db EXCEPT !.refs = refs, !.tether = @ \cup added]
  /\ work' = db'
  /\ UNCHANGED <<txn, jobs, content, staged, files, pending, history, runs>>
-----------------------------------------------------------------------------
Associated(u, c) ==
  IF u = None THEN work ELSE [work EXCEPT !.tether = @ \cup {<<u, c>>}]

Looked(u, c) ==
  /\ txn' = [txn EXCEPT !.todo = @ \ {<<u, c>>}]
  /\ jobs' = IF Permanent(work, c) THEN jobs
             ELSE jobs \cup {[no |-> txn.no, uri |-> u, cid |-> c,
                              key |-> work.blob[c].temp, at |-> "stat"]}

\* Mutant: a blob that is taken down will do.
LookAnyway(u, c) ==
  /\ txn # None /\ <<u, c>> \in txn.todo
  /\ work.blob[c] # None
  /\ work' = Associated(u, c)
  /\ Looked(u, c)
  /\ UNCHANGED <<db, content, staged, files, pending, history, events, runs>>

\* associateBlob and the look-up of verifyBlobAndMakePermanent, for one reference
\* of the transaction: the blob is permanent already, or its file is to be moved.
Look(u, c) ==
  /\ txn # None /\ <<u, c>> \in txn.todo
  /\ work.blob[c] # None /\ ~Taken(work, c)
  /\ work' = Associated(u, c)
  /\ Looked(u, c)
  /\ UNCHANGED <<db, content, staged, files, pending, history, events, runs>>

\* The blob is not there, or is taken down, or its reference gives another size
\* or type than was uploaded: the transaction fails.
LookFails(u, c) ==
  /\ txn # None /\ <<u, c>> \in txn.todo
  /\ ~Permanent(work, c) \/ Taken(work, c)
  /\ Abort
  /\ UNCHANGED <<db, jobs, content, staged, files, pending, banned, spoiled, events, runs>>

To(j, at) == jobs' = (jobs \ {j}) \cup {[j EXCEPT !.at = at]}

\* The jobs that are writing a file, which is not whole yet.
Torn(js) == {j.cid : j \in {i \in js : i.at = "writing"}}

\* A job fails, and with it the transaction if that still waits for it.
Ends(j) ==
  /\ jobs' = jobs \ {j}
  /\ IF j \in Live THEN Abort ELSE UNCHANGED <<work, txn, stray, forgotten>>

onlyJobs == <<db, work, txn, content, staged, tmp, jail, pending, history, events, runs>>

\* makePermanent: hasStored
Stat(j) ==
  /\ j \in jobs /\ j.at = "stat"
  /\ To(j, IF disk[j.cid] = None THEN "read" ELSE "remove")
  /\ UNCHANGED <<onlyJobs, disk>>

\* readFile of the temporary file, which another job may have removed.
Read(j) ==
  /\ j \in jobs /\ j.at = "read"
  /\ \/ /\ j.key \in tmp
        /\ To(j, "write")
        /\ UNCHANGED <<work, txn, stray, forgotten>>
     \/ /\ j.key \notin tmp
        /\ Ends(j)
  /\ UNCHANGED <<db, content, staged, files, pending, banned, spoiled, events, runs>>

\* Another operation of a job on its files fails; a file it writes stays as it is.
JobFails(j) ==
  /\ "fault" \in Kinds /\ Ask
  /\ j \in jobs
  /\ Ends(j)
  /\ spoiled' = spoiled \cup Torn({j})
  /\ UNCHANGED <<db, content, staged, files, pending, banned, runs>>

\* writeFile of the stored file empties it first.  A job left over from a failed
\* transaction may do so when the blob is taken down, or gone, by then.
OpenStored(j) ==
  /\ j \in jobs /\ j.at = "write"
  /\ disk' = [disk EXCEPT ![j.cid] = "torn"]
  /\ To(j, "writing")
  /\ LET late == IF j \in Live THEN {} ELSE {j.cid} IN
     /\ stray' = stray \cup {c \in late : Taken(db, c) \/ Taken(work, c)}
     /\ forgotten' = forgotten \cup {c \in late : db.blob[c] = None /\ work.blob[c] = None}
  /\ UNCHANGED <<db, work, txn, content, staged, tmp, jail, pending, banned, spoiled, events, runs>>

\* The file is complete once nobody writes it; it may have been moved or deleted.
FillStored(j) ==
  /\ j \in jobs /\ j.at = "writing"
  /\ To(j, "remove")
  /\ LET c == j.cid
         left == IF \E i \in jobs \ {j} : i.cid = c /\ i.at = "writing" THEN "torn" ELSE "whole"
     IN /\ disk' = IF disk[c] = "torn" THEN [disk EXCEPT ![c] = left] ELSE disk
        /\ jail' = IF disk[c] # "torn" /\ jail[c] = "torn" THEN [jail EXCEPT ![c] = left]
                   ELSE jail
  /\ UNCHANGED <<db, work, txn, content, staged, tmp, pending, history, events, runs>>

\* The temporary file is removed and, if the transaction still runs, the rows
\* that have its key become permanent.
Finish(j) ==
  /\ j \in jobs /\ j.at = "remove"
  /\ jobs' = jobs \ {j}
  /\ tmp' = tmp \ {j.key}
  /\ work' = IF j \in Live
               THEN [work EXCEPT !.blob = [c \in Cids |->
                       IF @[c] # None /\ @[c].temp = j.key THEN [@[c] EXCEPT !.temp = None]
                       ELSE @[c]]]
               ELSE work
  /\ UNCHANGED <<db, txn, content, staged, disk, jail, pending, history, events, runs>>
-----------------------------------------------------------------------------
\* updateBlobTakedownStatus: the row, if there is one, and then the file.
Takedown(c, applied) ==
  /\ "takedown" \in Kinds /\ Ask
  /\ Begin([db EXCEPT !.blob[c] = IF @ = None THEN None ELSE [@ EXCEPT !.taken = applied]],
           {}, {}, [cid |-> c, applied |-> applied, done |-> FALSE])
  /\ UNCHANGED <<db, jobs, content, staged, files, pending, history>>

Moving == txn # None /\ txn.move # None /\ ~txn.move.done

\* The lifting of a takedown puts back a file whose row has gone meanwhile.
Orphaned == {c \in {txn.move.cid} : ~txn.move.applied /\ jail[c] # None /\ work.blob[c] = None}

\* quarantine and unquarantine rename the file; that there is none is no error.
Move ==
  /\ Moving
  /\ txn' = [txn EXCEPT !.move.done = TRUE]
  /\ LET c == txn.move.cid IN
     CASE txn.move.applied /\ disk[c] # None ->
            disk' = [disk EXCEPT ![c] = None] /\ jail' = [jail EXCEPT ![c] = disk[c]]
       [] ~txn.move.applied /\ jail[c] # None ->
            jail' = [jail EXCEPT ![c] = None] /\ disk' = [disk EXCEPT ![c] = jail[c]]
       [] OTHER -> UNCHANGED <<disk, jail>>
  /\ spoiled' = spoiled \cup {c \in {txn.move.cid} : disk[c] = "torn"}
  /\ forgotten' = forgotten \cup Orphaned
  /\ UNCHANGED <<db, work, jobs, content, staged, tmp, pending, banned, stray, events, runs>>

Ready == txn # None /\ txn.todo = {} /\ Live = {} /\ ~Moving

BannedAfter ==
  CASE txn.move = None                      -> banned
    [] txn.move # None /\ ~txn.move.applied -> banned \ {txn.move.cid}
    [] OTHER -> banned \cup {c \in {txn.move.cid} : work.blob[c] # None}

\* Mutant: the hook is not called.
CommitUnhooked ==
  /\ Ready
  /\ db' = work
  /\ txn' = None
  /\ banned' = BannedAfter
  /\ UNCHANGED <<work, jobs, content, staged, files, pending, spoiled, stray, forgotten, events, runs>>

\* COMMIT, and the hook that leaves the deletions to the background queue.
Commit ==
  /\ Ready
  /\ db' = work
  /\ txn' = None
  /\ pending' = [c \in Cids |-> IF c \in txn.hook THEN pending[c] + 1 ELSE pending[c]]
  /\ banned' = BannedAfter
  /\ UNCHANGED <<work, jobs, content, staged, files, spoiled, stray, forgotten, events, runs>>

\* Mutant: the deletions are left to the queue even if the transaction fails.
FailDeleting ==
  /\ txn # None /\ "fault" \in Kinds /\ Ask
  /\ Abort
  /\ pending' = [c \in Cids |-> IF c \in txn.hook THEN pending[c] + 1 ELSE pending[c]]
  /\ UNCHANGED <<db, jobs, content, staged, files, banned, spoiled, runs>>

\* The transaction fails otherwise: the rename of a takedown or the firehose does, or
\* its time is over.
Fail ==
  /\ txn # None /\ "fault" \in Kinds /\ Ask
  /\ Abort
  /\ UNCHANGED <<db, jobs, content, staged, files, pending, banned, spoiled, runs>>

\* The process ends and starts again: what is in memory is lost.
Crash ==
  /\ "fault" \in Kinds /\ Ask
  /\ RollBack
  /\ jobs' = {} /\ staged' = {}
  /\ pending' = [c \in Cids |-> 0]
  /\ spoiled' = spoiled \cup Torn(jobs)
  /\ forgotten' = forgotten \cup Stored \cup {c \in Cids : pending[c] > 0}
  /\ UNCHANGED <<db, content, files, banned, runs>>

\* A deletion of the background queue.
Unlink(c) ==
  /\ pending[c] > 0
  /\ pending' = [pending EXCEPT ![c] = @ - 1]
  /\ disk' = [disk EXCEPT ![c] = None]
  /\ UNCHANGED <<db, work, txn, jobs, content, staged, tmp, jail, history, events, runs>>

\* One that fails is logged and not tried again.
UnlinkFails(c) ==
  /\ "fault" \in Kinds /\ Ask
  /\ pending[c] > 0
  /\ pending' = [pending EXCEPT ![c] = @ - 1]
  /\ forgotten' = forgotten \cup {c}
  /\ UNCHANGED <<db, work, txn, jobs, content, staged, files, banned, spoiled, stray, runs>>
-----------------------------------------------------------------------------
Requested ==
  \/ \E k \in Keys, c \in Cids : PutTemp(k, c)
  \/ txn = None /\ events < MaxEvents /\ \E ws \in Commits : Write(ws)
  \/ txn = None /\ \E refs \in [Uris -> Refs \cup {Gone}] : Import(refs)
  \/ \E c \in Cids, applied \in BOOLEAN : Takedown(c, applied)

Work ==
  \/ \E k \in Keys : Upload(k)
  \/ \E u \in Uris \cup {None}, c \in Cids : Look(u, c) \/ LookFails(u, c)
  \/ \E j \in jobs : Stat(j) \/ Read(j) \/ OpenStored(j) \/ FillStored(j) \/ Finish(j)
  \/ Move
  \/ Commit

Faults ==
  \/ Fail
  \/ Crash
  \/ \E j \in jobs : JobFails(j)
  \/ \E c \in Cids : UnlinkFails(c)

Next == Requested \/ Work \/ (\E c \in Cids : Unlink(c)) \/ Faults

Spec == Init /\ [][Next]_vars

\* Requests and queued deletions are carried on with.
FairSpec == Spec /\ WF_vars(Work) /\ WF_vars(\E c \in Cids : Unlink(c))
-----------------------------------------------------------------------------
Jobs == [no : Nat, uri : Uris \cup {None}, cid : Cids, key : Keys,
         at : {"stat", "read", "write", "writing", "remove"}]

\* Types of the variables; without a transaction there is one view of the tables.
TypeOK ==
  /\ db \in Tables /\ work \in Tables
  /\ txn \in Transactions \cup {None}
  /\ txn = None => work = db
  /\ jobs \subseteq Jobs
  /\ content \in [Keys -> Cids \cup {None}]
  /\ staged \subseteq Keys /\ tmp \subseteq Keys
  /\ disk \in [Cids -> FileStates] /\ jail \in [Cids -> FileStates]
  /\ pending \in [Cids -> Nat]
  /\ banned \subseteq Cids /\ spoiled \subseteq Cids
  /\ stray \subseteq Cids /\ forgotten \subseteq Cids
  /\ events \in 0 .. MaxEvents /\ runs \in Nat

BeingWritten(c) == \E j \in jobs : j.cid = c /\ j.at = "writing"

\* No bytes are lost: what a row stands for is complete in a file, or being written,
\* whichever records go, whichever transactions have moved it and failed, and whether
\* it is taken down or not.  And the file of a blob that is permanent and not taken
\* down is where it is served from.  Excepted are, from both (spoiled): blobs that were
\* uploaded again while a deletion of them was in the background queue; that a takedown
\* or its lifting moved while a left-over job wrote them; whose writeFile failed or was
\* cut off by a crash.  From the second also (stray): blobs whose takedown, or its
\* lifting, failed or was cut off by a crash after it had moved the file.
BytesKept ==
  \A c \in Cids \ spoiled : db.blob[c] # None =>
    /\ \/ "whole" \in {disk[c], jail[c]} \/ BeingWritten(c)
       \/ db.blob[c].temp \in tmp
    /\ Permanent(db, c) /\ c \notin stray =>
         Taken(db, c) \/ Taken(work, c) \/ disk[c] = "whole" \/ BeingWritten(c)

\* A blob is permanent once a commit has made a record refer to it, and stays so
\* for as long as one does: no commit goes through without, and none of another
\* record takes it away.  Imports do not ask for their blobs.
TetheredPermanent ==
  [][\A t \in db'.tether :
       (txn # None /\ t \notin db.tether) \/ Permanent(db, t[2]) => Permanent(db', t[2])]_vars

\* "after being referenced, the file is moved to permanent storage": no blob of a
\* record is left under a temporary key.
MovedOnceReferenced ==
  \A t \in db.tether : db.blob[t[2]] # None => Permanent(db, t[2])

\* record_blob says which blobs the records refer to, no more and no less, and every
\* commit leaves it so: a blob is kept for as long as a record needs it and goes with
\* the last that does.  Imports only ever add to it.
Exact(d) == d.tether = {t \in Uris \X Cids : d.refs[t[1]] # Gone /\ t[2] \in d.refs[t[1]]}
TetherExact == [][txn # None /\ Exact(db) => Exact(db')]_vars

\* "removes blob from the store": the file of a blob that is taken down is not there
\* to be served, for as long as its row is there to say so.  Excepted (stray) are blobs
\* whose takedown, or its lifting, failed or was cut off by a crash after it had moved
\* the file, and those that a job of a failed transaction has written when they were
\* taken down.
TakenIsAway ==
  \A c \in Cids :
    Taken(db, c) /\ Taken(work, c) => disk[c] = None \/ c \in stray

\* The file of a blob that no record refers to any more is deleted in the end, or
\* needed again.  Excepted (forgotten) are blobs with a deletion that failed, or that a
\* crash took from the queue, and those with a file that no deletion is queued for: put
\* back by the lifting of a takedown after their record had gone, written by a job of a
\* failed transaction when they were gone, or stored for an upload that was rolled back.
Collected ==
  \A c \in Cids :
    disk[c] # None /\ db.blob[c] = None
      ~> disk[c] = None \/ db.blob[c] # None \/ c \in forgotten

\* getBlob
Served(c) == db.blob[c] # None /\ ~Taken(db, c) /\ disk[c] # None

\* "prevents blob from being reuploaded", "prevents image blob from being served":
\* until the takedown is lifted.
TakedownHolds == \A c \in banned \ Moved : ~Served(c)

\* "can fetch the file after being referenced"
CanFetch == \A c \in Cids : Permanent(db, c) /\ ~Taken(db, c) => disk[c] # None

\* "does not make a blob permanent if referencing failed": nothing is stored for a
\* blob that is not permanent when no commit runs.
NotStoredIfFailed ==
  txn = None => \A c \in Cids :
    db.blob[c] # None /\ ~Permanent(db, c) => disk[c] = None
=============================================================================
