---------------------------- MODULE BlobsProofs ----------------------------
(***************************************************************************)
(* Proofs about Blobs, for any contents, records, uploads and references,  *)
(* any number of jobs at work and any number of failures and restarts.     *)
(***************************************************************************)
EXTENDS Blobs, WellFoundedInduction, SequenceTheorems, TLAPS

RefSets == (SUBSET Cids) \cup {Gone}
-----------------------------------------------------------------------------
(***************************************************************************)
(* What the requests do to the tables.                                     *)
(***************************************************************************)
LEMMA RowTypes ==
  ASSUME NEW d \in Tables, NEW c \in Cids
  PROVE  /\ d.blob[c] \in Row \cup {None}
         /\ d.blob[c] # None => d.blob[c].temp \in Keys \cup {None} /\ d.blob[c].taken \in BOOLEAN
<1>1. d.blob[c] \in Row \cup {None}
  BY DEF Tables
<1> QED BY <1>1 DEF Row

LEMMA TrackIs ==
  ASSUME NEW d \in Tables, NEW c \in Cids, NEW k \in Keys, ~Taken(d, c), NEW t, t = Track(d, c, k)
  PROVE  /\ t \in Tables /\ t.tether = d.tether /\ t.refs = d.refs
         /\ \A b \in Cids \ {c} : t.blob[b] = d.blob[b]
         /\ t.blob[c] # None /\ ~t.blob[c].taken
         /\ Permanent(d, c) => t = d
         /\ ~Permanent(d, c) => t.blob[c] = [temp |-> k, taken |-> FALSE]
<1> DEFINE row == [temp |-> k, taken |-> FALSE]
<1>1. row \in Row /\ row # None /\ ~row.taken
  <2>1. row \in Row /\ ~row.taken
    BY DEF Row
  <2>2. None \notin Row
    BY NoneAssumption
  <2> QED BY <2>1, <2>2
<1>2. d.blob[c] \in Row \cup {None} /\ (d.blob[c] # None => d.blob[c].taken = FALSE)
  BY RowTypes DEF Taken
<1>3. CASE Permanent(d, c)
  <2>1. t = d
    BY <1>3 DEF Track, Permanent
  <2> QED BY <1>2, <1>3, <2>1 DEF Permanent
<1>4. CASE ~Permanent(d, c)
  <2>2. t = [d EXCEPT !.blob = [d.blob EXCEPT ![c] = row]]
    <3>1. CASE d.blob[c] = None
      BY <1>4, <3>1 DEF Track
    <3>2. CASE d.blob[c] # None
      <4>1. t = [d EXCEPT !.blob = [d.blob EXCEPT ![c] = [d.blob[c] EXCEPT !.temp = k]]]
        BY <1>4, <3>2 DEF Track
      <4>2. [d.blob[c] EXCEPT !.temp = k] = row
        <5>1. d.blob[c] = [temp |-> d.blob[c].temp, taken |-> d.blob[c].taken]
          BY <1>2, <3>2 DEF Row
        <5>2. [d.blob[c] EXCEPT !.temp = k] = [temp |-> k, taken |-> d.blob[c].taken]
          BY <5>1
        <5> QED BY <1>2, <3>2, <5>2
      <4> HIDE DEF row
      <4> QED BY <4>1, <4>2
    <3> QED BY <3>1, <3>2
  <2> HIDE DEF row
  <2>3. d.blob \in [Cids -> Row \cup {None}]
    BY DEF Tables
  <2>4. [d.blob EXCEPT ![c] = row] \in [Cids -> Row \cup {None}]
    BY <1>1, <2>3
  <2>5. t \in Tables /\ t.tether = d.tether /\ t.refs = d.refs /\ t.blob = [d.blob EXCEPT ![c] = row]
    BY <2>2, <2>4 DEF Tables
  <2> QED BY <1>1, <1>4, <2>3, <2>5 DEF row
<1> QED BY <1>3, <1>4

LEMMA Least ==
  ASSUME NEW S \in SUBSET Nat, S # {}
  PROVE  \E x \in S : \A y \in S : x <= y
<1> DEFINE R == OpToRel(<, Nat)
<1>1. IsWellFoundedOn(R, Nat)
  BY NatLessThanWellFounded
<1>2. \A x, y \in Nat : <<y, x>> \in R <=> y < x
  BY DEF OpToRel
<1> HIDE DEF R
<1>3. PICK x \in S : \A y \in S : <<y, x>> \notin R
  BY <1>1, WFMin
<1>4. ASSUME NEW y \in S PROVE x <= y
  <2>1. x \in Nat /\ y \in Nat
    OBVIOUS
  <2>2. ~(y < x)
    BY <1>2, <1>3, <2>1
  <2> QED BY <2>1, <2>2
<1> QED BY <1>4

LEMMA Greatest ==
  ASSUME NEW n \in Nat, NEW S \in SUBSET (1..n), S # {}
  PROVE  \E x \in S : \A y \in S : y <= x
<1> DEFINE D == {n - y : y \in S}
<1>1. D \subseteq Nat /\ D # {}
  <2>1. \A y \in S : n - y \in Nat
    OBVIOUS
  <2> QED BY <2>1
<1>2. PICK z \in D : \A w \in D : z <= w
  BY <1>1, Least
<1>3. PICK x \in S : z = n - x
  OBVIOUS
<1>4. ASSUME NEW y \in S PROVE y <= x
  <2>1. n - x <= n - y
    BY <1>2, <1>3
  <2>2. x \in Nat /\ y \in Nat
    OBVIOUS
  <2> QED BY <2>1, <2>2
<1> QED BY <1>4

LEMMA CommitIs ==
  ASSUME NEW ws \in Commits
  PROVE  /\ \E n \in Nat : ws \in [1..n -> WriteOps]
         /\ \A i \in DOMAIN ws : /\ ws[i].uri \in Uris /\ ws[i].refs \in RefSets
                                 /\ ws[i].action # "delete" => ws[i].refs \in SUBSET Cids /\ ws[i].refs # Gone
                                 /\ ws[i].action = "delete" => ws[i].refs = Gone
<1>1. PICK n \in 1..MaxBatch : ws \in [1..n -> WriteOps]
  BY DEF Commits
<1>2. n \in Nat
  BY BlobAssumption
<1>3. ASSUME NEW w \in WriteOps
      PROVE  /\ w.uri \in Uris /\ w.refs \in RefSets
             /\ w.action # "delete" => w.refs \in SUBSET Cids /\ w.refs # Gone
             /\ w.action = "delete" => w.refs = Gone
  <2>1. \A cs \in Refs : cs \in SUBSET Cids /\ cs # Gone
    BY NoneAssumption DEF Refs
  <2>2. CASE w \in [uri : Uris, action : {"create", "update"}, refs : Refs]
    BY <2>1, <2>2 DEF RefSets
  <2>3. CASE w \in [uri : Uris, action : {"delete"}, refs : {Gone}]
    BY <2>3 DEF RefSets
  <2> QED BY <2>2, <2>3 DEF WriteOps
<1>4. \A i \in DOMAIN ws : ws[i] \in WriteOps
  BY <1>1
<1> QED BY <1>1, <1>2, <1>3, <1>4

LEMMA LastWriteIs ==
  ASSUME NEW ws \in Commits, NEW u, \E i \in DOMAIN ws : ws[i].uri = u
  PROVE  LastWrite(ws, u) \in DOMAIN ws /\ ws[LastWrite(ws, u)].uri = u
<1> DEFINE S == {i \in DOMAIN ws : ws[i].uri = u}
<1>1. PICK n \in Nat : ws \in [1..n -> WriteOps]
  BY CommitIs
<1>2. S \in SUBSET (1..n) /\ S # {}
  BY <1>1
<1>3. \E i \in S : \A j \in S : j <= i
  BY <1>2, Greatest
<1>4. \E i \in DOMAIN ws : ws[i].uri = u /\ \A j \in DOMAIN ws : ws[j].uri = u => j <= i
  BY <1>3
<1> QED BY <1>4 DEF LastWrite

LEMMA WrittenIs ==
  ASSUME NEW d \in Tables, NEW ws \in Commits, NEW t, t = Written(d, ws)
  PROVE  /\ t \in Tables /\ t.tether \subseteq d.tether
         /\ \A c \in Cids : t.blob[c] = IF c \in Dereferenced(d, ws) THEN None ELSE d.blob[c]
         /\ \A p \in t.tether : p[2] \notin Dereferenced(d, ws)
         /\ Dereferenced(d, ws) \subseteq Cids
<1>1. /\ t.blob = [c \in Cids |-> IF c \in Dereferenced(d, ws) THEN None ELSE d.blob[c]]
      /\ t.tether = TetherAfter(d, ws) /\ t.refs = Indexed(d.refs, ws)
      /\ t = [blob |-> t.blob, tether |-> t.tether, refs |-> t.refs]
  BY DEF Written
<1>2. d.tether \subseteq Uris \X Cids /\ d.refs \in [Uris -> RefSets]
  BY DEF Tables, RefSets
<1>3. t.blob \in [Cids -> Row \cup {None}]
  BY <1>1, RowTypes
<1>4. t.refs \in [Uris -> RefSets]
  <2>1. ASSUME NEW u \in Uris
        PROVE (IF \E i \in DOMAIN ws : ws[i].uri = u THEN ws[LastWrite(ws, u)].refs ELSE d.refs[u]) \in RefSets
    BY <1>2, LastWriteIs, CommitIs
  <2> QED BY <1>1, <2>1 DEF Indexed
<1>5. t.tether \subseteq d.tether
  BY <1>1 DEF TetherAfter
<1>6. t \in Tables
  BY <1>1, <1>2, <1>3, <1>4, <1>5 DEF Tables, RefSets
<1>7. Dereferenced(d, ws) \subseteq Cids
  BY <1>2 DEF Dereferenced, Freed
<1>8. \A p \in t.tether : p[2] \notin Dereferenced(d, ws)
  BY <1>1 DEF Dereferenced, Kept
<1> QED BY <1>1, <1>5, <1>6, <1>7, <1>8

\* A commit that names a record once leaves references to process that make the
\* table what the records say.
LEMMA WrittenExact ==
  ASSUME NEW d \in Tables, Exact(d), NEW ws \in Commits, Legal(d.refs, ws),
         \A i, j \in DOMAIN ws : ws[i].uri = ws[j].uri => i = j,
         NEW t, t = Written(d, ws)
  PROVE  t.tether \cup UNION {{w.uri} \X w.refs : w \in Creating(ws)} =
           {p \in Uris \X Cids : t.refs[p[1]] # Gone /\ p[2] \in t.refs[p[1]]}
<1> DEFINE todo == UNION {{w.uri} \X w.refs : w \in Creating(ws)}
<1>1. t.tether = TetherAfter(d, ws) /\ t.refs = Indexed(d.refs, ws)
  BY DEF Written
<1>2. PICK n \in Nat : ws \in [1..n -> WriteOps]
  BY CommitIs
<1>3. \A p : p \in todo <=> \E i \in DOMAIN ws : ws[i].action # "delete" /\ p \in {ws[i].uri} \X ws[i].refs
  BY DEF Creating, ToSet
<1>4. \A u : u \in Replacing(ws) <=> \E i \in DOMAIN ws : ws[i].action # "create" /\ ws[i].uri = u
  BY DEF Replacing, ToSet
<1>5. ASSUME NEW u \in Uris, NEW c \in Cids
      PROVE  <<u, c>> \in t.tether \cup todo <=> t.refs[u] # Gone /\ c \in t.refs[u]
  <2> DEFINE p == <<u, c>>
  <2>1. p \in d.tether <=> d.refs[u] # Gone /\ c \in d.refs[u]
    BY DEF Exact
  <2>2. p \in t.tether <=> p \in d.tether /\ u \notin Replacing(ws)
    BY <1>1 DEF TetherAfter
  <2>3. CASE \A i \in DOMAIN ws : ws[i].uri # u
    <3>1. t.refs[u] = d.refs[u]
      BY <1>1, <2>3 DEF Indexed
    <3>2. u \notin Replacing(ws) /\ p \notin todo
      BY <1>3, <1>4, <2>3
    <3> QED BY <2>1, <2>2, <3>1, <3>2
  <2>4. ASSUME NEW i \in DOMAIN ws, ws[i].uri = u
        PROVE  p \in t.tether \cup todo <=> t.refs[u] # Gone /\ c \in t.refs[u]
    <3>1. LastWrite(ws, u) = i
      BY <2>4, LastWriteIs
    <3>2. t.refs[u] = ws[i].refs
      BY <1>1, <2>4, <3>1 DEF Indexed
    <3>3. p \in todo <=> ws[i].action # "delete" /\ c \in ws[i].refs
      BY <1>3, <2>4
    <3>4. u \in Replacing(ws) <=> ws[i].action # "create"
      BY <1>4, <2>4
    <3>5. /\ ws[i].action # "delete" => ws[i].refs # Gone
          /\ ws[i].action = "delete" => ws[i].refs = Gone
      BY CommitIs
    <3>6. ASSUME ws[i].action = "create" PROVE d.refs[u] = Gone
      <4> DEFINE before == SubSeq(ws, 1, i - 1)
      <4>1. i \in 1..n /\ ws \in Seq(WriteOps) /\ Len(ws) = n
        BY <1>2
      <4>2. DOMAIN before = 1..(i - 1) /\ \A j \in 1..(i - 1) : before[j] = ws[j]
        BY <4>1
      <4>3. \A j \in DOMAIN before : before[j].uri # u
        BY <1>2, <2>4, <4>1, <4>2
      <4>4. Indexed(d.refs, before)[u] = d.refs[u]
        BY <4>3 DEF Indexed
      <4>5. Indexed(d.refs, before)[u] = Gone
        BY <2>4, <3>6 DEF Legal
      <4> QED BY <4>4, <4>5
    <3>7. ws[i].action = "create" => p \notin t.tether
      BY <2>1, <2>2, <3>6
    <3>8. ws[i].action # "create" => p \notin t.tether
      BY <2>2, <3>4
    <3> QED BY <3>2, <3>3, <3>5, <3>7, <3>8
  <2> QED BY <2>3, <2>4
<1>6. t.tether \cup todo \subseteq Uris \X Cids
  <2>1. t.tether \subseteq Uris \X Cids
    BY <1>1 DEF TetherAfter, Tables
  <2>2. todo \subseteq Uris \X Cids
    BY <1>3, CommitIs
  <2> QED BY <2>1, <2>2
<1> HIDE DEF todo
<1>7. t.tether \cup todo = {p \in Uris \X Cids : t.refs[p[1]] # Gone /\ p[2] \in t.refs[p[1]]}
  BY <1>5, <1>6
<1> QED BY <1>7 DEF todo
-----------------------------------------------------------------------------
(***************************************************************************)
(* Where the bytes of a blob are: somewhere, as long as it has a row, with *)
(* no deletion of the queue and no torn file in the way.                   *)
(***************************************************************************)
Somewhere(stored, jailed) == stored = "torn" \/ stored = "whole" \/ jailed = "whole"
Held(row, stored, jailed, temps) ==
  row # None => Somewhere(stored, jailed) \/ row.temp \in temps
Bytes ==
  \A c \in Cids \ spoiled :
    /\ Held(db.blob[c], disk[c], jail[c], tmp)
    /\ Held(work.blob[c], disk[c], jail[c], tmp)
    /\ disk[c] = "torn" => BeingWritten(c)
    /\ jail[c] # "torn"
    /\ pending[c] > 0 => db.blob[c] = None /\ work.blob[c] = None

\* A file is where the row says that it is: the row of the running transaction, once
\* that has moved the file, and until then the committed one.
Placed(row, stored, sound) ==
  row # None =>
    /\ row.taken => stored = None
    /\ sound /\ row.temp = None /\ ~row.taken => stored # None

ToMove == IF txn # None /\ txn.move # None /\ ~txn.move.done THEN {txn.move.cid} ELSE {}

Places ==
  \A c \in Cids \ stray :
    /\ c \notin Moved => Placed(db.blob[c], disk[c], c \notin spoiled)
    /\ c \notin ToMove => Placed(work.blob[c], disk[c], c \notin spoiled)

\* What a job has written, or found, lets it remove the temporary file.
Keyed(d, j) == d.blob[j.cid] # None /\ d.blob[j.cid].temp = j.key
Sure ==
  \A j \in jobs : j.at \in {"writing", "remove"} /\ j.cid \notin spoiled =>
    /\ Keyed(db, j) \/ Keyed(work, j) => Somewhere(disk[j.cid], jail[j.cid])
    /\ j \in Live => disk[j.cid] # None

\* A temporary key is of one content, and of an upload that is past.
NamedRows(d, of, waiting) ==
  \A c \in Cids : d.blob[c] # None /\ d.blob[c].temp # None =>
    of[d.blob[c].temp] = c /\ d.blob[c].temp \notin waiting
Names ==
  /\ NamedRows(db, content, staged) /\ NamedRows(work, content, staged)
  /\ \A j \in jobs : content[j.key] = j.cid /\ j.key \notin staged /\ j.no < runs
  /\ \A k \in staged : k \in tmp /\ content[k] # None

\* What a takedown does to the tables, and what other transactions leave alone.
TakesDown(d, w, move) ==
  /\ w.tether = d.tether /\ w.refs = d.refs
  /\ \A c \in Cids : c # move.cid => w.blob[c] = d.blob[c]
  /\ d.blob[move.cid] = None <=> w.blob[move.cid] = None
  /\ d.blob[move.cid] # None =>
       w.blob[move.cid].temp = d.blob[move.cid].temp /\ w.blob[move.cid].taken = move.applied
Follows(d, w) ==
  \A c \in Cids : d.blob[c] # None /\ w.blob[c] # None =>
    w.blob[c].taken = d.blob[c].taken /\ (Permanent(d, c) => Permanent(w, c))

\* Every reference is in record_blob, or is still to be processed.
Promised(w, todo) ==
  w.tether \cup {t \in todo : t[1] # None} =
    {t \in Uris \X Cids : w.refs[t[1]] # Gone /\ t[2] \in w.refs[t[1]]}

Running ==
  /\ txn.no < runs
  /\ txn.move # None => txn.todo = {} /\ txn.hook = {} /\ Live = {} /\ TakesDown(db, work, txn.move)
  /\ txn.move = None => Follows(db, work)
  /\ \A j \in Live : /\ work.blob[j.cid] # None /\ ~work.blob[j.cid].taken
                     /\ work.blob[j.cid].temp \in {j.key, None}
  /\ \A c \in txn.hook : work.blob[c] = None
  /\ \A t \in work.tether \ db.tether : Permanent(work, t[2]) \/ \E j \in Live : j.cid = t[2]
  /\ \A t \in work.tether : db.blob[t[2]] # None => work.blob[t[2]] # None
  /\ Exact(db) /\ "twice" \notin Kinds => Promised(work, txn.todo)

IInv == TypeOK /\ Bytes /\ Places /\ Sure /\ Names /\ (txn # None => Running)
-----------------------------------------------------------------------------
LEMMA TxnTypes ==
  ASSUME TypeOK, txn # None
  PROVE  /\ txn.no \in Nat /\ txn.todo \in SUBSET ((Uris \cup {None}) \X Cids) /\ txn.hook \in SUBSET Cids
         /\ txn.move # None => txn.move.cid \in Cids /\ txn.move.applied \in BOOLEAN /\ txn.move.done \in BOOLEAN
BY DEF TypeOK, Transactions

LEMMA JobTypes ==
  ASSUME TypeOK, NEW j \in jobs
  PROVE  /\ j \in Jobs /\ j.no \in Nat /\ j.uri \in Uris \cup {None} /\ j.cid \in Cids /\ j.key \in Keys
         /\ j.at \in {"stat", "read", "write", "writing", "remove"}
BY DEF TypeOK, Jobs

LEMMA NoneIsNoFile == None # "torn" /\ None # "whole"
BY NoneAssumption

\* However a transaction comes to its end: it leaves no trace but its file operations.
LEMMA RolledBack ==
  ASSUME IInv, RollBack,
         db' = db, content' = content, tmp' = tmp, disk' = disk, jail' = jail, runs' = runs, banned' = banned,
         jobs' \subseteq jobs, staged' \subseteq staged, events' \in 0 .. MaxEvents,
         spoiled \subseteq spoiled', spoiled' \subseteq Cids, forgotten' \subseteq Cids,
         \A j \in jobs \ jobs' : j.at = "writing" => j.cid \in spoiled',
         pending' \in [Cids -> Nat], \A c \in Cids : pending'[c] > 0 => pending[c] > 0
  PROVE  IInv'
<1>1. txn' = None /\ work' = db /\ stray' = stray \cup Moved
  BY DEF RollBack
<1>2. TypeOK'
  <2>1. Moved \subseteq Cids
    BY TxnTypes DEF Moved, IInv
  <2> QED BY <1>1, <2>1 DEF IInv, TypeOK
<1>3. Live' = {} /\ ToMove' = {} /\ Moved' = {}
  BY <1>1 DEF Live, ToMove, Moved
<1>4. Bytes'
  <2>1. ASSUME NEW c \in Cids \ spoiled'
        PROVE  /\ Held(db.blob[c], disk[c], jail[c], tmp)
               /\ disk[c] = "torn" => BeingWritten(c)'
               /\ jail[c] # "torn"
               /\ pending'[c] > 0 => db.blob[c] = None
    <3>1. c \in Cids \ spoiled
      OBVIOUS
    <3>2. BeingWritten(c) => BeingWritten(c)'
      BY <2>1 DEF BeingWritten
    <3> QED BY <3>1, <3>2 DEF IInv, Bytes
  <2> QED BY <1>1, <2>1 DEF Bytes
<1>7. Places'
  <2>1. ASSUME NEW c \in Cids \ stray' PROVE Placed(db.blob[c], disk[c], c \notin spoiled')
    BY <1>1 DEF IInv, Places, Placed
  <2> QED BY <1>1, <2>1 DEF Places
<1>5. Sure'
  <2>1. ASSUME NEW j \in jobs', j.at \in {"writing", "remove"}, j.cid \notin spoiled'
        PROVE  Keyed(db, j) => Somewhere(disk[j.cid], jail[j.cid])
    BY <2>1 DEF IInv, Sure
  <2> QED BY <1>1, <1>3, <2>1 DEF Sure
<1>6. Names'
  <2>1. NamedRows(db, content, staged')
    BY DEF IInv, Names, NamedRows
  <2> QED BY <1>1, <2>1 DEF IInv, Names
<1> QED BY <1>1, <1>2, <1>4, <1>5, <1>6, <1>7 DEF IInv

\* A transaction begins.
LEMMA Begun ==
  ASSUME IInv, NEW tables \in Tables, NEW todo \in SUBSET ((Uris \cup {None}) \X Cids),
         NEW hook \in SUBSET Cids,
         NEW move \in [cid : Cids, applied : BOOLEAN, done : BOOLEAN] \cup {None},
         Begin(tables, todo, hook, move),
         UNCHANGED <<db, jobs, content, files, pending, banned, stray, forgotten>>,
         staged' \subseteq staged, events' \in 0 .. MaxEvents,
         spoiled \subseteq spoiled', spoiled' \subseteq Cids,
         \A c \in Cids \ spoiled' :
           /\ Held(tables.blob[c], disk[c], jail[c], tmp)
           /\ pending[c] > 0 => tables.blob[c] = None,
         \A c \in Cids \ stray :
           (move # None /\ move.cid = c) \/ Placed(tables.blob[c], disk[c], c \notin spoiled'),
         NamedRows(tables, content, staged'),
         \A j \in jobs : Keyed(tables, j) => Keyed(db, j),
         move # None => ~move.done /\ todo = {} /\ hook = {} /\ TakesDown(db, tables, move),
         move = None => Follows(db, tables),
         \A c \in hook : tables.blob[c] = None,
         tables.tether \subseteq db.tether,
         \A t \in tables.tether : db.blob[t[2]] # None => tables.blob[t[2]] # None,
         Exact(db) /\ "twice" \notin Kinds => Promised(tables, todo)
  PROVE  IInv'
<1> DEFINE t == [no |-> runs, todo |-> todo, hook |-> hook, move |-> move]
<1>1. txn = None /\ work' = tables /\ txn' = t /\ runs' = runs + 1 /\ work = db
  BY DEF Begin, IInv, TypeOK
<1>2. runs \in Nat
  BY DEF IInv, TypeOK
<1>3. t \in Transactions /\ t # None
  <2>1. t \in Transactions
    BY <1>2 DEF Transactions
  <2> HIDE DEF t
  <2> QED BY <2>1, NoneAssumption
<1>4. t.no = runs /\ t.todo = todo /\ t.hook = hook /\ t.move = move
  OBVIOUS
<1> HIDE DEF t
<1>5. TypeOK'
  BY <1>1, <1>2, <1>3 DEF IInv, TypeOK, files
<1>6. Live' = {}
  <2>1. \A j \in jobs : j.no < runs /\ j.no \in Nat
    BY JobTypes DEF IInv, Names
  <2> QED BY <1>1, <1>2, <1>4, <2>1 DEF Live
<1>7. Moved = {} /\ Moved' = {}
  BY <1>1, <1>4 DEF Moved
<1>8. Bytes'
  <2>1. ASSUME NEW c \in Cids \ spoiled'
        PROVE  /\ Held(db.blob[c], disk[c], jail[c], tmp)
               /\ Held(tables.blob[c], disk[c], jail[c], tmp)
               /\ disk[c] = "torn" => BeingWritten(c)'
               /\ jail[c] # "torn"
               /\ pending[c] > 0 => db.blob[c] = None /\ tables.blob[c] = None
    <3>1. c \in Cids \ spoiled
      OBVIOUS
    <3>2. BeingWritten(c)' <=> BeingWritten(c)
      BY DEF BeingWritten
    <3> QED BY <3>1, <3>2 DEF IInv, Bytes
  <2> QED BY <1>1, <2>1 DEF Bytes, files
<1>12. Places'
  <2>1. ASSUME NEW c \in Cids \ stray
        PROVE  /\ Placed(db.blob[c], disk[c], c \notin spoiled')
               /\ c \notin ToMove' => Placed(tables.blob[c], disk[c], c \notin spoiled')
    <3>1. c \notin ToMove' => ~(move # None /\ move.cid = c)
      BY <1>1, <1>3, <1>4 DEF ToMove
    <3>2. Placed(db.blob[c], disk[c], c \notin spoiled)
      BY <1>7 DEF IInv, Places
    <3> QED BY <3>1, <3>2 DEF Placed
  <2> QED BY <1>1, <2>1 DEF Places, files
<1>9. Sure'
  <2>1. ASSUME NEW j \in jobs, j.at \in {"writing", "remove"}, j.cid \notin spoiled'
        PROVE  Keyed(db, j) \/ Keyed(tables, j) => Somewhere(disk[j.cid], jail[j.cid])
    BY <2>1 DEF IInv, Sure
  <2> QED BY <1>1, <1>6, <2>1 DEF Sure, files
<1>10. Names'
  <2>1. NamedRows(db, content, staged')
    BY DEF IInv, Names, NamedRows
  <2>2. \A j \in jobs : j.no < runs + 1
    BY <1>2, JobTypes DEF IInv, Names
  <2> QED BY <1>1, <2>1, <2>2 DEF IInv, Names, files
<1>11. Running'
  BY <1>1, <1>2, <1>4, <1>6 DEF Running
<1> QED BY <1>5, <1>8, <1>9, <1>10, <1>11, <1>12 DEF IInv
-----------------------------------------------------------------------------
(***************************************************************************)
(* The requests.                                                           *)
(***************************************************************************)
LEMMA PutTempKeeps ==
  ASSUME IInv, NEW k \in Keys, NEW c \in Cids, PutTemp(k, c)
  PROVE  IInv'
<1>1. /\ content[k] = None /\ content' = [content EXCEPT ![k] = c]
      /\ tmp' = tmp \cup {k} /\ staged' = staged \cup {k}
      /\ UNCHANGED <<db, work, txn, jobs, disk, jail, pending, history, events, runs>>
  BY DEF PutTemp
<1>2. content'[k] = c /\ \A l \in Keys \ {k} : content'[l] = content[l]
  BY <1>1 DEF IInv, TypeOK
<1>3. c # None
  BY NoneAssumption
<1>4. TypeOK'
  BY <1>1 DEF IInv, TypeOK, history
<1>5. Moved' = Moved /\ ToMove' = ToMove /\ \A b : BeingWritten(b)' <=> BeingWritten(b)
  BY <1>1 DEF Moved, ToMove, BeingWritten
<1>6. Bytes' /\ Places'
  <2>1. ASSUME NEW b \in Cids \ spoiled
        PROVE  /\ Held(db.blob[b], disk[b], jail[b], tmp')
               /\ Held(work.blob[b], disk[b], jail[b], tmp')
               /\ disk[b] = "torn" => BeingWritten(b)
               /\ jail[b] # "torn"
               /\ pending[b] > 0 => db.blob[b] = None /\ work.blob[b] = None
    BY <1>1 DEF IInv, Bytes, Held
  <2>2. Bytes'
    BY <1>1, <1>5, <2>1 DEF Bytes, history
  <2>3. Places'
    BY <1>1, <1>5 DEF IInv, Places, history
  <2> QED BY <2>2, <2>3
<1>7. Sure'
  BY <1>1 DEF IInv, Sure, Live, history
<1>8. ASSUME NEW d \in Tables, NamedRows(d, content, staged) PROVE NamedRows(d, content', staged')
  <2>1. ASSUME NEW b \in Cids, d.blob[b] # None, d.blob[b].temp # None
        PROVE  content'[d.blob[b].temp] = b /\ d.blob[b].temp \notin staged'
    <3>1. d.blob[b].temp \in Keys /\ content[d.blob[b].temp] = b /\ d.blob[b].temp \notin staged
      BY <1>8, <2>1, RowTypes DEF NamedRows
    <3>2. d.blob[b].temp # k
      BY <1>1, <3>1, NoneAssumption
    <3> QED BY <1>1, <1>2, <3>1, <3>2
  <2> QED BY <2>1 DEF NamedRows
<1>9. Names'
  <2>1. NamedRows(db, content', staged') /\ NamedRows(work, content', staged')
    BY <1>8 DEF IInv, Names, TypeOK
  <2>2. ASSUME NEW j \in jobs PROVE content'[j.key] = j.cid /\ j.key \notin staged' /\ j.no < runs
    <3>1. content[j.key] = j.cid /\ j.key \notin staged /\ j.no < runs /\ j.cid \in Cids /\ j.key \in Keys
      BY JobTypes DEF IInv, Names
    <3>2. j.key # k
      BY <1>1, <3>1, NoneAssumption
    <3> QED BY <1>1, <1>2, <3>1, <3>2
  <2>3. ASSUME NEW l \in staged' PROVE l \in tmp' /\ content'[l] # None
    <3>1. CASE l = k
      BY <1>1, <1>2, <1>3, <3>1
    <3>2. CASE l # k
      BY <1>1, <1>2, <3>2 DEF IInv, Names, TypeOK
    <3> QED BY <3>1, <3>2
  <2> QED BY <1>1, <2>1, <2>2, <2>3 DEF Names
<1>10. txn # None => Running'
  BY <1>1 DEF IInv, Running, Live
<1> QED BY <1>1, <1>4, <1>6, <1>7, <1>9, <1>10 DEF IInv

LEMMA UploadKeeps ==
  ASSUME IInv, NEW k \in Keys, Upload(k)
  PROVE  IInv'
<1> DEFINE c == content[k]
<1>1. /\ k \in staged /\ staged' = staged \ {k}
      /\ UNCHANGED <<db, jobs, content, files, pending, banned, stray, forgotten, events>>
  BY DEF Upload
<1>2. c \in Cids /\ k \in tmp
  BY <1>1 DEF IInv, Names, TypeOK
<1>3. CASE UNCHANGED <<work, txn, runs, spoiled>>
  <2>1. TypeOK'
    BY <1>1, <1>3 DEF IInv, TypeOK, files
  <2>2. Bytes' /\ Places'
    <3>1. Moved' = Moved /\ ToMove' = ToMove /\ \A b : BeingWritten(b)' <=> BeingWritten(b)
      BY <1>1, <1>3 DEF Moved, ToMove, BeingWritten
    <3> QED BY <1>1, <1>3, <3>1 DEF IInv, Bytes, Places, files
  <2>3. Sure'
    BY <1>1, <1>3 DEF IInv, Sure, Live, files
  <2>4. Names'
    <3>1. NamedRows(db, content, staged') /\ NamedRows(work, content, staged')
      BY <1>1 DEF IInv, Names, NamedRows
    <3> QED BY <1>1, <1>3, <3>1 DEF IInv, Names, files
  <2>5. txn # None => Running'
    BY <1>1, <1>3 DEF IInv, Running, Live
  <2> QED BY <1>3, <2>1, <2>2, <2>3, <2>4, <2>5 DEF IInv
<1>4. CASE ~(UNCHANGED <<work, txn, runs, spoiled>>)
  <2> DEFINE tables == Track(db, c, k)
             todo == IF Tethered(db, c) THEN {<<None, c>>} ELSE {}
  <2>1. /\ ~Taken(db, c) /\ Begin(tables, todo, {}, None)
        /\ spoiled' = IF pending[c] > 0 THEN spoiled \cup {c} ELSE spoiled
    BY <1>4 DEF Upload
  <2>2. txn = None /\ work = db /\ db \in Tables
    BY <2>1 DEF Begin, IInv, TypeOK
  <2>3. \A t : t = tables =>
          /\ t \in Tables /\ t.tether = db.tether /\ t.refs = db.refs
          /\ \A b \in Cids \ {c} : t.blob[b] = db.blob[b]
          /\ t.blob[c] # None /\ ~t.blob[c].taken
          /\ Permanent(db, c) => t = db
          /\ ~Permanent(db, c) => t.blob[c] = [temp |-> k, taken |-> FALSE]
    BY <1>2, <2>1, <2>2, TrackIs
  <2> HIDE DEF tables
  <2>4. /\ tables \in Tables /\ tables.tether = db.tether /\ tables.refs = db.refs
        /\ \A b \in Cids \ {c} : tables.blob[b] = db.blob[b]
        /\ tables.blob[c] # None /\ ~tables.blob[c].taken
        /\ Permanent(db, c) => tables = db
        /\ ~Permanent(db, c) => tables.blob[c] = [temp |-> k, taken |-> FALSE]
    BY <2>3
  <2>5. todo \in SUBSET ((Uris \cup {None}) \X Cids) /\ \A t \in todo : t = <<None, c>>
    BY <1>2
  <2>6. {} \in SUBSET Cids /\ None \in [cid : Cids, applied : BOOLEAN, done : BOOLEAN] \cup {None}
    OBVIOUS
  <2>7. staged' \subseteq staged /\ events' \in 0 .. MaxEvents /\ spoiled \subseteq spoiled' /\ spoiled' \subseteq Cids
    BY <1>1, <1>2, <2>1 DEF IInv, TypeOK
  <2>8. Moved = {}
    BY <2>2 DEF Moved
  <2>9. ASSUME NEW b \in Cids \ spoiled'
        PROVE  Held(tables.blob[b], disk[b], jail[b], tmp) /\ (pending[b] > 0 => tables.blob[b] = None)
    <3>1. Held(db.blob[b], disk[b], jail[b], tmp) /\ (pending[b] > 0 => db.blob[b] = None)
      BY <2>7 DEF IInv, Bytes
    <3>2. CASE b # c
      BY <2>4, <3>1, <3>2
    <3>3. CASE b = c
      <4>1. ~(pending[b] > 0)
        BY <2>1, <3>3
      <4>2. CASE Permanent(db, c)
        BY <2>4, <3>1, <4>1, <4>2
      <4>3. CASE ~Permanent(db, c)
        BY <1>2, <2>4, <3>3, <4>1, <4>3 DEF Held
      <4> QED BY <4>2, <4>3
    <3> QED BY <3>2, <3>3
  <2>16. ASSUME NEW b \in Cids \ stray
         PROVE  Placed(tables.blob[b], disk[b], b \notin spoiled')
    <3>1. Placed(db.blob[b], disk[b], b \notin spoiled')
      BY <2>7, <2>8 DEF IInv, Places, Placed
    <3>2. k # None
      BY NoneAssumption
    <3> QED BY <2>4, <3>1, <3>2 DEF Placed
  <2>10. NamedRows(tables, content, staged')
    <3>1. ASSUME NEW b \in Cids, tables.blob[b] # None, tables.blob[b].temp # None
          PROVE  content[tables.blob[b].temp] = b /\ tables.blob[b].temp \notin staged'
      <4>1. CASE b = c /\ ~Permanent(db, c)
        BY <1>1, <2>4, <4>1
      <4>2. CASE tables.blob[b] = db.blob[b]
        BY <1>1, <3>1, <4>2 DEF IInv, Names, NamedRows
      <4> QED BY <2>4, <4>1, <4>2
    <3> QED BY <3>1 DEF NamedRows
  <2>11. \A j \in jobs : Keyed(tables, j) => Keyed(db, j)
    <3>1. ASSUME NEW j \in jobs, Keyed(tables, j) PROVE Keyed(db, j)
      <4>1. j.key \notin staged /\ j.cid \in Cids
        BY JobTypes DEF IInv, Names
      <4>2. CASE j.cid = c /\ ~Permanent(db, c)
        BY <1>1, <2>4, <3>1, <4>1, <4>2 DEF Keyed
      <4>3. CASE tables.blob[j.cid] = db.blob[j.cid]
        BY <3>1, <4>3 DEF Keyed
      <4> QED BY <2>4, <4>1, <4>2, <4>3
    <3> QED BY <3>1
  <2>12. Follows(db, tables)
    <3>1. ASSUME NEW b \in Cids, db.blob[b] # None, tables.blob[b] # None
          PROVE  tables.blob[b].taken = db.blob[b].taken /\ (Permanent(db, b) => Permanent(tables, b))
      <4>1. CASE tables.blob[b] = db.blob[b]
        BY <4>1 DEF Permanent
      <4>2. CASE b = c /\ ~Permanent(db, c)
        <5>1. db.blob[b].taken = FALSE /\ tables.blob[b].taken = FALSE
          BY <2>1, <2>2, <2>4, <3>1, <4>2, RowTypes DEF Taken
        <5> QED BY <4>2, <5>1
      <4> QED BY <2>4, <4>1, <4>2
    <3> QED BY <3>1 DEF Follows
  <2>13. \A t \in tables.tether : db.blob[t[2]] # None => tables.blob[t[2]] # None
    <3>1. \A t \in db.tether : t[2] \in Cids
      BY <2>2 DEF Tables
    <3> QED BY <2>4, <3>1
  <2>14. Exact(db) => Promised(tables, todo)
    <3>1. {t \in todo : t[1] # None} = {}
      BY <2>5
    <3> QED BY <2>4, <3>1 DEF Exact, Promised
  <2>15. UNCHANGED <<db, jobs, content, files, pending, banned, stray, forgotten>>
    BY <1>1
  <2> HIDE DEF todo
  <2> QED BY <2>1, <2>4, <2>5, <2>6, <2>7, <2>9, <2>10, <2>11, <2>12, <2>13, <2>14, <2>15, <2>16, Begun
<1> QED BY <1>3, <1>4

LEMMA WriteKeeps ==
  ASSUME IInv, NEW ws \in Commits, Write(ws)
  PROVE  IInv'
<1> DEFINE tables == Written(db, ws)
           todo == UNION {{w.uri} \X w.refs : w \in Creating(ws)}
           hook == Dereferenced(db, ws)
<1>1. /\ Begin(tables, todo, hook, None) /\ events' = events + 1 /\ events < MaxEvents
      /\ UNCHANGED <<db, jobs, content, staged, files, pending, history>>
  BY DEF Write, Ask
<1>2. txn = None /\ db \in Tables /\ events \in 0 .. MaxEvents /\ MaxEvents \in Nat
  BY <1>1, BlobAssumption DEF Begin, IInv, TypeOK
<1>3. \A t : t = tables =>
        /\ t \in Tables /\ t.tether \subseteq db.tether
        /\ \A c \in Cids : t.blob[c] = IF c \in hook THEN None ELSE db.blob[c]
        /\ \A p \in t.tether : p[2] \notin hook
        /\ hook \subseteq Cids
  BY <1>2, WrittenIs
<1>4. todo \in SUBSET ((Uris \cup {None}) \X Cids) /\ \A t \in todo : t[1] # None
  <2>1. ASSUME NEW t \in todo PROVE t \in Uris \X Cids
    <3>1. PICK i \in DOMAIN ws : ws[i].action # "delete" /\ t \in {ws[i].uri} \X ws[i].refs
      BY DEF Creating, ToSet
    <3> QED BY <3>1, CommitIs
  <2> QED BY <2>1, NoneAssumption
<1>5. Exact(db) /\ "twice" \notin Kinds => Promised(tables, todo)
  <2>1. SUFFICES ASSUME Exact(db), "twice" \notin Kinds PROVE Promised(tables, todo)
    OBVIOUS
  <2>2. Legal(db.refs, ws) /\ \A i, j \in DOMAIN ws : ws[i].uri = ws[j].uri => i = j
    BY <2>1 DEF Commits
  <2>3. {t \in todo : t[1] # None} = todo
    BY <1>4
  <2>4. \A t : t = tables =>
          t.tether \cup todo = {p \in Uris \X Cids : t.refs[p[1]] # Gone /\ p[2] \in t.refs[p[1]]}
    BY <1>2, <2>1, <2>2, WrittenExact
  <2> HIDE DEF tables, todo
  <2> QED BY <2>3, <2>4 DEF Promised
<1> HIDE DEF tables, todo, hook
<1>6. /\ tables \in Tables /\ tables.tether \subseteq db.tether
      /\ \A c \in Cids : tables.blob[c] = IF c \in hook THEN None ELSE db.blob[c]
      /\ \A p \in tables.tether : p[2] \notin hook
      /\ hook \in SUBSET Cids
  BY <1>3
<1>7. None \in [cid : Cids, applied : BOOLEAN, done : BOOLEAN] \cup {None}
  OBVIOUS
<1>8. staged' \subseteq staged /\ events' \in 0 .. MaxEvents /\ spoiled' = spoiled /\ spoiled' \subseteq Cids
      /\ UNCHANGED <<db, jobs, content, files, pending, banned, stray, forgotten>>
  BY <1>1, <1>2 DEF IInv, TypeOK, history
<1>9. Moved = {}
  BY <1>2 DEF Moved
<1>10. ASSUME NEW c \in Cids \ spoiled'
       PROVE  Held(tables.blob[c], disk[c], jail[c], tmp) /\ (pending[c] > 0 => tables.blob[c] = None)
  <2>1. Held(db.blob[c], disk[c], jail[c], tmp) /\ (pending[c] > 0 => db.blob[c] = None)
    BY <1>8 DEF IInv, Bytes
  <2> QED BY <1>6, <2>1 DEF Held
<1>16. ASSUME NEW c \in Cids \ stray
       PROVE  Placed(tables.blob[c], disk[c], c \notin spoiled')
  <2>1. Placed(db.blob[c], disk[c], c \notin spoiled)
    BY <1>9 DEF IInv, Places
  <2> QED BY <1>6, <1>8, <2>1 DEF Placed
<1>11. NamedRows(tables, content, staged')
  BY <1>6, <1>8 DEF IInv, Names, NamedRows
<1>12. \A j \in jobs : Keyed(tables, j) => Keyed(db, j)
  <2>1. \A j \in jobs : j.cid \in Cids
    BY JobTypes DEF IInv
  <2> QED BY <1>6, <2>1 DEF Keyed
<1>13. Follows(db, tables)
  BY <1>6 DEF Follows, Permanent
<1>14. \A c \in hook : tables.blob[c] = None
  BY <1>6
<1>15. \A t \in tables.tether : db.blob[t[2]] # None => tables.blob[t[2]] # None
  <2>1. \A t \in db.tether : t[2] \in Cids
    BY <1>2 DEF Tables
  <2> QED BY <1>6, <2>1
<1> QED BY <1>1, <1>4, <1>5, <1>6, <1>7, <1>8, <1>10, <1>11, <1>12, <1>13, <1>14, <1>15, <1>16, Begun

LEMMA TakedownKeeps ==
  ASSUME IInv, NEW c \in Cids, NEW applied \in BOOLEAN, Takedown(c, applied)
  PROVE  IInv'
<1> DEFINE row == IF db.blob[c] = None THEN None ELSE [db.blob[c] EXCEPT !.taken = applied]
           tables == [db EXCEPT !.blob = [db.blob EXCEPT ![c] = row]]
           move == [cid |-> c, applied |-> applied, done |-> FALSE]
<1>1. /\ Begin(tables, {}, {}, move) /\ events' = events + 1 /\ events < MaxEvents
      /\ UNCHANGED <<db, jobs, content, staged, files, pending, history>>
  BY DEF Takedown, Ask
<1>2. txn = None /\ db \in Tables /\ events \in 0 .. MaxEvents /\ MaxEvents \in Nat
  BY <1>1, BlobAssumption DEF Begin, IInv, TypeOK
<1>3. /\ row \in Row \cup {None} /\ (row = None <=> db.blob[c] = None)
      /\ db.blob[c] # None => row.temp = db.blob[c].temp /\ row.taken = applied
  <2>1. CASE db.blob[c] = None
    BY <2>1
  <2>2. CASE db.blob[c] # None
    <3>1. db.blob[c] \in Row /\ row = [db.blob[c] EXCEPT !.taken = applied]
      BY <1>2, <2>2, RowTypes
    <3>2. row \in Row /\ row.temp = db.blob[c].temp /\ row.taken = applied
      BY <3>1 DEF Row
    <3>3. None \notin Row
      BY NoneAssumption
    <3> QED BY <2>2, <3>2, <3>3
  <2> QED BY <2>1, <2>2
<1> HIDE DEF row
<1>4. /\ tables \in Tables /\ tables.tether = db.tether /\ tables.refs = db.refs
      /\ tables.blob[c] = row /\ \A b \in Cids \ {c} : tables.blob[b] = db.blob[b]
  <2>1. db.blob \in [Cids -> Row \cup {None}]
    BY <1>2 DEF Tables
  <2>2. [db.blob EXCEPT ![c] = row] \in [Cids -> Row \cup {None}]
    BY <1>3, <2>1
  <2> QED BY <1>2, <2>1, <2>2 DEF Tables
<1>5. move \in [cid : Cids, applied : BOOLEAN, done : BOOLEAN] \cup {None} /\ move # None
      /\ move.cid = c /\ move.applied = applied /\ ~move.done
  <2>1. move \in [cid : Cids, applied : BOOLEAN, done : BOOLEAN] /\ move.cid = c
        /\ move.applied = applied /\ ~move.done
    OBVIOUS
  <2> HIDE DEF move
  <2> QED BY <2>1, NoneAssumption
<1> HIDE DEF tables, move
<1>6. staged' \subseteq staged /\ events' \in 0 .. MaxEvents /\ spoiled' = spoiled /\ spoiled' \subseteq Cids
      /\ UNCHANGED <<db, jobs, content, files, pending, banned, stray, forgotten>>
  BY <1>1, <1>2 DEF IInv, TypeOK, history
<1>7. Moved = {}
  BY <1>2 DEF Moved
<1>8. ASSUME NEW b \in Cids \ spoiled'
      PROVE  Held(tables.blob[b], disk[b], jail[b], tmp) /\ (pending[b] > 0 => tables.blob[b] = None)
  <2>1. Held(db.blob[b], disk[b], jail[b], tmp) /\ (pending[b] > 0 => db.blob[b] = None)
    BY <1>6 DEF IInv, Bytes
  <2> QED BY <1>3, <1>4, <2>1 DEF Held
<1>15. ASSUME NEW b \in Cids \ stray
       PROVE  (move # None /\ move.cid = b) \/ Placed(tables.blob[b], disk[b], b \notin spoiled')
  BY <1>4, <1>5, <1>6, <1>7 DEF IInv, Places
<1>9. NamedRows(tables, content, staged')
  BY <1>3, <1>4, <1>6 DEF IInv, Names, NamedRows
<1>10. \A j \in jobs : Keyed(tables, j) => Keyed(db, j)
  <2>1. \A j \in jobs : j.cid \in Cids
    BY JobTypes DEF IInv
  <2> QED BY <1>3, <1>4, <2>1 DEF Keyed
<1>11. TakesDown(db, tables, move)
  BY <1>3, <1>4, <1>5 DEF TakesDown
<1>12. \A t \in tables.tether : db.blob[t[2]] # None => tables.blob[t[2]] # None
  <2>1. \A t \in db.tether : t[2] \in Cids
    BY <1>2 DEF Tables
  <2> QED BY <1>3, <1>4, <2>1
<1>13. Exact(db) => Promised(tables, {})
  BY <1>4 DEF Exact, Promised
<1>14. {} \in SUBSET ((Uris \cup {None}) \X Cids) /\ {} \in SUBSET Cids
  OBVIOUS
<1> QED BY <1>1, <1>4, <1>5, <1>6, <1>8, <1>9, <1>10, <1>11, <1>12, <1>13, <1>14, <1>15, Begun

LEMMA ImportKeeps ==
  ASSUME IInv, NEW refs \in [Uris -> RefSets], Import(refs)
  PROVE  IInv'
<1>1. PICK added \in SUBSET (Uris \X Cids) : db' = [db EXCEPT !.refs = refs, !.tether = db.tether \cup added]
  BY DEF Import
<1>2. /\ txn = None /\ work' = db' /\ events' = events + 1 /\ events < MaxEvents
      /\ UNCHANGED <<txn, jobs, content, staged, files, pending, history, runs>>
  BY DEF Import, Ask
<1>3. work = db /\ db \in Tables /\ events \in 0 .. MaxEvents /\ MaxEvents \in Nat
  BY <1>2, BlobAssumption DEF IInv, TypeOK
<1>4. db' \in Tables /\ db'.blob = db.blob
  <2>1. db.tether \cup added \in SUBSET (Uris \X Cids)
    BY <1>3 DEF Tables
  <2> QED BY <1>1, <1>3, <2>1 DEF Tables, RefSets
<1>5. TypeOK'
  BY <1>2, <1>3, <1>4 DEF IInv, TypeOK, files, history
<1>6. Moved' = Moved /\ ToMove' = ToMove /\ Live' = Live /\ \A b : BeingWritten(b)' <=> BeingWritten(b)
  BY <1>2 DEF Moved, ToMove, Live, BeingWritten
<1>7. Bytes' /\ Places'
  BY <1>2, <1>3, <1>4, <1>6 DEF IInv, Bytes, Places, files, history
<1>8. Sure'
  BY <1>2, <1>3, <1>4, <1>6 DEF IInv, Sure, Keyed, files, history
<1>9. Names'
  BY <1>2, <1>3, <1>4 DEF IInv, Names, NamedRows, files
<1> QED BY <1>2, <1>5, <1>7, <1>8, <1>9 DEF IInv
-----------------------------------------------------------------------------
(***************************************************************************)
(* The ends of a transaction, and the queue.                               *)
(***************************************************************************)
LEMMA LookFailsKeeps ==
  ASSUME IInv, NEW u \in Uris \cup {None}, NEW c \in Cids, LookFails(u, c)
  PROVE  IInv'
<1>1. /\ RollBack /\ forgotten' = forgotten \cup Stored
      /\ UNCHANGED <<db, jobs, content, staged, files, pending, banned, spoiled, events, runs>>
  BY DEF LookFails, Abort
<1> QED BY <1>1, RolledBack DEF IInv, TypeOK, files, Stored

LEMMA FailKeeps ==
  ASSUME IInv, Fail
  PROVE  IInv'
<1>1. /\ RollBack /\ forgotten' = forgotten \cup Stored /\ events' = events + 1 /\ events < MaxEvents
      /\ UNCHANGED <<db, jobs, content, staged, files, pending, banned, spoiled, runs>>
  BY DEF Fail, Abort, Ask
<1>2. events' \in 0 .. MaxEvents
  BY <1>1, BlobAssumption DEF IInv, TypeOK
<1> QED BY <1>1, <1>2, RolledBack DEF IInv, TypeOK, files, Stored

LEMMA CrashKeeps ==
  ASSUME IInv, Crash
  PROVE  IInv'
<1>1. /\ RollBack /\ events' = events + 1 /\ events < MaxEvents
      /\ jobs' = {} /\ staged' = {} /\ pending' = [c \in Cids |-> 0]
      /\ spoiled' = spoiled \cup Torn(jobs)
      /\ forgotten' = forgotten \cup Stored \cup {c \in Cids : pending[c] > 0}
      /\ UNCHANGED <<db, content, files, banned, runs>>
  BY DEF Crash, Ask
<1>2. events' \in 0 .. MaxEvents
  BY <1>1, BlobAssumption DEF IInv, TypeOK
<1>3. \A j \in jobs : j.cid \in Cids
  BY JobTypes DEF IInv
<1>4. /\ spoiled' \subseteq Cids /\ spoiled \subseteq spoiled' /\ forgotten' \subseteq Cids
      /\ \A j \in jobs : j.at = "writing" => j.cid \in spoiled'
  BY <1>1, <1>3 DEF IInv, TypeOK, Torn, Stored
<1>6. pending' \in [Cids -> Nat] /\ \A c \in Cids : ~(pending'[c] > 0)
  BY <1>1
<1> QED BY <1>1, <1>2, <1>4, <1>6, RolledBack DEF files

LEMMA UnlinkKeeps ==
  ASSUME IInv, NEW c \in Cids, Unlink(c)
  PROVE  IInv'
<1>1. /\ pending[c] > 0 /\ pending' = [pending EXCEPT ![c] = pending[c] - 1]
      /\ disk' = [disk EXCEPT ![c] = None]
      /\ UNCHANGED <<db, work, txn, jobs, content, staged, tmp, jail, history, events, runs>>
  BY DEF Unlink
<1>2. /\ pending' \in [Cids -> Nat] /\ disk' \in [Cids -> FileStates]
      /\ \A b \in Cids : pending'[b] > 0 => pending[b] > 0
      /\ disk'[c] = None /\ \A b \in Cids \ {c} : disk'[b] = disk[b]
  BY <1>1 DEF IInv, TypeOK, FileStates
<1>3. TypeOK'
  BY <1>1, <1>2 DEF IInv, TypeOK, history
<1>4. c \in spoiled \/ (db.blob[c] = None /\ work.blob[c] = None)
  BY <1>1 DEF IInv, Bytes
<1>5. Moved' = Moved /\ ToMove' = ToMove /\ Live' = Live /\ \A b : BeingWritten(b)' <=> BeingWritten(b)
  BY <1>1 DEF Moved, ToMove, Live, BeingWritten
<1>6. None # "torn"
  BY <1>2, <1>4, NoneIsNoFile DEF IInv
<1>7. Bytes' /\ Places'
  <2>1. Bytes'
    BY <1>1, <1>2, <1>4, <1>5, <1>6 DEF IInv, Bytes, Held, history
  <2>2. Places'
    BY <1>1, <1>2, <1>4, <1>5 DEF IInv, Places, Placed, history
  <2> QED BY <2>1, <2>2
<1>8. Sure'
  <2>1. ASSUME NEW j \in jobs, j.at \in {"writing", "remove"}, j.cid \notin spoiled
        PROVE  /\ Keyed(db, j) \/ Keyed(work, j) => Somewhere(disk'[j.cid], jail[j.cid])
               /\ j \in Live => disk'[j.cid] # None
    <3>1. j.cid \in Cids
      BY JobTypes DEF IInv
    <3>2. CASE j.cid = c
      <4>1. j \notin Live
        BY <1>4, <2>1, <3>2 DEF IInv, Running, Live
      <4> QED BY <1>4, <2>1, <3>2, <4>1 DEF Keyed
    <3>3. CASE j.cid # c
      BY <1>2, <2>1, <3>1, <3>3 DEF IInv, Sure
    <3> QED BY <3>2, <3>3
  <2> QED BY <1>1, <1>5, <2>1 DEF Sure, history
<1>9. Names'
  BY <1>1 DEF IInv, Names
<1>10. txn # None => Running'
  BY <1>1, <1>5 DEF IInv, Running
<1> QED BY <1>1, <1>3, <1>7, <1>8, <1>9, <1>10 DEF IInv

LEMMA UnlinkFailsKeeps ==
  ASSUME IInv, NEW c \in Cids, UnlinkFails(c)
  PROVE  IInv'
<1>1. /\ pending[c] > 0 /\ pending' = [pending EXCEPT ![c] = pending[c] - 1]
      /\ forgotten' = forgotten \cup {c} /\ events' = events + 1 /\ events < MaxEvents
      /\ UNCHANGED <<db, work, txn, jobs, content, staged, files, banned, spoiled, stray, runs>>
  BY DEF UnlinkFails, Ask
<1>2. /\ pending' \in [Cids -> Nat] /\ events' \in 0 .. MaxEvents
      /\ \A b \in Cids : pending'[b] > 0 => pending[b] > 0
  BY <1>1, BlobAssumption DEF IInv, TypeOK
<1>3. TypeOK'
  BY <1>1, <1>2 DEF IInv, TypeOK, files
<1>4. Moved' = Moved /\ ToMove' = ToMove /\ Live' = Live /\ \A b : BeingWritten(b)' <=> BeingWritten(b)
  BY <1>1 DEF Moved, ToMove, Live, BeingWritten
<1>5. Bytes'
  BY <1>1, <1>2, <1>4 DEF IInv, Bytes, files
<1>6. Places' /\ Sure'
  BY <1>1, <1>4 DEF IInv, Places, Sure, files
<1>7. Names' /\ (txn # None => Running')
  BY <1>1, <1>4 DEF IInv, Names, Running, files
<1> QED BY <1>1, <1>3, <1>5, <1>6, <1>7 DEF IInv

LEMMA CommitKeeps ==
  ASSUME IInv, Commit
  PROVE  IInv'
<1>1. /\ Ready /\ db' = work /\ txn' = None /\ banned' = BannedAfter
      /\ pending' = [c \in Cids |-> IF c \in txn.hook THEN pending[c] + 1 ELSE pending[c]]
      /\ UNCHANGED <<work, jobs, content, staged, tmp, disk, jail, spoiled, stray, forgotten, events, runs>>
  BY DEF Commit, files
<1>2. txn # None /\ ~Moving /\ Running
  BY <1>1 DEF Ready, IInv
<1>3. pending' \in [Cids -> Nat]
  BY <1>1 DEF IInv, TypeOK
<1>4. banned' \subseteq Cids
  BY <1>1, <1>2, TxnTypes DEF IInv, TypeOK, BannedAfter
<1>5. TypeOK'
  BY <1>1, <1>3, <1>4 DEF IInv, TypeOK
<1>6. ToMove = {} /\ Moved' = {} /\ ToMove' = {} /\ Live' = {}
      /\ \A b : BeingWritten(b)' <=> BeingWritten(b)
  BY <1>1, <1>2 DEF Moved, ToMove, Moving, Live, BeingWritten
<1>7. Bytes' /\ Places'
  <2>1. ASSUME NEW c \in Cids \ spoiled
        PROVE  /\ Held(work.blob[c], disk[c], jail[c], tmp)
               /\ disk[c] = "torn" => BeingWritten(c)
               /\ jail[c] # "torn"
               /\ pending'[c] > 0 => work.blob[c] = None
    <3>1. pending'[c] > 0 => pending[c] > 0 \/ c \in txn.hook
      BY <1>1
    <3> QED BY <1>2, <3>1 DEF IInv, Bytes, Running
  <2>2. Bytes'
    BY <1>1, <1>6, <2>1 DEF Bytes
  <2>3. Places'
    BY <1>1, <1>6 DEF IInv, Places
  <2> QED BY <2>2, <2>3
<1>8. Sure'
  BY <1>1, <1>6 DEF IInv, Sure
<1>9. Names'
  BY <1>1 DEF IInv, Names
<1> QED BY <1>1, <1>5, <1>7, <1>8, <1>9 DEF IInv

LEMMA MoveKeeps ==
  ASSUME IInv, Move
  PROVE  IInv'
<1> DEFINE c == txn.move.cid
           applied == txn.move.applied
<1>1. /\ txn # None /\ txn.move # None /\ ~txn.move.done
      /\ txn' = [txn EXCEPT !.move.done = TRUE]
      /\ spoiled' = spoiled \cup {b \in {c} : disk[b] = "torn"}
      /\ forgotten' = forgotten \cup Orphaned /\ Orphaned \subseteq {c}
      /\ UNCHANGED <<db, work, jobs, content, staged, tmp, pending, banned, stray, events, runs>>
  BY DEF Move, Moving, Orphaned
<1>2. /\ txn \in Transactions /\ txn.move \in [cid : Cids, applied : BOOLEAN, done : BOOLEAN]
      /\ c \in Cids /\ applied \in BOOLEAN
  BY <1>1 DEF IInv, TypeOK, Transactions
<1>3. /\ txn'.no = txn.no /\ txn'.todo = txn.todo /\ txn'.hook = txn.hook
      /\ txn'.move.cid = c /\ txn'.move.applied = applied /\ txn'.move.done
      /\ txn' \in Transactions /\ txn' # None /\ txn'.move # None
  <2> DEFINE m == [txn.move EXCEPT !.done = TRUE]
  <2>1. /\ m \in [cid : Cids, applied : BOOLEAN, done : BOOLEAN]
        /\ m.cid = c /\ m.applied = applied /\ m.done
    BY <1>2
  <2>2. txn' = [txn EXCEPT !.move = m]
    BY <1>1
  <2> HIDE DEF m
  <2>3. /\ txn' \in Transactions /\ txn'.no = txn.no /\ txn'.todo = txn.todo /\ txn'.hook = txn.hook
        /\ txn'.move = m
    BY <1>2, <2>1, <2>2 DEF Transactions
  <2> QED BY <2>1, <2>3, NoneAssumption
<1>4. \/ applied /\ disk[c] # None /\ disk' = [disk EXCEPT ![c] = None] /\ jail' = [jail EXCEPT ![c] = disk[c]]
      \/ ~applied /\ jail[c] # None /\ jail' = [jail EXCEPT ![c] = None] /\ disk' = [disk EXCEPT ![c] = jail[c]]
      \/ /\ ~(applied /\ disk[c] # None) /\ ~(~applied /\ jail[c] # None)
         /\ disk' = disk /\ jail' = jail
  BY <1>2 DEF Move
<1> HIDE DEF c, applied
<1>5. /\ disk \in [Cids -> FileStates] /\ jail \in [Cids -> FileStates]
      /\ disk' \in [Cids -> FileStates] /\ jail' \in [Cids -> FileStates]
      /\ \A b \in Cids \ {c} : disk'[b] = disk[b] /\ jail'[b] = jail[b]
  BY <1>2, <1>4 DEF IInv, TypeOK, FileStates
<1>6. \/ applied /\ disk[c] # None /\ disk'[c] = None /\ jail'[c] = disk[c]
      \/ ~applied /\ jail[c] # None /\ jail'[c] = None /\ disk'[c] = jail[c]
      \/ /\ ~(applied /\ disk[c] # None) /\ ~(~applied /\ jail[c] # None)
         /\ disk'[c] = disk[c] /\ jail'[c] = jail[c]
  BY <1>2, <1>4, <1>5
<1>7. TypeOK'
  BY <1>1, <1>2, <1>3, <1>5 DEF IInv, TypeOK
<1>8. /\ Moved = {} /\ ToMove = {c} /\ Moved' = {c} /\ ToMove' = {} /\ Live' = Live /\ Live = {}
      /\ \A b : BeingWritten(b)' <=> BeingWritten(b)
  BY <1>1, <1>3 DEF Moved, ToMove, Live, BeingWritten, c, IInv, Running
<1>9. TakesDown(db, work, txn.move)
  BY <1>1 DEF IInv, Running
<1>10. None # "torn" /\ None # "whole"
  BY NoneIsNoFile
<1>11. c \in spoiled' \/ (c \notin spoiled /\ disk[c] # "torn")
  BY <1>1, <1>2
<1>12. ASSUME c \notin spoiled'
       PROVE  /\ disk[c] \in {None, "whole"} /\ jail[c] \in {None, "whole"}
              /\ disk'[c] # "torn" /\ jail'[c] # "torn"
              /\ Somewhere(disk[c], jail[c]) => Somewhere(disk'[c], jail'[c])
  <2>1. jail[c] # "torn" /\ disk[c] # "torn"
    BY <1>2, <1>11, <1>12 DEF IInv, Bytes
  <2>2. disk[c] \in {None, "whole"} /\ jail[c] \in {None, "whole"}
    BY <1>2, <1>5, <2>1 DEF FileStates
  <2> QED BY <1>6, <1>10, <2>2 DEF Somewhere
<1>13. Bytes'
  <2>1. ASSUME NEW b \in Cids \ spoiled'
        PROVE  /\ Held(db.blob[b], disk'[b], jail'[b], tmp)
               /\ Held(work.blob[b], disk'[b], jail'[b], tmp)
               /\ disk'[b] = "torn" => BeingWritten(b)
               /\ jail'[b] # "torn"
               /\ pending[b] > 0 => db.blob[b] = None /\ work.blob[b] = None
    <3>1. b \notin spoiled
      BY <1>1
    <3>2. CASE b = c
      BY <1>12, <3>1, <3>2 DEF IInv, Bytes, Held
    <3>3. CASE b # c
      BY <1>5, <3>1, <3>3 DEF IInv, Bytes
    <3> QED BY <3>2, <3>3
  <2> QED BY <1>1, <1>8, <2>1 DEF Bytes
\* The file of a blob is moved to where the row of the transaction says.
<1>17. ASSUME c \notin stray, work.blob[c] # None
       PROVE  Placed(work.blob[c], disk'[c], c \notin spoiled')
  <2>1. /\ db.blob[c] # None /\ work.blob[c].temp = db.blob[c].temp /\ work.blob[c].taken = applied
    BY <1>9, <1>17 DEF TakesDown, c, applied
  <2>2. db.blob[c].taken \in BOOLEAN
    BY <1>2, <2>1, RowTypes DEF IInv, TypeOK
  <2>3. applied => disk'[c] = None
    BY <1>6
  <2>4. ASSUME c \notin spoiled', db.blob[c].temp = None, ~applied PROVE disk'[c] # None
    <3>1. Placed(db.blob[c], disk[c], TRUE)
      BY <1>2, <1>8, <1>11, <1>17, <2>4 DEF IInv, Places
    <3>2. Somewhere(disk[c], jail[c])
      <4>1. Held(db.blob[c], disk[c], jail[c], tmp)
        BY <1>2, <1>11, <2>4 DEF IInv, Bytes
      <4>2. None \notin tmp
        BY NoneAssumption DEF IInv, TypeOK
      <4> QED BY <2>1, <2>4, <4>1, <4>2 DEF Held
    <3> QED BY <1>6, <1>10, <1>12, <2>1, <2>2, <2>4, <3>1, <3>2 DEF Placed, Somewhere
  <2> QED BY <1>2, <2>1, <2>3, <2>4 DEF Placed
<1>18. Places'
  <2>1. ASSUME NEW b \in Cids \ stray
        PROVE  /\ b # c => Placed(db.blob[b], disk'[b], b \notin spoiled')
               /\ Placed(work.blob[b], disk'[b], b \notin spoiled')
    <3>1. CASE b = c
      BY <1>17, <3>1 DEF Placed
    <3>2. CASE b # c
      BY <1>1, <1>5, <1>8, <3>2 DEF IInv, Places, Placed
    <3> QED BY <3>1, <3>2
  <2> QED BY <1>1, <1>8, <2>1 DEF Places
<1>14. Sure'
  <2>1. ASSUME NEW j \in jobs, j.at \in {"writing", "remove"}, j.cid \notin spoiled'
        PROVE  Keyed(db, j) \/ Keyed(work, j) => Somewhere(disk'[j.cid], jail'[j.cid])
    <3>1. j.cid \in Cids /\ j.cid \notin spoiled
      BY <1>1, <2>1, JobTypes DEF IInv
    <3>2. Keyed(db, j) \/ Keyed(work, j) => Somewhere(disk[j.cid], jail[j.cid])
      BY <2>1, <3>1 DEF IInv, Sure
    <3>3. CASE j.cid = c
      BY <1>12, <2>1, <3>2, <3>3
    <3>4. CASE j.cid # c
      BY <1>5, <3>1, <3>2, <3>4
    <3> QED BY <3>3, <3>4
  <2> QED BY <1>1, <1>8, <2>1 DEF Sure
<1>15. Names'
  BY <1>1 DEF IInv, Names
<1>16. Running'
  <2>1. TakesDown(db, work, txn'.move)
    BY <1>3, <1>9 DEF TakesDown, c, applied
  <2>2. Running
    BY <1>1 DEF IInv
  <2> QED BY <1>1, <1>3, <1>8, <2>1, <2>2 DEF Running
<1> QED BY <1>7, <1>13, <1>14, <1>15, <1>16, <1>18 DEF IInv
-----------------------------------------------------------------------------
(***************************************************************************)
(* The jobs, and the references of a transaction.                          *)
(***************************************************************************)
\* A job takes a step.
LEMMA JobMoves ==
  ASSUME TypeOK, NEW j \in jobs, NEW at \in {"stat", "read", "write", "writing", "remove"}, To(j, at)
  PROVE  \E k \in jobs' :
           /\ jobs' = (jobs \ {j}) \cup {k} /\ k \in Jobs /\ k.at = at
           /\ k.no = j.no /\ k.uri = j.uri /\ k.cid = j.cid /\ k.key = j.key
<1> DEFINE k == [j EXCEPT !.at = at]
<1>1. j \in Jobs
  BY JobTypes
<1>2. k \in Jobs /\ k.at = at /\ k.no = j.no /\ k.uri = j.uri /\ k.cid = j.cid /\ k.key = j.key
  BY <1>1 DEF Jobs
<1>3. jobs' = (jobs \ {j}) \cup {k}
  BY DEF To
<1> HIDE DEF k
<1> QED BY <1>2, <1>3

\* Where a job is tells the transaction and the names nothing.
LEMMA SameJobs ==
  ASSUME IInv, NEW j \in jobs, NEW k \in Jobs, jobs' = (jobs \ {j}) \cup {k},
         k.no = j.no, k.cid = j.cid, k.key = j.key,
         UNCHANGED <<db, work, txn, content, staged, tmp, runs>>
  PROVE  Names' /\ (txn # None => Running')
<1>1. Names'
  BY DEF IInv, Names
<1>2. \A i \in Live' : i \in Live \/ (i = k /\ j \in Live)
  BY DEF Live
<1>3. \A i \in Live : i \in Live' \/ (i = j /\ k \in Live')
  BY DEF Live
<1>4. Live = {} => Live' = {}
  BY <1>2
<1>5. ASSUME txn # None PROVE Running'
  <2>1. Running
    BY <1>5 DEF IInv
  <2>2. \A i \in Live' : /\ work.blob[i.cid] # None /\ ~work.blob[i.cid].taken
                         /\ work.blob[i.cid].temp \in {i.key, None}
    BY <1>2, <2>1 DEF Running
  <2>3. \A t \in work.tether \ db.tether : Permanent(work, t[2]) \/ \E i \in Live' : i.cid = t[2]
    BY <1>3, <2>1 DEF Running
  <2> QED BY <1>4, <2>1, <2>2, <2>3 DEF Running
<1> QED BY <1>1, <1>5

\* A step that changes neither tables nor files, of a job that does not write.
LEMMA JobMovesKeeps ==
  ASSUME IInv, NEW j \in jobs, j.at # "writing", NEW at \in {"read", "write", "remove"}, To(j, at),
         at = "remove" => disk[j.cid] # None,
         UNCHANGED <<db, work, txn, content, staged, files, pending, history, events, runs>>
  PROVE  IInv'
<1>1. PICK k \in jobs' : /\ jobs' = (jobs \ {j}) \cup {k} /\ k \in Jobs /\ k.at = at
                         /\ k.no = j.no /\ k.uri = j.uri /\ k.cid = j.cid /\ k.key = j.key
  BY JobMoves DEF IInv
<1>2. TypeOK'
  BY <1>1 DEF IInv, TypeOK, files, history
<1>3. Moved' = Moved /\ ToMove' = ToMove /\ \A b : BeingWritten(b) => BeingWritten(b)'
  BY <1>1 DEF Moved, ToMove, BeingWritten
<1>4. Bytes' /\ Places'
  BY <1>3 DEF IInv, Bytes, Places, files, history
<1>5. Sure'
  <2>1. ASSUME NEW i \in jobs', i.at \in {"writing", "remove"}, i.cid \notin spoiled
        PROVE  /\ Keyed(db, i) \/ Keyed(work, i) => Somewhere(disk[i.cid], jail[i.cid])
               /\ i \in Live' => disk[i.cid] # None
    <3>1. CASE i = k
      <4>1. disk[j.cid] # None /\ j.cid \in Cids
        BY <1>1, <2>1, <3>1, JobTypes DEF IInv
      <4>2. disk[j.cid] \in {"torn", "whole"}
        BY <4>1 DEF IInv, TypeOK, FileStates
      <4> QED BY <1>1, <3>1, <4>1, <4>2 DEF Somewhere
    <3>2. CASE i \in jobs
      <4>1. i \in Live' => i \in Live
        BY <3>2 DEF Live
      <4> QED BY <2>1, <3>2, <4>1 DEF IInv, Sure
    <3> QED BY <1>1, <3>1, <3>2
  <2> QED BY <2>1 DEF Sure, files, history
<1>6. Names' /\ (txn # None => Running')
  BY <1>1, SameJobs DEF files
<1> QED BY <1>2, <1>4, <1>5, <1>6 DEF IInv

LEMMA StatKeeps ==
  ASSUME IInv, NEW j \in jobs, Stat(j)
  PROVE  IInv'
<1>1. /\ j.at = "stat" /\ To(j, IF disk[j.cid] = None THEN "read" ELSE "remove")
      /\ UNCHANGED <<db, work, txn, content, staged, files, pending, history, events, runs>>
  BY DEF Stat, onlyJobs, files
<1> QED BY <1>1, JobMovesKeeps

\* A job that fails, and with it the transaction if that waits for it.
LEMMA JobEnds ==
  ASSUME IInv, NEW j \in jobs, Ends(j),
         UNCHANGED <<db, content, staged, files, pending, banned, runs>>,
         events' \in 0 .. MaxEvents, spoiled \subseteq spoiled', spoiled' \subseteq Cids,
         j.at = "writing" => j.cid \in spoiled'
  PROVE  IInv'
<1>1. jobs' = jobs \ {j}
  BY DEF Ends
<1>2. CASE j \in Live
  <2>1. RollBack /\ forgotten' = forgotten \cup Stored
    BY <1>2 DEF Ends, Abort
  <2>2. forgotten' \subseteq Cids /\ pending' \in [Cids -> Nat] /\ \A c \in Cids : pending'[c] > 0 => pending[c] > 0
    BY <2>1 DEF IInv, TypeOK, Stored
  <2> QED BY <1>1, <2>1, <2>2, RolledBack DEF files
<1>3. CASE j \notin Live
  <2>1. UNCHANGED <<work, txn, stray, forgotten>>
    BY <1>3 DEF Ends
  <2>2. TypeOK'
    BY <1>1, <2>1 DEF IInv, TypeOK, files
  <2>3. /\ Moved' = Moved /\ ToMove' = ToMove /\ Live' = Live
        /\ \A b \in Cids \ spoiled' : BeingWritten(b) => BeingWritten(b)'
    BY <1>1, <1>3, <2>1 DEF Moved, ToMove, BeingWritten, Live
  <2>4. Bytes'
    BY <2>1, <2>3 DEF IInv, Bytes, files
  <2>5. Places'
    BY <2>1, <2>3 DEF IInv, Places, Placed, files
  <2>6. Sure'
    BY <1>1, <2>1, <2>3 DEF IInv, Sure, files
  <2>7. Names'
    BY <1>1, <2>1 DEF IInv, Names, files
  <2>8. txn # None => Running'
    BY <2>1, <2>3 DEF IInv, Running
  <2> QED BY <2>1, <2>2, <2>4, <2>5, <2>6, <2>7, <2>8 DEF IInv
<1> QED BY <1>2, <1>3

LEMMA JobFailsKeeps ==
  ASSUME IInv, NEW j \in jobs, JobFails(j)
  PROVE  IInv'
<1>1. /\ Ends(j) /\ spoiled' = spoiled \cup Torn({j}) /\ events' = events + 1 /\ events < MaxEvents
      /\ UNCHANGED <<db, content, staged, files, pending, banned, runs>>
  BY DEF JobFails, Ask
<1>2. events' \in 0 .. MaxEvents
  BY <1>1, BlobAssumption DEF IInv, TypeOK
<1>3. j.cid \in Cids
  BY JobTypes DEF IInv
<1>4. /\ spoiled \subseteq spoiled' /\ spoiled' \subseteq Cids
      /\ j.at = "writing" => j.cid \in spoiled'
  BY <1>1, <1>3 DEF IInv, TypeOK, Torn
<1> QED BY <1>1, <1>2, <1>4, JobEnds

LEMMA ReadKeeps ==
  ASSUME IInv, NEW j \in jobs, Read(j)
  PROVE  IInv'
<1>1. j.at = "read" /\ UNCHANGED <<db, content, staged, files, pending, banned, spoiled, events, runs>>
  BY DEF Read
<1>2. CASE To(j, "write") /\ UNCHANGED <<work, txn, stray, forgotten>>
  BY <1>1, <1>2, JobMovesKeeps DEF history
<1>3. CASE Ends(j)
  BY <1>1, <1>3, JobEnds DEF IInv, TypeOK
<1> QED BY <1>2, <1>3 DEF Read

LEMMA OpenStoredKeeps ==
  ASSUME IInv, NEW j \in jobs, OpenStored(j)
  PROVE  IInv'
<1> DEFINE c == j.cid
           late == IF j \in Live THEN {} ELSE {c}
<1>1. /\ j.at = "write" /\ To(j, "writing") /\ disk' = [disk EXCEPT ![c] = "torn"]
      /\ stray' = stray \cup {b \in late : Taken(db, b) \/ Taken(work, b)}
      /\ forgotten' = forgotten \cup {b \in late : db.blob[b] = None /\ work.blob[b] = None}
      /\ UNCHANGED <<db, work, txn, content, staged, tmp, jail, pending, banned, spoiled, events, runs>>
  BY DEF OpenStored
<1>2. PICK k \in jobs' : /\ jobs' = (jobs \ {j}) \cup {k} /\ k \in Jobs /\ k.at = "writing"
                         /\ k.no = j.no /\ k.uri = j.uri /\ k.cid = c /\ k.key = j.key
  BY <1>1, JobMoves DEF IInv
<1>3. c \in Cids /\ j.key \in Keys /\ j.key # None
  BY JobTypes, NoneAssumption DEF IInv
<1>4. /\ disk' \in [Cids -> FileStates] /\ disk'[c] = "torn"
      /\ \A b \in Cids \ {c} : disk'[b] = disk[b]
  BY <1>1, <1>3 DEF IInv, TypeOK, FileStates
<1>5. stray \subseteq stray' /\ stray' \subseteq stray \cup {c} /\ forgotten' \subseteq forgotten \cup {c}
  BY <1>1
<1>6. TypeOK'
  BY <1>1, <1>2, <1>3, <1>4, <1>5 DEF IInv, TypeOK
<1>7. Moved' = Moved /\ ToMove' = ToMove /\ \A b : BeingWritten(b) => BeingWritten(b)'
  BY <1>1, <1>2 DEF Moved, ToMove, BeingWritten
<1>8. BeingWritten(c)'
  BY <1>2 DEF BeingWritten
<1>9. Bytes'
  <2>1. ASSUME NEW b \in Cids \ spoiled
        PROVE  /\ Held(db.blob[b], disk'[b], jail[b], tmp)
               /\ Held(work.blob[b], disk'[b], jail[b], tmp)
               /\ disk'[b] = "torn" => BeingWritten(b)'
               /\ jail[b] # "torn"
               /\ pending[b] > 0 => db.blob[b] = None /\ work.blob[b] = None
    <3>1. CASE b # c
      BY <1>4, <1>7, <3>1 DEF IInv, Bytes
    <3>2. CASE b = c
      BY <1>4, <1>8, <3>2 DEF IInv, Bytes, Held, Somewhere
    <3> QED BY <3>1, <3>2
  <2> QED BY <1>1, <2>1 DEF Bytes
\* Unless the blob goes astray, no row says that it is taken down.
<1>10. Places'
  <2>1. ASSUME NEW b \in Cids \ stray'
        PROVE  /\ b \notin Moved => Placed(db.blob[b], disk'[b], b \notin spoiled)
               /\ b \notin ToMove => Placed(work.blob[b], disk'[b], b \notin spoiled)
    <3>1. CASE b # c
      BY <1>4, <1>5, <3>1 DEF IInv, Places
    <3>2. CASE b = c
      <4>1. ~Taken(db, c) /\ ~Taken(work, c)
        <5>1. CASE j \in Live
          <6>1. txn # None /\ Running
            BY <5>1 DEF IInv, Live
          <6> QED BY <1>3, <5>1, <6>1 DEF Running, Follows, Taken
        <5>2. CASE j \notin Live
          BY <1>1, <3>2, <5>2
        <5> QED BY <5>1, <5>2
      <4> QED BY <1>4, <3>2, <4>1, NoneIsNoFile DEF Placed, Taken
    <3> QED BY <3>1, <3>2
  <2> QED BY <1>1, <1>7, <2>1 DEF Places
<1>11. Sure'
  <2>1. ASSUME NEW i \in jobs', i.at \in {"writing", "remove"}, i.cid \notin spoiled
        PROVE  /\ Keyed(db, i) \/ Keyed(work, i) => Somewhere(disk'[i.cid], jail[i.cid])
               /\ i \in Live' => disk'[i.cid] # None
    <3>1. CASE i.cid = c
      BY <1>4, <3>1, NoneIsNoFile DEF Somewhere
    <3>2. CASE i.cid # c
      <4>1. i \in jobs /\ i.cid \in Cids \ {c} /\ (i \in Live' => i \in Live)
        BY <1>1, <1>2, <3>2, JobTypes DEF Live, IInv
      <4> QED BY <1>4, <2>1, <4>1 DEF IInv, Sure
    <3> QED BY <3>1, <3>2
  <2> QED BY <1>1, <2>1 DEF Sure
<1>12. Names' /\ (txn # None => Running')
  BY <1>1, <1>2, SameJobs
<1> QED BY <1>1, <1>6, <1>9, <1>10, <1>11, <1>12 DEF IInv

LEMMA FillStoredKeeps ==
  ASSUME IInv, NEW j \in jobs, FillStored(j)
  PROVE  IInv'
<1> DEFINE c == j.cid
           left == IF \E i \in jobs \ {j} : i.cid = c /\ i.at = "writing" THEN "torn" ELSE "whole"
<1>1. /\ j.at = "writing" /\ To(j, "remove")
      /\ disk' = IF disk[c] = "torn" THEN [disk EXCEPT ![c] = left] ELSE disk
      /\ jail' = IF disk[c] # "torn" /\ jail[c] = "torn" THEN [jail EXCEPT ![c] = left] ELSE jail
      /\ UNCHANGED <<db, work, txn, content, staged, tmp, pending, history, events, runs>>
  BY DEF FillStored
<1>2. PICK k \in jobs' : /\ jobs' = (jobs \ {j}) \cup {k} /\ k \in Jobs /\ k.at = "remove"
                         /\ k.no = j.no /\ k.uri = j.uri /\ k.cid = c /\ k.key = j.key
  BY <1>1, JobMoves DEF IInv
<1>3. c \in Cids
  BY JobTypes DEF IInv
<1>4. left \in {"torn", "whole"} /\ (left = "torn" => \E i \in jobs \ {j} : i.cid = c /\ i.at = "writing")
  OBVIOUS
<1> HIDE DEF left
<1>5. /\ disk' \in [Cids -> FileStates] /\ jail' \in [Cids -> FileStates]
      /\ \A b \in Cids \ {c} : disk'[b] = disk[b] /\ jail'[b] = jail[b]
      /\ disk'[c] = IF disk[c] = "torn" THEN left ELSE disk[c]
  BY <1>1, <1>3, <1>4 DEF IInv, TypeOK, FileStates
<1>6. TypeOK'
  BY <1>1, <1>2, <1>5 DEF IInv, TypeOK, history
<1>7. Moved' = Moved /\ ToMove' = ToMove /\ \A b \in Cids \ {c} : BeingWritten(b) => BeingWritten(b)'
  BY <1>1, <1>2 DEF Moved, ToMove, BeingWritten
<1>8. left = "torn" => BeingWritten(c)'
  BY <1>2, <1>4 DEF BeingWritten
<1>9. ASSUME NEW b \in Cids \ spoiled
      PROVE  /\ jail'[b] = jail[b] /\ (disk'[b] = None <=> disk[b] = None)
             /\ Somewhere(disk'[b], jail'[b]) <=> Somewhere(disk[b], jail[b])
             /\ disk'[b] = "torn" => BeingWritten(b)'
  <2>1. (disk[b] = "torn" => BeingWritten(b)) /\ jail[b] # "torn"
    BY DEF IInv, Bytes
  <2>2. CASE b # c
    BY <1>5, <1>7, <2>1, <2>2
  <2>3. CASE b = c
    BY <1>1, <1>4, <1>5, <1>8, <2>1, <2>3, NoneIsNoFile DEF Somewhere
  <2> QED BY <2>2, <2>3
<1>10. Bytes'
  <2>1. ASSUME NEW b \in Cids \ spoiled
        PROVE  /\ Held(db.blob[b], disk'[b], jail'[b], tmp)
               /\ Held(work.blob[b], disk'[b], jail'[b], tmp)
               /\ disk'[b] = "torn" => BeingWritten(b)'
               /\ jail'[b] # "torn"
               /\ pending[b] > 0 => db.blob[b] = None /\ work.blob[b] = None
    BY <1>9 DEF IInv, Bytes, Held
  <2> QED BY <1>1, <2>1 DEF Bytes, history
<1>13. Places'
  <2>1. \A b \in Cids : disk'[b] = None <=> disk[b] = None
    BY <1>4, <1>5, NoneIsNoFile
  <2>2. Moved' = Moved /\ ToMove' = ToMove
    BY <1>1 DEF Moved, ToMove
  <2> QED BY <1>1, <2>1, <2>2 DEF IInv, Places, Placed, history
<1>11. Sure'
  <2>1. ASSUME NEW i \in jobs', i.at \in {"writing", "remove"}, i.cid \notin spoiled
        PROVE  /\ Keyed(db, i) \/ Keyed(work, i) => Somewhere(disk'[i.cid], jail'[i.cid])
               /\ i \in Live' => disk'[i.cid] # None
    <3>1. PICK o \in jobs : /\ o.at \in {"writing", "remove"} /\ o.cid = i.cid /\ o.key = i.key
                            /\ o.no = i.no
      BY <1>1, <1>2, <2>1
    <3>2. i.cid \in Cids \ spoiled
      BY <2>1, <3>1, JobTypes DEF IInv
    <3>3. i \in Live' => o \in Live
      BY <1>1, <3>1 DEF Live
    <3>4. /\ Keyed(db, o) \/ Keyed(work, o) => Somewhere(disk[o.cid], jail[o.cid])
          /\ o \in Live => disk[o.cid] # None
      BY <3>1, <3>2 DEF IInv, Sure
    <3> QED BY <1>9, <3>1, <3>2, <3>3, <3>4 DEF Keyed
  <2> QED BY <1>1, <2>1 DEF Sure, history
<1>12. Names' /\ (txn # None => Running')
  BY <1>1, <1>2, SameJobs
<1> QED BY <1>1, <1>6, <1>10, <1>11, <1>12, <1>13 DEF IInv

LEMMA FinishKeeps ==
  ASSUME IInv, NEW j \in jobs, Finish(j)
  PROVE  IInv'
<1> DEFINE c == j.cid
           Done(b) == IF work.blob[b] # None /\ work.blob[b].temp = j.key
                        THEN [work.blob[b] EXCEPT !.temp = None] ELSE work.blob[b]
<1>1. /\ j.at = "remove" /\ jobs' = jobs \ {j} /\ tmp' = tmp \ {j.key}
      /\ work' = IF j \in Live THEN [work EXCEPT !.blob = [b \in Cids |-> Done(b)]] ELSE work
      /\ UNCHANGED <<db, txn, content, staged, disk, jail, pending, history, events, runs>>
  BY DEF Finish
<1>2. /\ c \in Cids /\ j.key \in Keys /\ j.key # None /\ content[j.key] = c /\ j.key \notin staged
      /\ db \in Tables /\ work \in Tables
  BY JobTypes, NoneAssumption DEF IInv, Names, TypeOK
<1>3. ASSUME NEW b \in Cids
      PROVE  /\ Done(b) \in Row \cup {None} /\ (Done(b) = None <=> work.blob[b] = None)
             /\ work.blob[b] # None =>
                  /\ Done(b).taken = work.blob[b].taken
                  /\ Done(b).temp = IF work.blob[b].temp = j.key THEN None ELSE work.blob[b].temp
  <2>1. work.blob[b] \in Row \cup {None}
    BY <1>2, RowTypes
  <2>2. CASE work.blob[b] # None /\ work.blob[b].temp = j.key
    <3> DEFINE done == [work.blob[b] EXCEPT !.temp = None]
    <3>1. done \in Row /\ done.taken = work.blob[b].taken /\ done.temp = None /\ Done(b) = done
      BY <2>1, <2>2 DEF Row
    <3> HIDE DEF done, Done
    <3> QED BY <2>2, <3>1, NoneAssumption
  <2>3. CASE ~(work.blob[b] # None /\ work.blob[b].temp = j.key)
    BY <2>1, <2>3
  <2> QED BY <2>2, <2>3
<1> HIDE DEF Done
\* The tables, with or without the rows made permanent.
<1>4. /\ work' \in Tables /\ work'.tether = work.tether /\ work'.refs = work.refs
      /\ \A b \in Cids :
           /\ work'.blob[b] = None <=> work.blob[b] = None
           /\ work.blob[b] # None =>
                /\ work'.blob[b].taken = work.blob[b].taken
                /\ work'.blob[b].temp = IF j \in Live /\ work.blob[b].temp = j.key THEN None
                                        ELSE work.blob[b].temp
  <2>1. CASE j \in Live
    <3>1. [b \in Cids |-> Done(b)] \in [Cids -> Row \cup {None}]
      BY <1>3
    <3>2. /\ work' \in Tables /\ work'.tether = work.tether /\ work'.refs = work.refs
          /\ work'.blob = [b \in Cids |-> Done(b)]
      BY <1>1, <1>2, <2>1, <3>1 DEF Tables
    <3> QED BY <1>3, <2>1, <3>2
  <2>2. CASE j \notin Live
    BY <1>1, <1>2, <2>2
  <2> QED BY <2>1, <2>2
<1>5. TypeOK'
  <2>1. txn = None => work' = work
    BY <1>1 DEF Live
  <2> QED BY <1>1, <1>4, <2>1 DEF IInv, TypeOK, history
<1>6. Moved' = Moved /\ ToMove' = ToMove /\ Live' = Live \ {j}
      /\ \A b : BeingWritten(b) => BeingWritten(b)'
  BY <1>1 DEF Moved, ToMove, Live, BeingWritten
\* A row that has the key is of the blob that the job has stored.
<1>7. ASSUME NEW d \in {db, work}, NEW b \in Cids, d.blob[b] # None, d.blob[b].temp = j.key
      PROVE  b = c /\ Keyed(d, j)
  <2>1. NamedRows(d, content, staged)
    BY DEF IInv, Names
  <2>2. b = c
    BY <1>2, <1>7, <2>1 DEF NamedRows
  <2> QED BY <1>7, <2>2 DEF Keyed
<1>8. c \in spoiled \/ /\ Keyed(db, j) \/ Keyed(work, j) => Somewhere(disk[c], jail[c])
                       /\ j \in Live => disk[c] # None
  BY <1>1 DEF IInv, Sure
<1>9. ASSUME NEW d \in {db, work}, NEW b \in Cids \ spoiled
      PROVE  /\ Held(d.blob[b], disk[b], jail[b], tmp')
             /\ d.blob[b] # None /\ d.blob[b].temp = j.key => Somewhere(disk[b], jail[b])
  <2>1. d.blob[b] # None /\ d.blob[b].temp = j.key => Somewhere(disk[b], jail[b])
    BY <1>7, <1>8
  <2>2. Held(d.blob[b], disk[b], jail[b], tmp)
    BY DEF IInv, Bytes
  <2> QED BY <1>1, <2>1, <2>2 DEF Held
<1>10. ASSUME j \in Live
       PROVE  /\ txn # None /\ Running /\ txn.move = None
              /\ work.blob[c] # None /\ ~work.blob[c].taken /\ work.blob[c].temp \in {j.key, None}
  <2>1. txn # None /\ Running
    BY <1>10 DEF IInv, Live
  <2> QED BY <1>10, <2>1 DEF Running
<1>11. ASSUME NEW b \in Cids, Placed(work.blob[b], disk[b], b \notin spoiled)
       PROVE  Placed(work'.blob[b], disk[b], b \notin spoiled)
  <2>1. CASE j \in Live /\ work.blob[b] # None /\ work.blob[b].temp = j.key
    <3>1. b = c /\ ~work.blob[b].taken /\ (b \notin spoiled => disk[b] # None)
      BY <1>7, <1>8, <1>10, <2>1
    <3> QED BY <1>4, <2>1, <3>1 DEF Placed
  <2>2. CASE ~(j \in Live /\ work.blob[b] # None /\ work.blob[b].temp = j.key)
    BY <1>4, <1>11, <2>2 DEF Placed
  <2> QED BY <2>1, <2>2
<1>12. Bytes'
  <2>1. ASSUME NEW b \in Cids \ spoiled
        PROVE  /\ Held(db.blob[b], disk[b], jail[b], tmp')
               /\ Held(work'.blob[b], disk[b], jail[b], tmp')
               /\ disk[b] = "torn" => BeingWritten(b)'
               /\ jail[b] # "torn"
               /\ pending[b] > 0 => db.blob[b] = None /\ work'.blob[b] = None
    <3>1. /\ disk[b] = "torn" => BeingWritten(b)
          /\ jail[b] # "torn"
          /\ pending[b] > 0 => db.blob[b] = None /\ work.blob[b] = None
      BY DEF IInv, Bytes
    <3>2. Held(work'.blob[b], disk[b], jail[b], tmp')
      BY <1>4, <1>9 DEF Held
    <3> QED BY <1>4, <1>6, <1>9, <3>1, <3>2
  <2> QED BY <1>1, <2>1 DEF Bytes, history
<1>16. Places'
  <2>1. ASSUME NEW b \in Cids \ stray
        PROVE  /\ b \notin Moved => Placed(db.blob[b], disk[b], b \notin spoiled)
               /\ b \notin ToMove => Placed(work'.blob[b], disk[b], b \notin spoiled)
    BY <1>11 DEF IInv, Places
  <2> QED BY <1>1, <1>6, <2>1 DEF Places, history
<1>13. Sure'
  <2>1. ASSUME NEW i \in jobs', i.at \in {"writing", "remove"}, i.cid \notin spoiled
        PROVE  /\ Keyed(db, i) \/ Keyed(work', i) => Somewhere(disk[i.cid], jail[i.cid])
               /\ i \in Live' => disk[i.cid] # None
    <3>1. i \in jobs /\ i.cid \in Cids /\ i.key # None
      BY <1>1, JobTypes, NoneAssumption DEF IInv
    <3>2. Keyed(work', i) => Keyed(work, i)
      BY <1>4, <3>1 DEF Keyed
    <3> QED BY <1>6, <2>1, <3>1, <3>2 DEF IInv, Sure
  <2> QED BY <1>1, <2>1 DEF Sure, history
<1>14. Names'
  <2>1. NamedRows(work', content, staged)
    BY <1>4 DEF IInv, Names, NamedRows
  <2> QED BY <1>1, <1>2, <2>1 DEF IInv, Names
<1>15. txn # None => Running'
  <2>1. CASE j \notin Live
    <3>1. work' = work /\ Live' = Live
      BY <1>1, <1>6, <2>1
    <3> QED BY <1>1, <3>1 DEF IInv, Running
  <2>2. CASE j \in Live
    <3>1. Follows(db, work')
      <4>1. Follows(db, work)
        BY <1>10, <2>2 DEF Running
      <4> QED BY <1>4, <4>1 DEF Follows, Permanent
    <3>2. \A i \in Live' : /\ work'.blob[i.cid] # None /\ ~work'.blob[i.cid].taken
                           /\ work'.blob[i.cid].temp \in {i.key, None}
      <4>1. ASSUME NEW i \in Live
            PROVE  /\ work'.blob[i.cid] # None /\ ~work'.blob[i.cid].taken
                   /\ work'.blob[i.cid].temp \in {i.key, None}
        <5>1. i.cid \in Cids
          BY JobTypes DEF IInv, Live
        <5> QED BY <1>4, <1>10, <2>2, <4>1, <5>1 DEF Running
      <4> QED BY <1>6, <4>1
    <3>3. \A b \in txn.hook : work'.blob[b] = None
      BY <1>4, <1>10, <2>2, TxnTypes DEF Running, IInv
    <3>4. \A t \in work.tether \ db.tether : Permanent(work', t[2]) \/ \E i \in Live' : i.cid = t[2]
      <4>1. ASSUME NEW t \in work.tether \ db.tether
            PROVE  Permanent(work', t[2]) \/ \E i \in Live' : i.cid = t[2]
        <5>1. t[2] \in Cids
          BY <1>2 DEF Tables
        <5>2. Permanent(work, t[2]) \/ \E i \in Live : i.cid = t[2]
          BY <1>10, <2>2 DEF Running
        <5>3. Permanent(work, t[2]) => Permanent(work', t[2])
          BY <1>4, <5>1 DEF Permanent
        <5>4. Permanent(work', c)
          BY <1>2, <1>4, <1>10, <2>2 DEF Permanent
        <5> QED BY <1>6, <5>2, <5>3, <5>4
      <4> QED BY <4>1
    <3>5. \A t \in work.tether : db.blob[t[2]] # None => work'.blob[t[2]] # None
      <4>1. \A t \in work.tether : t[2] \in Cids
        BY <1>2 DEF Tables
      <4> QED BY <1>4, <1>10, <2>2, <4>1 DEF Running
    <3>6. Exact(db) /\ "twice" \notin Kinds => Promised(work', txn.todo)
      BY <1>4, <1>10, <2>2 DEF Running, Promised
    <3>7. txn.move = None /\ txn.no < runs
      BY <1>10, <2>2 DEF Running
    <3> QED BY <1>1, <1>4, <3>1, <3>2, <3>3, <3>4, <3>5, <3>6, <3>7 DEF Running
  <2> QED BY <2>1, <2>2
<1> QED BY <1>1, <1>5, <1>12, <1>13, <1>14, <1>15, <1>16 DEF IInv

LEMMA LookKeeps ==
  ASSUME IInv, NEW u \in Uris \cup {None}, NEW c \in Cids, Look(u, c)
  PROVE  IInv'
<1> DEFINE k == [no |-> txn.no, uri |-> u, cid |-> c, key |-> work.blob[c].temp, at |-> "stat"]
<1>1. /\ txn # None /\ <<u, c>> \in txn.todo /\ work.blob[c] # None /\ ~Taken(work, c)
      /\ work' = Associated(u, c)
      /\ txn' = [txn EXCEPT !.todo = txn.todo \ {<<u, c>>}]
      /\ jobs' = IF Permanent(work, c) THEN jobs ELSE jobs \cup {k}
      /\ UNCHANGED <<db, content, staged, tmp, disk, jail, pending, history, events, runs>>
  BY DEF Look, Looked, files
<1>2. Running /\ txn.move = None /\ work \in Tables /\ txn \in Transactions
  BY <1>1 DEF IInv, Running, TypeOK
<1>3. /\ txn' \in Transactions /\ txn' # None /\ txn'.no = txn.no /\ txn'.hook = txn.hook
      /\ txn'.move = None /\ txn'.todo = txn.todo \ {<<u, c>>}
  BY <1>1, <1>2, NoneAssumption DEF Transactions
<1>4. /\ work' \in Tables /\ work'.blob = work.blob /\ work'.refs = work.refs
      /\ work'.tether = work.tether \cup {t \in {<<u, c>>} : u # None}
  <2>1. CASE u = None
    BY <1>1, <1>2, <2>1 DEF Associated
  <2>2. CASE u # None
    <3>1. work.tether \cup {<<u, c>>} \in SUBSET (Uris \X Cids)
      BY <1>2, <2>2 DEF Tables
    <3>2. work' = [work EXCEPT !.tether = work.tether \cup {<<u, c>>}]
      BY <1>1, <2>2 DEF Associated
    <3>3. work' \in Tables /\ work'.blob = work.blob /\ work'.refs = work.refs
          /\ work'.tether = work.tether \cup {<<u, c>>}
      BY <1>2, <3>1, <3>2 DEF Tables
    <3> QED BY <2>2, <3>3
  <2> QED BY <2>1, <2>2
<1>5. ~Permanent(work, c) =>
        /\ k \in Jobs /\ k.no = txn.no /\ k.cid = c /\ k.key = work.blob[c].temp /\ k.at = "stat"
        /\ content[k.key] = c /\ k.key \notin staged
  <2>1. SUFFICES ASSUME ~Permanent(work, c)
                 PROVE  /\ work.blob[c].temp \in Keys /\ txn.no \in Nat
                        /\ content[work.blob[c].temp] = c /\ work.blob[c].temp \notin staged
    BY DEF Jobs
  <2>2. work.blob[c].temp \in Keys
    BY <1>1, <1>2, <2>1, RowTypes DEF Permanent
  <2>3. work.blob[c].temp # None
    BY <1>1, <2>1 DEF Permanent
  <2>4. NamedRows(work, content, staged)
    BY DEF IInv, Names
  <2>5. txn.no \in Nat
    BY <1>1, TxnTypes DEF IInv
  <2> QED BY <1>1, <2>2, <2>3, <2>4, <2>5 DEF NamedRows
<1> HIDE DEF k
<1>6. jobs \subseteq jobs' /\ jobs' \subseteq jobs \cup {k} /\ (k \in jobs' \ jobs => ~Permanent(work, c))
      /\ (~Permanent(work, c) => k \in jobs')
  BY <1>1
<1>7. TypeOK'
  <2>1. jobs' \subseteq Jobs
    BY <1>5, <1>6 DEF IInv, TypeOK
  <2> QED BY <1>1, <1>3, <1>4, <2>1 DEF IInv, TypeOK, history
<1>8. Moved' = Moved /\ ToMove' = ToMove /\ \A b : BeingWritten(b) => BeingWritten(b)'
  BY <1>1, <1>2, <1>3, <1>6 DEF Moved, ToMove, BeingWritten
<1>9. Bytes' /\ Places'
  BY <1>1, <1>4, <1>8 DEF IInv, Bytes, Places, history
<1>10. \A i \in jobs : i \in Live' <=> i \in Live
  BY <1>1, <1>3, <1>6 DEF Live
<1>11. Sure'
  <2>1. ASSUME NEW i \in jobs', i.at \in {"writing", "remove"} PROVE i \in jobs
    BY <1>5, <1>6, <2>1
  <2> QED BY <1>1, <1>4, <1>10, <2>1 DEF IInv, Sure, Keyed, history
<1>12. Names'
  <2>1. NamedRows(work', content, staged)
    BY <1>4 DEF IInv, Names, NamedRows
  <2>2. \A i \in jobs' : content[i.key] = i.cid /\ i.key \notin staged /\ i.no < runs
    BY <1>2, <1>5, <1>6 DEF IInv, Names, Running
  <2> QED BY <1>1, <2>1, <2>2 DEF IInv, Names
<1>13. Running'
  <2>1. Follows(db, work')
    BY <1>2, <1>4 DEF Running, Follows, Permanent
  <2>2. ASSUME NEW i \in Live'
        PROVE  /\ work.blob[i.cid] # None /\ ~work.blob[i.cid].taken
               /\ work.blob[i.cid].temp \in {i.key, None}
    <3>1. CASE i \in jobs
      BY <1>2, <1>10, <2>2, <3>1 DEF Running
    <3>2. CASE i \notin jobs
      <4>1. i = k /\ ~Permanent(work, c)
        BY <1>6, <2>2, <3>2 DEF Live
      <4> QED BY <1>1, <1>5, <4>1 DEF Taken
    <3> QED BY <3>1, <3>2
  <2>3. ~Permanent(work, c) => k \in Live'
    BY <1>3, <1>5, <1>6 DEF Live
  <2>4. ASSUME NEW t \in work'.tether \ db.tether
        PROVE  Permanent(work', t[2]) \/ \E i \in Live' : i.cid = t[2]
    <3>1. CASE t \in work.tether
      <4>1. Permanent(work, t[2]) \/ \E i \in Live : i.cid = t[2]
        BY <1>2, <2>4, <3>1 DEF Running
      <4>2. \A i \in Live : i \in Live'
        BY <1>10 DEF Live
      <4> QED BY <1>4, <4>1, <4>2 DEF Permanent
    <3>2. CASE t = <<u, c>>
      BY <1>4, <1>5, <2>3, <3>2 DEF Permanent
    <3> QED BY <1>4, <2>4, <3>1, <3>2
  <2>5. \A t \in work'.tether : db.blob[t[2]] # None => work'.blob[t[2]] # None
    BY <1>1, <1>2, <1>4 DEF Running
  <2>6. Promised(work, txn.todo) => Promised(work', txn'.todo)
    <3>1. work'.tether \cup {t \in txn'.todo : t[1] # None} = work.tether \cup {t \in txn.todo : t[1] # None}
      BY <1>1, <1>3, <1>4
    <3> QED BY <1>4, <3>1 DEF Promised
  <2> QED BY <1>1, <1>2, <1>3, <1>4, <2>1, <2>2, <2>4, <2>5, <2>6 DEF Running
<1> QED BY <1>7, <1>9, <1>11, <1>12, <1>13 DEF IInv
-----------------------------------------------------------------------------
(***************************************************************************)
(* The theorems.                                                           *)
(***************************************************************************)
LEMMA InitHolds == Init => IInv
<1>1. SUFFICES ASSUME Init PROVE IInv
  OBVIOUS
<1>2. /\ db = [blob |-> [c \in Cids |-> None], tether |-> {}, refs |-> [u \in Uris |-> Gone]]
      /\ work = db /\ txn = None /\ jobs = {} /\ content = [k \in Keys |-> None]
      /\ staged = {} /\ tmp = {} /\ disk = [c \in Cids |-> None] /\ jail = [c \in Cids |-> None]
      /\ pending = [c \in Cids |-> 0] /\ banned = {} /\ spoiled = {} /\ stray = {} /\ forgotten = {}
      /\ events = 0 /\ runs = 0
  BY <1>1 DEF Init, NoFiles
<1>3. db \in Tables /\ \A c \in Cids : db.blob[c] = None
  BY <1>2 DEF Tables
<1>4. TypeOK
  BY <1>2, <1>3, BlobAssumption DEF TypeOK, FileStates
<1>5. Bytes /\ Places
  BY <1>2, <1>3, NoneIsNoFile DEF Bytes, Places, Held, Placed
<1>6. Sure /\ Names
  BY <1>2, <1>3 DEF Sure, Names, NamedRows
<1> QED BY <1>2, <1>4, <1>5, <1>6 DEF IInv

LEMMA StutterHolds ==
  ASSUME IInv, UNCHANGED vars
  PROVE  IInv'
<1>1. /\ Moved' = Moved /\ ToMove' = ToMove /\ Live' = Live
      /\ \A b : BeingWritten(b)' <=> BeingWritten(b)
  BY DEF vars, Moved, ToMove, Live, BeingWritten
<1>2. TypeOK'
  BY DEF IInv, TypeOK, vars, files, history
<1>3. Bytes' /\ Places'
  BY <1>1 DEF IInv, Bytes, Places, vars, files, history
<1>4. Sure'
  BY <1>1 DEF IInv, Sure, vars, files, history
<1>5. Names'
  BY DEF IInv, Names, vars, files
<1>6. txn # None => Running'
  BY <1>1 DEF IInv, Running, vars
<1> QED BY <1>2, <1>3, <1>4, <1>5, <1>6 DEF IInv, vars

LEMMA StepHolds == IInv /\ [Next]_vars => IInv'
<1>1. SUFFICES ASSUME IInv, [Next]_vars PROVE IInv'
  OBVIOUS
<1>2. CASE UNCHANGED vars
  BY <1>1, <1>2, StutterHolds
<1>3. CASE Requested
  <2>1. ASSUME NEW k \in Keys, NEW c \in Cids, PutTemp(k, c) PROVE IInv'
    BY <1>1, <2>1, PutTempKeeps
  <2>2. ASSUME NEW ws \in Commits, Write(ws) PROVE IInv'
    BY <1>1, <2>2, WriteKeeps
  <2>3. ASSUME NEW refs \in [Uris -> Refs \cup {Gone}], Import(refs) PROVE IInv'
    <3>1. refs \in [Uris -> RefSets]
      BY DEF Refs, RefSets
    <3> QED BY <1>1, <2>3, <3>1, ImportKeeps
  <2>4. ASSUME NEW c \in Cids, NEW applied \in BOOLEAN, Takedown(c, applied) PROVE IInv'
    BY <1>1, <2>4, TakedownKeeps
  <2> QED BY <1>3, <2>1, <2>2, <2>3, <2>4 DEF Requested
<1>4. CASE Work
  <2>1. ASSUME NEW k \in Keys, Upload(k) PROVE IInv'
    BY <1>1, <2>1, UploadKeeps
  <2>2. ASSUME NEW u \in Uris \cup {None}, NEW c \in Cids, Look(u, c) \/ LookFails(u, c) PROVE IInv'
    BY <1>1, <2>2, LookKeeps, LookFailsKeeps
  <2>3. ASSUME NEW j \in jobs, Stat(j) \/ Read(j) \/ OpenStored(j) \/ FillStored(j) \/ Finish(j)
        PROVE  IInv'
    BY <1>1, <2>3, StatKeeps, ReadKeeps, OpenStoredKeeps, FillStoredKeeps, FinishKeeps
  <2>4. CASE Move
    BY <1>1, <2>4, MoveKeeps
  <2>5. CASE Commit
    BY <1>1, <2>5, CommitKeeps
  <2> QED BY <1>4, <2>1, <2>2, <2>3, <2>4, <2>5 DEF Work
<1>5. CASE \E c \in Cids : Unlink(c)
  BY <1>1, <1>5, UnlinkKeeps
<1>6. CASE Faults
  <2>1. ASSUME NEW j \in jobs, JobFails(j) PROVE IInv'
    BY <1>1, <2>1, JobFailsKeeps
  <2>2. ASSUME NEW c \in Cids, UnlinkFails(c) PROVE IInv'
    BY <1>1, <2>2, UnlinkFailsKeeps
  <2> QED BY <1>1, <1>6, <2>1, <2>2, FailKeeps, CrashKeeps DEF Faults
<1> QED BY <1>1, <1>2, <1>3, <1>4, <1>5, <1>6 DEF Next

LEMMA Invariance == Spec => []IInv
BY InitHolds, StepHolds, PTL DEF Spec

\* The tables, the transaction, the jobs and the files keep their types in every
\* behaviour, and there is one view of the tables while no transaction runs.
THEOREM TypeCorrect == Spec => []TypeOK
<1>1. IInv => TypeOK
  BY DEF IInv
<1> QED BY <1>1, Invariance, PTL

\* No bytes of a blob are lost, however many uploads, commits, takedowns, failed
\* transactions, left-over jobs and restarts there are: as long as the blob has a row,
\* they are in a file, and if it is permanent and not taken down, in the one it is served
\* from.  Not promised of blobs that were uploaded again while a deletion was queued,
\* moved by a takedown while they were written, or whose writing broke off (spoiled);
\* the last part not of blobs with a takedown, or a lifting, that failed after its
\* rename, or that were written late when they were taken down (stray).
THEOREM BytesAreKept == Spec => []BytesKept
<1>1. IInv => BytesKept
  <2>1. SUFFICES ASSUME IInv, NEW c \in Cids \ spoiled, db.blob[c] # None
                 PROVE  /\ \/ "whole" \in {disk[c], jail[c]} \/ BeingWritten(c)
                           \/ db.blob[c].temp \in tmp
                        /\ Permanent(db, c) /\ c \notin stray =>
                             Taken(db, c) \/ Taken(work, c) \/ disk[c] = "whole" \/ BeingWritten(c)
    BY DEF BytesKept
  <2>2. disk[c] \in {None, "torn", "whole"} /\ (disk[c] = "torn" => BeingWritten(c))
    BY <2>1 DEF IInv, Bytes, TypeOK, FileStates
  <2>3. "whole" \in {disk[c], jail[c]} \/ BeingWritten(c) \/ db.blob[c].temp \in tmp
    BY <2>1, <2>2 DEF IInv, Bytes, Held, Somewhere
  <2>4. ASSUME Permanent(db, c), c \notin stray, ~Taken(db, c), ~Taken(work, c) PROVE disk[c] # None
    <3>1. CASE c \notin Moved
      BY <2>1, <2>4, <3>1 DEF IInv, Places, Placed, Permanent, Taken
    <3>2. CASE c \in Moved
      <4>1. txn # None /\ txn.move # None /\ txn.move.cid = c /\ c \notin ToMove
        BY <3>2 DEF Moved, ToMove
      <4>2. TakesDown(db, work, txn.move)
        BY <2>1, <4>1 DEF IInv, Running
      <4>3. work.blob[c] # None /\ work.blob[c].temp = db.blob[c].temp
        BY <2>1, <4>1, <4>2 DEF TakesDown
      <4>4. Placed(work.blob[c], disk[c], TRUE)
        BY <2>1, <2>4, <4>1 DEF IInv, Places
      <4> QED BY <2>4, <4>3, <4>4 DEF Placed, Permanent, Taken
    <3> QED BY <3>1, <3>2
  <2> QED BY <2>2, <2>3, <2>4
<1> QED BY <1>1, Invariance, PTL

\* The file of a blob that is taken down is not there to be served: the row and the
\* file agree before and after the takedown, and no upload, commit or job of a
\* running transaction stores the file again.  Not promised of blobs with a takedown, or
\* a lifting, that failed or was cut off after its rename, and of those that a job of a
\* failed transaction writes when they are taken down (stray).
THEOREM TakenStaysAway == Spec => []TakenIsAway
<1>1. IInv => TakenIsAway
  <2>1. SUFFICES ASSUME IInv, NEW c \in Cids \ stray, Taken(db, c), Taken(work, c)
                 PROVE  disk[c] = None
    BY DEF TakenIsAway
  <2>2. CASE c \notin Moved
    BY <2>1, <2>2 DEF IInv, Places, Placed, Taken
  <2>3. CASE c \in Moved
    <3>1. c \notin ToMove
      BY <2>3 DEF Moved, ToMove
    <3> QED BY <2>1, <3>1 DEF IInv, Places, Placed, Taken
  <2> QED BY <2>2, <2>3
<1> QED BY <1>1, Invariance, PTL

\* Only a commit and an import change the committed tables.
LEMMA TablesChange ==
  ASSUME [Next]_vars
  PROVE  db' = db \/ Commit \/ (txn = None /\ db'.blob = db.blob)
<1>1. ASSUME NEW refs, Import(refs) PROVE txn = None /\ db'.blob = db.blob
  <2>1. txn = None /\ \E r, s : db' = [db EXCEPT !.refs = r, !.tether = s]
    BY <1>1 DEF Import
  <2> QED BY <2>1
<1>2. CASE Requested
  BY <1>1, <1>2 DEF Requested, PutTemp, Write, Takedown
<1>3. CASE Work
  BY <1>3 DEF Work, Upload, Look, LookFails, Stat, onlyJobs, Read, OpenStored, FillStored, Finish, Move
<1>4. CASE (\E c \in Cids : Unlink(c)) \/ Faults
  BY <1>4 DEF Unlink, Faults, Fail, Crash, JobFails, UnlinkFails
<1> QED BY <1>2, <1>3, <1>4 DEF Next, vars

TetheredStep ==
  \A t \in db'.tether :
    (txn # None /\ t \notin db.tether) \/ Permanent(db, t[2]) => Permanent(db', t[2])

\* A commit makes the blobs of its records permanent, all of them before it goes
\* through, and leaves those that records still refer to permanent.
THEOREM ReferencedStaysPermanent == Spec => TetheredPermanent
<1>1. IInv /\ [Next]_vars => [TetheredStep]_vars
  <2>1. SUFFICES ASSUME IInv, [Next]_vars, NEW t \in db'.tether,
                        (txn # None /\ t \notin db.tether) \/ Permanent(db, t[2])
                 PROVE  Permanent(db', t[2])
    BY DEF TetheredStep
  <2>2. CASE db' = db
    BY <2>1, <2>2
  <2>3. CASE txn = None /\ db'.blob = db.blob
    BY <2>1, <2>3 DEF Permanent
  <2>4. CASE Commit
    <3>1. db' = work /\ txn # None /\ Running /\ Live = {} /\ work \in Tables
      BY <2>1, <2>4 DEF Commit, Ready, IInv, TypeOK
    <3>2. t[2] \in Cids
      BY <2>1, <3>1 DEF Tables
    <3>3. CASE t \notin db.tether
      BY <2>1, <3>1, <3>3 DEF Running
    <3>4. CASE Permanent(db, t[2]) /\ txn.move = None
      BY <2>1, <3>1, <3>2, <3>4 DEF Running, Follows, Permanent
    <3>5. CASE Permanent(db, t[2]) /\ txn.move # None
      <4>1. TakesDown(db, work, txn.move)
        BY <3>1, <3>5 DEF Running
      <4> QED BY <3>1, <3>2, <3>5, <4>1 DEF TakesDown, Permanent
    <3> QED BY <2>1, <3>3, <3>4, <3>5
  <2> QED BY <2>1, <2>2, <2>3, <2>4, TablesChange
<1> QED BY <1>1, Invariance, PTL DEF Spec, TetheredPermanent, TetheredStep

ExactStep == txn # None /\ Exact(db) => Exact(db')

\* Every commit leaves record_blob to say which blobs the records refer to, no more
\* and no less, if it found it so.  A commit that writes one record twice need not:
\* the blobs of the earlier write stay.
THEOREM TetherStaysExact ==
  ASSUME "twice" \notin Kinds
  PROVE  Spec => TetherExact
<1>1. IInv /\ [Next]_vars => [ExactStep]_vars
  <2>1. SUFFICES ASSUME IInv, [Next]_vars, txn # None, Exact(db) PROVE Exact(db')
    BY DEF ExactStep
  <2>2. CASE db' = db
    BY <2>1, <2>2
  <2>3. CASE Commit
    <3>1. db' = work /\ txn.todo = {} /\ Running
      BY <2>1, <2>3 DEF Commit, Ready, IInv
    <3>2. Promised(work, {})
      BY <2>1, <3>1 DEF Running
    <3>3. {t \in {} : t[1] # None} = {}
      OBVIOUS
    <3> QED BY <3>1, <3>2, <3>3 DEF Promised, Exact
  <2> QED BY <2>1, <2>2, <2>3, TablesChange
<1> QED BY <1>1, Invariance, PTL DEF Spec, TetherExact, ExactStep
=============================================================================
