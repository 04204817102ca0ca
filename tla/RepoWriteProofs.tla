-------------------------- MODULE RepoWriteProofs --------------------------
(***************************************************************************)
(* Proofs about RepoWrite, for any writers, paths, contents, subjects and  *)
(* any number of requests, retries and faults.                             *)
(***************************************************************************)
EXTENDS RepoWrite, FiniteSetTheorems, SequenceTheorems, WellFoundedInduction, TLAPS

Content == Cids \cup {Gone}

\* What a transaction has computed is there in these phases; the firehose was not
\* told of it yet in the first; it is not committed yet in the second.
Formatted == {"formatted", "written", "sequenced", "root"}
Unsequenced == {"formatted", "written"}
Uncommitted == {"formatted", "written", "sequenced"}

RevOf(w) == txn[w].store.rev

\* A request, without the swaps: they are compared, whatever they are.
IsRequest(r) ==
  \/ /\ r.kind = "create"
     /\ r.key \in Rkeys /\ r.cid \in Cids
  \/ r.kind = "put" /\ r.key \in Rkeys /\ r.cid \in Cids
  \/ r.kind = "delete" /\ r.key \in Rkeys
  \/ r.kind = "apply" /\ r.writes \in Seq(WriteOps)
  \/ r.kind = "import" /\ r.tree \in Records

StoresTo(n) == [rev : 0..n, signed : 0..n, tree : Records, index : Records,
                blocks : SUBSET Cids]
CommitsTo(n) == [rev : 0..n, since : 0..n, prevData : Records, data : Records,
                 ops : Seq([key : Rkeys, cid : Content, prev : Content])]

\* The shape of the state, with the revisions bounded by the last TID given out.
Shape ==
  /\ lastRev \in Nat
  /\ repo \in StoresTo(lastRev)
  /\ lock \in Writers \cup {None}
  /\ phase \in [Writers -> Phases]
  /\ req = [w \in Writers |-> req[w]]
  /\ txn = [w \in Writers |-> txn[w]]
  /\ events \in Seq(CommitsTo(lastRev))
  /\ accountRoot \in 0..lastRev
  /\ commits \in Seq(0..lastRev)
  /\ faults \in 0..MaxFaults

Requested == \A w \in Writers : phase[w] # "idle" => IsRequest(req[w])

TxnShape ==
  \A w \in Writers : phase[w] \in Formatted =>
    /\ txn[w].snap \in 0..lastRev
    /\ txn[w].store \in StoresTo(lastRev)
    /\ req[w].kind # "import" => txn[w].event \in CommitsTo(lastRev)

ClientWrites ==
  \A w \in Writers : phase[w] \in {"sequenced", "root"} => req[w].kind # "import"

\* The write lock of the store has a holder exactly while a transaction has
\* written to it.
Locked == \A w \in Writers : phase[w] \in Holding <=> lock = w

\* The tries that the requests under way have left, and the TIDs spent.
Left == {x \in Writers \X (1..MaxTries) : phase[x[1]] # "idle" /\ tries[x[1]] < x[2]}
Budget ==
  /\ tries \in [Writers -> 0..MaxTries]
  /\ started \in 0..MaxRequests
  /\ \A w \in Writers : phase[w] = "idle" => tries[w] = 0
  /\ \A w \in Writers : phase[w] = "begin" => tries[w] < MaxTries
  /\ IsFiniteSet(Left)
  /\ lastRev + Cardinality(Left) <= started * MaxTries

\* What a writer has computed is what the request makes of the store, unless the
\* store has changed since its snapshot.
Computed(w) ==
  /\ ~SwapFails(req[w])
  /\ txn[w] \in Formats(req[w], RevOf(w))

Snapshots ==
  \A w \in Writers : phase[w] \in Uncommitted =>
    /\ txn[w].snap <= repo.rev
    /\ txn[w].snap < RevOf(w)
    /\ phase[w] \in Holding => txn[w].snap = repo.rev
    /\ txn[w].snap = repo.rev => Computed(w)

Indexed == repo.index = repo.tree

\* TIDs are never given out twice, and the firehose and the commits know of them
\* only what their phases say.
FreshRevs ==
  /\ \A w, v \in Writers :
       phase[w] \in Formatted /\ phase[v] \in Formatted /\ w # v => RevOf(w) # RevOf(v)
  /\ \A w \in Writers : phase[w] \in Uncommitted => ~Committed(RevOf(w))
  /\ \A w \in Writers : phase[w] \in Unsequenced =>
       \A i \in DOMAIN events : events[i].rev # RevOf(w)

OnFirehose ==
  /\ \A i, j \in DOMAIN events : events[i].rev = events[j].rev => i = j
  /\ \A i \in DOMAIN commits : \E j \in DOMAIN events : events[j].rev = commits[i]
  /\ \A w \in Writers : phase[w] = "sequenced" =>
       events # <<>> /\ events[Len(events)] = txn[w].event

IInv == /\ Shape /\ Requested /\ TxnShape /\ ClientWrites /\ Locked
        /\ Snapshots /\ Indexed /\ FreshRevs /\ OnFirehose
-----------------------------------------------------------------------------
(* What the operators of the model return. *)

LEMMA Greatest ==
  ASSUME NEW n \in Nat, NEW S \in SUBSET (1..n), S # {}
  PROVE  Max(S) \in S /\ \A y \in S : y <= Max(S)
<1> DEFINE R == OpToRel(<, Nat)
           T == {n - x : x \in S}
<1>1. IsWellFoundedOn(R, Nat)
  BY NatLessThanWellFounded
<1>2. \A x, y \in Nat : <<y, x>> \in R <=> y < x
  BY DEF OpToRel
<1>3. T \subseteq Nat /\ T # {}
  <2>1. \A x \in S : n - x \in Nat
    OBVIOUS
  <2> QED BY <2>1
<1> HIDE DEF R
<1>4. PICK t \in T : \A y \in T : <<y, t>> \notin R
  BY <1>1, <1>3, WFMin
<1>5. PICK x \in S : t = n - x
  BY <1>4
<1>6. ASSUME NEW y \in S PROVE y <= x
  <2>1. n - y \in T /\ n - y \in Nat /\ t \in Nat
    BY <1>3
  <2>2. ~(n - y < t)
    BY <1>2, <1>4, <2>1
  <2> QED BY <1>5, <2>1, <2>2
<1>7. \E m \in S : \A y \in S : m >= y
  BY <1>5, <1>6
<1>8. Max(S) \in S /\ \A y \in S : Max(S) >= y
  BY <1>7, Zenon DEF Max
<1> QED BY <1>8

\* Before the i-th write a path holds what the last earlier write to it made of it,
\* or what it held before them all.
LEMMA BeforeIs ==
  ASSUME NEW tree, NEW writes, NEW i \in Nat \ {0}, NEW k
  PROVE  \/ /\ \A j \in 1..(i - 1) : writes[j].key # k
            /\ Before(tree, writes, i, k) = tree[k]
         \/ \E m \in 1..(i - 1) :
              /\ writes[m].key = k
              /\ \A j \in 1..(i - 1) : writes[j].key = k => j <= m
              /\ Before(tree, writes, i, k) = writes[m].cid
<1> DEFINE earlier == {j \in 1..(i - 1) : writes[j].key = k}
<1>1. Before(tree, writes, i, k) = IF earlier = {} THEN tree[k] ELSE writes[Max(earlier)].cid
  BY DEF Before
<1>2. CASE earlier = {}
  BY <1>1, <1>2
<1>3. CASE earlier # {}
  <2>1. Max(earlier) \in earlier /\ \A y \in earlier : y <= Max(earlier)
    <3>1. i - 1 \in Nat /\ earlier \in SUBSET (1..(i - 1))
      OBVIOUS
    <3> HIDE DEF earlier
    <3> QED BY <1>3, <3>1, Greatest
  <2> QED BY <1>1, <1>3, <2>1
<1> QED BY <1>2, <1>3

\* What all of the writes make of a path.
LEMMA ApplyIs ==
  ASSUME NEW tree, NEW writes \in Seq(WriteOps), NEW k \in Rkeys
  PROVE  \/ /\ \A j \in DOMAIN writes : writes[j].key # k
            /\ Apply(tree, writes)[k] = tree[k]
         \/ \E m \in DOMAIN writes :
              /\ writes[m].key = k
              /\ \A j \in DOMAIN writes : writes[j].key = k => j <= m
              /\ Apply(tree, writes)[k] = writes[m].cid
<1> DEFINE n == Len(writes) + 1
<1>1. n \in Nat \ {0} /\ DOMAIN writes = 1..(n - 1)
  OBVIOUS
<1>2. Apply(tree, writes)[k] = Before(tree, writes, n, k)
  BY DEF Apply
<1> HIDE DEF n
<1>3. \/ /\ \A j \in 1..(n - 1) : writes[j].key # k
         /\ Before(tree, writes, n, k) = tree[k]
      \/ \E m \in 1..(n - 1) :
           /\ writes[m].key = k
           /\ \A j \in 1..(n - 1) : writes[j].key = k => j <= m
           /\ Before(tree, writes, n, k) = writes[m].cid
  BY <1>1, BeforeIs
<1> QED BY <1>1, <1>2, <1>3

LEMMA ApplyType ==
  ASSUME NEW tree \in Records, NEW writes \in Seq(WriteOps)
  PROVE  Apply(tree, writes) \in Records
<1>1. Apply(tree, writes) = [k \in Rkeys |-> Apply(tree, writes)[k]]
  BY DEF Apply
<1>2. ASSUME NEW k \in Rkeys PROVE Apply(tree, writes)[k] \in Content
  <2>1. tree[k] \in Content /\ \A m \in DOMAIN writes : writes[m] \in WriteOps
    BY DEF Records, Content
  <2>2. \A m \in DOMAIN writes : writes[m].cid \in Content
    BY <2>1 DEF WriteOps, Content
  <2> QED BY <2>1, <2>2, ApplyIs
<1> QED BY <1>1, <1>2 DEF Records, Content

\* The contents at the paths where two trees differ are contents.
LEMMA DiffType ==
  ASSUME NEW before \in Records, NEW after \in Records,
         NEW moved \in SUBSET Moved(before, after)
  PROVE  /\ Replaced(before, after) \subseteq Cids
         /\ NewCids(before, after, moved) \subseteq Cids
<1>1. Replaced(before, after) \subseteq Cids /\ Replaced(after, before) \subseteq Cids
  BY DEF Replaced, Changed, Records
<1> QED BY <1>1 DEF NewCids, Moved

LEMMA WritesType ==
  ASSUME NEW index, NEW r, IsRequest(r), r.kind # "import", NEW s \in Writes(index, r)
  PROVE  s \in Seq(WriteOps)
<1>0. /\ \A k \in Rkeys : Deletion(k) \in WriteOps
      /\ \A k \in Rkeys, c \in Cids : Creation(k, c) \in WriteOps /\ Update(k, c) \in WriteOps
  BY DEF WriteOps, Deletion, Creation, Update
<1>1. CASE r.kind = "create"
  <2> DEFINE ks == BacklinkConflicts(index, r)
  <2>1. ks \in SUBSET Rkeys /\ r.key \in Rkeys /\ r.cid \in Cids
    BY <1>1 DEF IsRequest, BacklinkConflicts
  <2>2. PICK f \in Orders(ks) :
          s = Append([i \in DOMAIN f |-> Deletion(f[i])], Creation(r.key, r.cid))
    BY <1>1 DEF Writes
  <2>3. Cardinality(ks) \in Nat
    BY <2>1, WriteAssumption, FS_Subset, FS_CardinalityType
  <2> HIDE DEF ks
  <2>4. f \in [1..Cardinality(ks) -> Rkeys]
    BY <2>1 DEF Orders
  <2>5. [i \in DOMAIN f |-> Deletion(f[i])] \in Seq(WriteOps)
    BY <1>0, <2>3, <2>4
  <2> QED BY <1>0, <2>1, <2>2, <2>5
<1>2. CASE r.kind = "put"
  <2>1. r.key \in Rkeys /\ r.cid \in Cids
    BY <1>2 DEF IsRequest
  <2>2. s = <<IF index[r.key] = Gone THEN Creation(r.key, r.cid) ELSE Update(r.key, r.cid)>>
    BY <1>2 DEF Writes
  <2> QED BY <1>0, <2>1, <2>2
<1>3. CASE r.kind = "delete"
  <2>1. r.key \in Rkeys /\ s = <<Deletion(r.key)>>
    BY <1>3 DEF IsRequest, Writes
  <2> QED BY <1>0, <2>1
<1>4. CASE r.kind = "apply"
  BY <1>4 DEF IsRequest, Writes
<1> QED BY <1>1, <1>2, <1>3, <1>4 DEF IsRequest

\* A transaction computes an import or a commit.
LEMMA FormatsAre ==
  ASSUME NEW r, NEW rev, NEW t \in Formats(r, rev)
  PROVE  /\ r.kind = "import" =>
              \E moved \in SUBSET Moved(repo.tree, r.tree) : t = FormatImport(r.tree, moved, rev)
         /\ r.kind # "import" =>
              \E writes \in Writes(repo.index, r) :
                \E moved \in SUBSET Moved(repo.tree, Apply(repo.tree, writes)) :
                  t = FormatCommit(writes, moved, rev)
<1>1. CASE r.kind = "import"
  BY <1>1 DEF Formats
<1>2. CASE r.kind # "import"
  <2>1. PICK writes \in {s \in Writes(repo.index, r) : Fits(repo.tree, s)} :
          t \in {FormatCommit(writes, moved, rev) :
                   moved \in SUBSET Moved(repo.tree, Apply(repo.tree, writes))}
    BY <1>2 DEF Formats
  <2> QED BY <1>2, <2>1
<1> QED BY <1>1, <1>2

\* The store and the event that a client write computes.
LEMMA FormatCommitType ==
  ASSUME NEW n \in Nat, repo \in StoresTo(n), NEW writes \in Seq(WriteOps),
         NEW moved \in SUBSET Moved(repo.tree, Apply(repo.tree, writes)), NEW rev \in 0..n
  PROVE  /\ FormatCommit(writes, moved, rev).store \in StoresTo(n)
         /\ FormatCommit(writes, moved, rev).event \in CommitsTo(n)
         /\ FormatCommit(writes, moved, rev).snap = repo.rev
         /\ FormatCommit(writes, moved, rev).store.rev = rev
         /\ FormatCommit(writes, moved, rev).event.rev = rev
<1> DEFINE t       == FormatCommit(writes, moved, rev)
           after   == Apply(repo.tree, writes)
           removed == RemovedCids(repo.tree, after, moved)
           index   == Apply(repo.index, writes)
           blocks  == (repo.blocks \cup NewCids(repo.tree, after, moved))
                      \ (removed \ DuplicateCids(repo.index, removed, Touched(writes)))
           ops     == [i \in DOMAIN writes |->
                         [key |-> writes[i].key, cid |-> writes[i].cid,
                          prev |-> repo.index[writes[i].key]]]
<1>1. t = [snap |-> repo.rev,
           store |-> [rev |-> rev, signed |-> rev, tree |-> after, index |-> index,
                      blocks |-> blocks],
           event |-> [rev |-> rev, since |-> repo.signed, prevData |-> repo.tree,
                      data |-> after, ops |-> ops]]
  BY DEF FormatCommit
<1>2. /\ repo.rev \in 0..n /\ repo.signed \in 0..n
      /\ repo.tree \in Records /\ repo.index \in Records
      /\ repo.blocks \subseteq Cids
  BY DEF StoresTo
<1>3. after \in Records /\ index \in Records
  BY <1>2, ApplyType
<1>4. blocks \subseteq Cids
  <2>1. NewCids(repo.tree, after, moved) \subseteq Cids
    BY <1>2, <1>3, DiffType
  <2> QED BY <1>2, <2>1
<1>5. ops \in Seq([key : Rkeys, cid : Content, prev : Content])
  <2>1. \A i \in DOMAIN writes : writes[i].key \in Rkeys /\ writes[i].cid \in Content
    BY DEF WriteOps, Content
  <2>2. \A k \in Rkeys : repo.index[k] \in Content
    BY <1>2 DEF Records, Content
  <2>3. DOMAIN writes = 1..Len(writes) /\ Len(writes) \in Nat
    OBVIOUS
  <2> QED BY <2>1, <2>2, <2>3
<1> HIDE DEF t, after, index, blocks, ops
<1>6. t.store \in StoresTo(n)
  BY <1>1, <1>2, <1>3, <1>4 DEF StoresTo
<1>7. t.event \in CommitsTo(n)
  BY <1>1, <1>2, <1>3, <1>5 DEF CommitsTo
<1>8. t.snap = repo.rev /\ t.store.rev = rev /\ t.event.rev = rev
  BY <1>1
<1> QED BY <1>6, <1>7, <1>8 DEF t

\* The store that an import computes.
LEMMA FormatImportType ==
  ASSUME NEW n \in Nat, repo \in StoresTo(n), NEW tree \in Records,
         NEW moved \in SUBSET Moved(repo.tree, tree), NEW rev \in 0..n
  PROVE  /\ FormatImport(tree, moved, rev).store \in StoresTo(n)
         /\ FormatImport(tree, moved, rev).snap = repo.rev
         /\ FormatImport(tree, moved, rev).store.rev = rev
<1> DEFINE t      == FormatImport(tree, moved, rev)
           index  == [k \in Rkeys |-> IF k \in Changed(repo.tree, tree)
                                      THEN tree[k] ELSE repo.index[k]]
           blocks == (repo.blocks \cup NewCids(repo.tree, tree, moved))
                     \ RemovedCids(repo.tree, tree, moved)
<1>1. t = [snap |-> repo.rev,
           store |-> [rev |-> rev, signed |-> 0, tree |-> tree, index |-> index,
                      blocks |-> blocks],
           event |-> None]
  BY DEF FormatImport
<1>2. /\ repo.rev \in 0..n /\ repo.tree \in Records /\ repo.index \in Records
      /\ repo.blocks \subseteq Cids
  BY DEF StoresTo
<1>3. index \in Records
  BY <1>2 DEF Records
<1>4. blocks \subseteq Cids
  BY <1>2, DiffType
<1> HIDE DEF t, index, blocks
<1>5. t.store \in StoresTo(n) /\ t.snap = repo.rev /\ t.store.rev = rev
  BY <1>1, <1>2, <1>3, <1>4 DEF StoresTo
<1> QED BY <1>5 DEF t

LEMMA EventRev ==
  ASSUME NEW r, NEW rev, r.kind # "import", NEW t \in Formats(r, rev)
  PROVE  t.event.rev = rev
<1>1. PICK writes \in Writes(repo.index, r) :
        \E moved \in SUBSET Moved(repo.tree, Apply(repo.tree, writes)) :
          t = FormatCommit(writes, moved, rev)
  BY FormatsAre
<1> QED BY <1>1 DEF FormatCommit

\* Whatever a transaction computes.
LEMMA FormatsType ==
  ASSUME NEW n \in Nat, repo \in StoresTo(n), NEW r, IsRequest(r), NEW rev \in 0..n,
         NEW t \in Formats(r, rev)
  PROVE  /\ t.store \in StoresTo(n) /\ t.snap = repo.rev /\ t.store.rev = rev
         /\ r.kind # "import" => t.event \in CommitsTo(n) /\ t.event.rev = rev
<1>1. CASE r.kind = "import"
  <2>1. PICK moved \in SUBSET Moved(repo.tree, r.tree) : t = FormatImport(r.tree, moved, rev)
    BY <1>1, FormatsAre
  <2>2. r.tree \in Records
    BY <1>1 DEF IsRequest
  <2> QED BY <1>1, <2>1, <2>2, FormatImportType
<1>2. CASE r.kind # "import"
  <2>1. PICK writes \in Writes(repo.index, r) :
          \E moved \in SUBSET Moved(repo.tree, Apply(repo.tree, writes)) :
            t = FormatCommit(writes, moved, rev)
    BY <1>2, FormatsAre
  <2>2. writes \in Seq(WriteOps)
    BY <1>2, WritesType
  <2> QED BY <2>1, <2>2, FormatCommitType
<1> QED BY <1>1, <1>2

LEMMA RevisionsGrow ==
  ASSUME NEW n \in Nat
  PROVE  /\ StoresTo(n) \subseteq StoresTo(n + 1)
         /\ CommitsTo(n) \subseteq CommitsTo(n + 1)
         /\ Seq(CommitsTo(n)) \subseteq Seq(CommitsTo(n + 1))
         /\ Seq(0..n) \subseteq Seq(0..(n + 1))
<1>1. 0..n \subseteq 0..(n + 1)
  OBVIOUS
<1>2. StoresTo(n) \subseteq StoresTo(n + 1)
  BY <1>1 DEF StoresTo
<1>3. CommitsTo(n) \subseteq CommitsTo(n + 1)
  BY <1>1 DEF CommitsTo
<1> QED BY <1>1, <1>2, <1>3, SeqMonotonic
-----------------------------------------------------------------------------
LEMMA InitInv == Init => IInv /\ Budget
<1> SUFFICES ASSUME Init PROVE IInv /\ Budget
  OBVIOUS
<1> USE WriteAssumption
<1>1. EmptyRepo \in Records
  BY DEF EmptyRepo, Records
<1>2. repo \in StoresTo(0) /\ repo.index = repo.tree
  BY <1>1 DEF Init, StoresTo
<1>3. Shape
  <2>1. <<>> \in Seq(CommitsTo(0)) /\ <<>> \in Seq(0..0)
    OBVIOUS
  <2> QED BY <1>2, <2>1 DEF Init, Shape, Phases
<1>4. \A w \in Writers : phase[w] = "idle" /\ tries[w] = 0 /\ lock # w
  BY DEF Init
<1>5. Requested /\ TxnShape /\ ClientWrites /\ Locked /\ Snapshots /\ FreshRevs
  BY <1>4 DEF Requested, TxnShape, ClientWrites, Locked, Snapshots, FreshRevs,
              Formatted, Uncommitted, Unsequenced, Holding
<1>6. Indexed
  BY <1>2 DEF Indexed
<1>7. OnFirehose
  BY <1>4 DEF OnFirehose, Init
<1>8. Budget
  <2>1. Left = {}
    BY <1>4 DEF Left
  <2>2. IsFiniteSet(Left) /\ Cardinality(Left) = 0
    BY <2>1, FS_EmptySet
  <2>3. tries \in [Writers -> 0..MaxTries] /\ started \in 0..MaxRequests
    BY DEF Init
  <2>4. lastRev + Cardinality(Left) <= started * MaxTries
    BY <2>2 DEF Init
  <2> QED BY <1>4, <2>2, <2>3, <2>4 DEF Budget
<1> QED BY <1>3, <1>5, <1>6, <1>7, <1>8 DEF IInv

\* A client asks for what a request can be.
LEMMA RequestsAre ==
  ASSUME NEW r \in Requests
  PROVE  IsRequest(r)
<1> DEFINE Creates == [kind : {"create"}, key : Rkeys, cid : Cids, validate : BOOLEAN,
                       swapCommit : {None, repo.rev}]
           Puts(k) == [kind : {"put"}, key : {k}, cid : Cids,
                       swapCommit : {None, repo.rev}, swapRecord : {None, repo.index[k]}]
           Deletes(k) == [kind : {"delete"}, key : {k}, swapCommit : {None, repo.rev},
                          swapRecord : {None, repo.index[k]} \ {Gone}]
           Applies(n) == [kind : {"apply"}, writes : [1..n -> WriteOps],
                          swapCommit : {None, repo.rev}]
           Imports == [kind : {"import"}, tree : Records]
           All == Creates \cup (UNION {Puts(k) : k \in Rkeys})
                  \cup (UNION {Deletes(k) : k \in Rkeys})
                  \cup (UNION {Applies(n) : n \in 0..MaxWrites}) \cup Imports
<1>1. r \in All
  <2>1. Requests = {x \in All : x.kind \in Kinds}
    BY Zenon DEF Requests
  <2> HIDE DEF All
  <2> QED BY <2>1
<1>2. r \in Creates => IsRequest(r)
  BY DEF IsRequest
<1>3. \A k \in Rkeys : r \in Puts(k) => IsRequest(r)
  BY DEF IsRequest
<1>4. \A k \in Rkeys : r \in Deletes(k) => IsRequest(r)
  BY DEF IsRequest
<1>5. \A n \in 0..MaxWrites : r \in Applies(n) => IsRequest(r)
  <2>1. \A n \in 0..MaxWrites : [1..n -> WriteOps] \subseteq Seq(WriteOps)
    BY WriteAssumption
  <2> QED BY <2>1 DEF IsRequest
<1>6. r \in Imports => IsRequest(r)
  BY DEF IsRequest
<1> HIDE DEF Creates, Puts, Deletes, Applies, Imports, All
<1> QED BY <1>1, <1>2, <1>3, <1>4, <1>5, <1>6 DEF All
-----------------------------------------------------------------------------
\* What a writer has computed does not change while the store does not.
LEMMA ComputedSame ==
  ASSUME NEW v, repo' = repo, req'[v] = req[v], txn'[v] = txn[v]
  PROVE  Computed(v)' <=> Computed(v)
<1>1. SwapFails(req[v])' <=> SwapFails(req[v])
  BY DEF SwapFails
<1>2. RevOf(v)' = RevOf(v)
  BY DEF RevOf
<1>3. Formats(req[v], RevOf(v))' = Formats(req[v], RevOf(v))
  BY <1>2 DEF Formats, FormatImport, FormatCommit
<1> QED BY <1>1, <1>2, <1>3 DEF Computed

\* A step of w that leaves the store and the firehose alone: the request ends, or
\* the transaction is to run again.
Back(w) ==
  /\ phase[w] # "idle"
  /\ UNCHANGED <<repo, commits, events, lastRev, started>>
  /\ accountRoot' \in 0..lastRev
  /\ lock' = IF phase[w] \in Holding THEN None ELSE lock
  /\ Retry(w)
  /\ faults' \in 0..MaxFaults

LEMMA BackWriters ==
  ASSUME Shape, NEW w \in Writers, Back(w)
  PROVE  /\ phase' \in [Writers -> Phases]
         /\ req' = [v \in Writers |-> req'[v]]
         /\ txn' = [v \in Writers |-> txn'[v]]
         /\ phase'[w] \in {"idle", "begin"}
         /\ phase'[w] = "begin" => req'[w] = req[w]
         /\ \A v \in Writers \ {w} :
              phase'[v] = phase[v] /\ req'[v] = req[v] /\ txn'[v] = txn[v]
<1>1. /\ phase \in [Writers -> Phases]
      /\ req = [v \in Writers |-> req[v]]
      /\ txn = [v \in Writers |-> txn[v]]
  BY DEF Shape
<1>2. CASE Finish(w)
  BY <1>1, <1>2 DEF Finish, Phases
<1>3. CASE /\ tries[w] < MaxTries
           /\ phase' = [phase EXCEPT ![w] = "begin"]
           /\ txn' = [txn EXCEPT ![w] = None]
           /\ UNCHANGED <<req, tries>>
  BY <1>1, <1>3 DEF Phases
<1> QED BY <1>2, <1>3 DEF Back, Retry

LEMMA BackInv ==
  ASSUME IInv, NEW w \in Writers, Back(w)
  PROVE  IInv'
<1> USE DEF IInv
<1>1. /\ repo' = repo /\ commits' = commits /\ events' = events
      /\ accountRoot' \in 0..lastRev /\ lastRev' = lastRev
      /\ faults' \in 0..MaxFaults
      /\ lock' = IF phase[w] \in Holding THEN None ELSE lock
      /\ phase[w] # "idle"
  BY DEF Back
<1>2. /\ phase' \in [Writers -> Phases]
      /\ req' = [v \in Writers |-> req'[v]]
      /\ txn' = [v \in Writers |-> txn'[v]]
      /\ phase'[w] \in {"idle", "begin"}
      /\ phase'[w] = "begin" => req'[w] = req[w]
      /\ \A v \in Writers \ {w} :
           phase'[v] = phase[v] /\ req'[v] = req[v] /\ txn'[v] = txn[v]
  BY BackWriters
<1>3. phase'[w] \notin Formatted /\ phase'[w] \notin Holding /\ phase'[w] # "sequenced"
      /\ phase'[w] # "root" /\ phase'[w] \notin Uncommitted
      /\ phase'[w] \notin Unsequenced
  BY <1>2 DEF Formatted, Holding, Uncommitted, Unsequenced
<1>4. Shape'
  BY <1>1, <1>2 DEF Shape
<1>5. Requested'
  BY <1>1, <1>2 DEF Requested
<1>6. TxnShape'
  BY <1>1, <1>2, <1>3 DEF TxnShape
<1>7. ClientWrites'
  BY <1>2, <1>3 DEF ClientWrites
<1>8. Locked'
  <2>1. w # None
    BY WriteAssumption
  <2> QED BY <1>1, <1>2, <1>3, <2>1, WriteAssumption DEF Locked
<1>9. Snapshots'
  <2>1. \A v \in Writers \ {w} : RevOf(v)' = RevOf(v) /\ (Computed(v)' <=> Computed(v))
    BY <1>1, <1>2, ComputedSame DEF RevOf
  <2> QED BY <1>1, <1>2, <1>3, <2>1 DEF Snapshots
<1>10. Indexed'
  BY <1>1 DEF Indexed
<1>11. FreshRevs'
  <2>1. \A v \in Writers \ {w} : RevOf(v)' = RevOf(v)
    BY <1>2 DEF RevOf
  <2>2. \A r : Committed(r)' <=> Committed(r)
    BY <1>1 DEF Committed
  <2> QED BY <1>1, <1>2, <1>3, <2>1, <2>2 DEF FreshRevs
<1>12. OnFirehose'
  BY <1>1, <1>2, <1>3 DEF OnFirehose
<1> QED BY <1>4, <1>5, <1>6, <1>7, <1>8, <1>9, <1>10, <1>11, <1>12

LEMMA StartInv ==
  ASSUME IInv, NEW w \in Writers, Start(w)
  PROVE  IInv'
<1> USE DEF IInv
<1>1. PICK r \in Requests : req' = [req EXCEPT ![w] = r]
  BY DEF Start
<1>2. /\ phase[w] = "idle" /\ phase' = [phase EXCEPT ![w] = "begin"]
      /\ repo' = repo /\ lock' = lock /\ commits' = commits /\ txn' = txn
      /\ events' = events /\ accountRoot' = accountRoot /\ lastRev' = lastRev
      /\ faults' = faults
  BY DEF Start, storeVars
<1>3. /\ phase'[w] = "begin" /\ req'[w] = r
      /\ \A v \in Writers \ {w} : phase'[v] = phase[v] /\ req'[v] = req[v]
      /\ phase' \in [Writers -> Phases]
      /\ req' = [v \in Writers |-> req'[v]]
  BY <1>1, <1>2 DEF Shape, Phases
<1>4. Shape'
  BY <1>2, <1>3 DEF Shape
<1>5. Requested'
  BY <1>3, RequestsAre DEF Requested
<1>6. TxnShape'
  BY <1>2, <1>3 DEF TxnShape, Formatted
<1>7. ClientWrites'
  BY <1>2, <1>3 DEF ClientWrites
<1>8. Locked'
  BY <1>2, <1>3 DEF Locked, Holding
<1>9. Snapshots'
  <2>1. \A v \in Writers \ {w} : RevOf(v)' = RevOf(v) /\ (Computed(v)' <=> Computed(v))
    BY <1>2, <1>3, ComputedSame DEF RevOf
  <2> QED BY <1>2, <1>3, <2>1 DEF Snapshots, Uncommitted
<1>10. Indexed'
  BY <1>2 DEF Indexed
<1>11. FreshRevs'
  <2>1. \A v \in Writers : RevOf(v)' = RevOf(v)
    BY <1>2 DEF RevOf
  <2>2. \A n : Committed(n)' <=> Committed(n)
    BY <1>2 DEF Committed
  <2> QED BY <1>2, <1>3, <2>1, <2>2 DEF FreshRevs, Formatted, Uncommitted, Unsequenced
<1>12. OnFirehose'
  BY <1>2, <1>3 DEF OnFirehose
<1> QED BY <1>4, <1>5, <1>6, <1>7, <1>8, <1>9, <1>10, <1>11, <1>12

LEMMA CrashInv ==
  ASSUME IInv, Crash
  PROVE  IInv'
<1> USE DEF IInv
<1>1. /\ repo' = repo /\ commits' = commits /\ events' = events /\ lock' = None
      /\ accountRoot' = accountRoot /\ lastRev' = lastRev
      /\ faults' = faults + 1 /\ faults < MaxFaults
      /\ phase' = [w \in Writers |-> "idle"]
      /\ req' = [w \in Writers |-> None]
      /\ txn' = [w \in Writers |-> None]
  BY DEF Crash
<1>2. Shape'
  BY <1>1, WriteAssumption DEF Shape, Phases
<1>3. \A w \in Writers : phase'[w] = "idle"
  BY <1>1
<1>4. Requested' /\ TxnShape' /\ ClientWrites' /\ Snapshots' /\ FreshRevs'
  BY <1>3 DEF Requested, TxnShape, ClientWrites, Snapshots, FreshRevs,
              Formatted, Uncommitted, Unsequenced
<1>5. Locked'
  BY <1>1, <1>3, WriteAssumption DEF Locked, Holding
<1>6. Indexed' /\ OnFirehose'
  BY <1>1, <1>3 DEF Indexed, OnFirehose
<1> QED BY <1>2, <1>4, <1>5, <1>6

\* The commit that is computed fits the request and the store as they are.
LEMMA FormatInv ==
  ASSUME IInv, NEW w \in Writers, Format(w)
  PROVE  IInv'
<1> USE DEF IInv
<1> DEFINE rev == lastRev + 1
           r == req[w]
<1>0. PICK t \in Formats(r, rev) : txn' = [txn EXCEPT ![w] = t]
  BY DEF Format
<1>1. /\ phase[w] = "begin" /\ phase' = [phase EXCEPT ![w] = "formatted"]
      /\ ~SwapFails(r)
      /\ lastRev' = rev
      /\ txn' = [txn EXCEPT ![w] = t]
      /\ repo' = repo /\ lock' = lock /\ commits' = commits /\ req' = req
      /\ events' = events /\ accountRoot' = accountRoot
      /\ faults' = faults
  BY <1>0 DEF Format, storeVars
<1>2. /\ phase'[w] = "formatted" /\ txn'[w] = t
      /\ \A v \in Writers \ {w} : phase'[v] = phase[v] /\ txn'[v] = txn[v]
      /\ phase' \in [Writers -> Phases]
      /\ txn' = [v \in Writers |-> txn'[v]]
  BY <1>1 DEF Shape, Phases
<1>3. /\ lastRev \in Nat /\ rev \in Nat /\ rev \in 0..rev /\ 0..lastRev \subseteq 0..rev
      /\ repo \in StoresTo(lastRev) /\ repo \in StoresTo(rev)
      /\ events \in Seq(CommitsTo(rev)) /\ commits \in Seq(0..rev)
  BY RevisionsGrow DEF Shape
<1>4. IsRequest(r)
  BY <1>1 DEF Requested
<1>5. /\ t.store \in StoresTo(rev) /\ t.snap = repo.rev /\ t.store.rev = rev
      /\ r.kind # "import" => t.event \in CommitsTo(rev)
  BY <1>3, <1>4, FormatsType
<1>6. repo.rev \in 0..lastRev
  BY <1>3 DEF StoresTo
<1>7. Shape'
  BY <1>1, <1>2, <1>3 DEF Shape
<1>8. Requested'
  BY <1>1, <1>2 DEF Requested
<1>9. TxnShape'
  <2>1. /\ txn'[w].snap \in 0..lastRev'
        /\ txn'[w].store \in StoresTo(lastRev')
        /\ req'[w].kind # "import" => txn'[w].event \in CommitsTo(lastRev')
    BY <1>1, <1>2, <1>3, <1>5, <1>6
  <2>2. ASSUME NEW v \in Writers \ {w}, phase'[v] \in Formatted
        PROVE  /\ txn'[v].snap \in 0..lastRev'
               /\ txn'[v].store \in StoresTo(lastRev')
               /\ req'[v].kind # "import" => txn'[v].event \in CommitsTo(lastRev')
    BY <1>1, <1>2, <1>3, <2>2, RevisionsGrow DEF TxnShape
  <2> QED BY <2>1, <2>2 DEF TxnShape
<1>10. ClientWrites'
  BY <1>1, <1>2 DEF ClientWrites
<1>11. Locked'
  BY <1>1, <1>2 DEF Locked, Holding
<1>12. RevOf(w)' = rev /\ \A v \in Writers \ {w} : RevOf(v)' = RevOf(v)
  BY <1>2, <1>5 DEF RevOf
<1>13. Snapshots'
  <2>1. Computed(w)'
    <3>1. repo' = repo /\ req'[w] = r /\ RevOf(w)' = rev
      BY <1>1, <1>12
    <3> HIDE DEF rev, r
    <3>2. SwapFails(req[w])' <=> SwapFails(r)
      BY <3>1 DEF SwapFails
    <3>3. Formats(req[w], RevOf(w))' = Formats(r, rev)
      BY <3>1 DEF Formats, FormatImport, FormatCommit
    <3> QED BY <1>1, <1>2, <3>1, <3>2, <3>3 DEF Computed
  <2>2. \A v \in Writers \ {w} : Computed(v)' <=> Computed(v)
    BY <1>1, <1>2, ComputedSame
  <2>3. txn'[w].snap = repo.rev /\ repo' = repo /\ repo.rev < rev
    BY <1>1, <1>2, <1>3, <1>5, <1>6
  <2> HIDE DEF rev, r
  <2> QED BY <1>2, <1>6, <1>12, <2>1, <2>2, <2>3 DEF Snapshots, Uncommitted
<1>14. Indexed'
  BY <1>1 DEF Indexed
<1>15. FreshRevs'
  <2>1. \A n : Committed(n)' <=> Committed(n)
    BY <1>1 DEF Committed
  <2>2. ~Committed(rev)
    BY <1>3 DEF Committed, Shape
  <2>3. \A v \in Writers \ {w} : phase[v] \in Formatted => RevOf(v) # rev
    BY <1>3 DEF TxnShape, StoresTo, RevOf
  <2>4. \A i \in DOMAIN events : events[i].rev # rev
    <3>1. \A i \in DOMAIN events : events[i] \in CommitsTo(lastRev)
      BY DEF Shape
    <3> QED BY <1>3, <3>1 DEF CommitsTo
  <2> HIDE DEF rev, r
  <2> QED BY <1>1, <1>2, <1>12, <2>1, <2>2, <2>3, <2>4
          DEF FreshRevs, Formatted, Uncommitted, Unsequenced
<1>16. OnFirehose'
  BY <1>1, <1>2 DEF OnFirehose
<1> QED BY <1>7, <1>8, <1>9, <1>10, <1>11, <1>13, <1>14, <1>15, <1>16

LEMMA WriteInv ==
  ASSUME IInv, NEW w \in Writers, Write(w)
  PROVE  IInv'
<1> USE DEF IInv
<1>1. /\ phase[w] = "formatted" /\ phase' = [phase EXCEPT ![w] = "written"]
      /\ lock = None /\ lock' = w /\ txn[w].snap = repo.rev
      /\ repo' = repo /\ commits' = commits /\ req' = req /\ txn' = txn
      /\ events' = events /\ accountRoot' = accountRoot /\ lastRev' = lastRev
      /\ faults' = faults
  BY DEF Write, Stale
<1>2. /\ phase'[w] = "written" /\ \A v \in Writers \ {w} : phase'[v] = phase[v]
      /\ phase' \in [Writers -> Phases]
  BY <1>1 DEF Shape, Phases
<1>3. Shape'
  BY <1>1, <1>2 DEF Shape
<1>4. Requested' /\ TxnShape' /\ ClientWrites'
  BY <1>1, <1>2 DEF Requested, TxnShape, ClientWrites, Formatted
<1>5. Locked'
  BY <1>1, <1>2, WriteAssumption DEF Locked, Holding
<1>6. \A v \in Writers : RevOf(v)' = RevOf(v) /\ (Computed(v)' <=> Computed(v))
  BY <1>1, ComputedSame DEF RevOf
<1>7. Snapshots'
  BY <1>1, <1>2, <1>6 DEF Snapshots, Uncommitted
<1>8. Indexed'
  BY <1>1 DEF Indexed
<1>9. FreshRevs'
  <2>1. \A n : Committed(n)' <=> Committed(n)
    BY <1>1 DEF Committed
  <2> QED BY <1>1, <1>2, <1>6, <2>1 DEF FreshRevs, Formatted, Uncommitted, Unsequenced
<1>10. OnFirehose'
  BY <1>1, <1>2 DEF OnFirehose
<1> QED BY <1>3, <1>4, <1>5, <1>7, <1>8, <1>9, <1>10

LEMMA AppendIs ==
  ASSUME NEW S, NEW s \in Seq(S), NEW e \in S
  PROVE  /\ Append(s, e) \in Seq(S)
         /\ Len(s) \in Nat /\ Len(Append(s, e)) = Len(s) + 1
         /\ DOMAIN s = 1..Len(s)
         /\ DOMAIN Append(s, e) = 1..(Len(s) + 1)
         /\ Append(s, e)[Len(s) + 1] = e
         /\ \A i \in 1..Len(s) : Append(s, e)[i] = s[i]
OBVIOUS

\* No other writer holds the lock.
LEMMA OneHolder ==
  ASSUME Locked, NEW w \in Writers, phase[w] \in Holding
  PROVE  \A v \in Writers \ {w} : phase[v] \notin Holding
BY DEF Locked

LEMMA SequenceCommitInv ==
  ASSUME IInv, NEW w \in Writers, SequenceCommit(w)
  PROVE  IInv'
<1> USE DEF IInv
<1> DEFINE e == txn[w].event
           n == Len(events)
<1>1. /\ phase[w] = "written" /\ phase' = [phase EXCEPT ![w] = "sequenced"]
      /\ req[w].kind # "import" /\ events' = Append(events, e)
      /\ repo' = repo /\ lock' = lock /\ commits' = commits /\ req' = req /\ txn' = txn
      /\ accountRoot' = accountRoot /\ lastRev' = lastRev
      /\ faults' = faults
  BY DEF SequenceCommit, storeVars
<1>2. /\ phase'[w] = "sequenced" /\ \A v \in Writers \ {w} : phase'[v] = phase[v]
      /\ phase' \in [Writers -> Phases]
  BY <1>1 DEF Shape, Phases
<1>3. e \in CommitsTo(lastRev)
  BY <1>1 DEF TxnShape, Formatted
<1>4. /\ events' \in Seq(CommitsTo(lastRev)) /\ n \in Nat
      /\ DOMAIN events = 1..n /\ DOMAIN events' = 1..(n + 1)
      /\ Len(events') = n + 1
      /\ events'[n + 1] = e /\ \A i \in 1..n : events'[i] = events[i]
  BY <1>1, <1>3, AppendIs DEF Shape
<1>5. e.rev = RevOf(w)
  <2>1. Computed(w)
    BY <1>1 DEF Snapshots, Uncommitted, Holding
  <2>2. txn[w] \in Formats(req[w], RevOf(w))
    BY <1>1, <2>1 DEF Computed
  <2> QED BY <1>1, <2>2, EventRev
<1>6. \A i \in 1..n : events[i].rev # RevOf(w)
  BY <1>1, <1>4 DEF FreshRevs, Unsequenced
<1>7. \A v \in Writers : RevOf(v)' = RevOf(v) /\ (Computed(v)' <=> Computed(v))
  BY <1>1, ComputedSame DEF RevOf
<1>8. Shape'
  BY <1>1, <1>2, <1>4 DEF Shape
<1>9. Requested' /\ TxnShape' /\ ClientWrites'
  BY <1>1, <1>2 DEF Requested, TxnShape, ClientWrites, Formatted
<1>10. Locked'
  BY <1>1, <1>2 DEF Locked, Holding
<1>11. Snapshots'
  BY <1>1, <1>2, <1>7 DEF Snapshots, Uncommitted, Holding
<1>12. Indexed'
  BY <1>1 DEF Indexed
<1>13. FreshRevs'
  <2>1. \A m : Committed(m)' <=> Committed(m)
    BY <1>1 DEF Committed
  <2>2. \A v \in Writers : phase'[v] \in Formatted => phase[v] \in Formatted
    BY <1>1, <1>2 DEF Formatted
  <2>3. \A v \in Writers : phase'[v] \in Uncommitted => phase[v] \in Uncommitted
    BY <1>1, <1>2 DEF Uncommitted
  <2>4. \A v \in Writers : phase'[v] \in Unsequenced =>
          phase[v] \in Unsequenced /\ v # w /\ phase[v] \in Formatted
    BY <1>1, <1>2 DEF Unsequenced, Formatted
  <2>5. phase[w] \in Formatted
    BY <1>1 DEF Formatted
  <2>6. ASSUME NEW v \in Writers, phase'[v] \in Unsequenced, NEW i \in DOMAIN events'
        PROVE  events'[i].rev # RevOf(v)'
    <3>1. RevOf(v) # RevOf(w) /\ \A j \in DOMAIN events : events[j].rev # RevOf(v)
      BY <2>4, <2>5, <2>6 DEF FreshRevs
    <3> QED BY <1>4, <1>5, <1>7, <2>6, <3>1
  <2> QED BY <1>7, <2>1, <2>2, <2>3, <2>6 DEF FreshRevs
<1>14. OnFirehose'
  <2> HIDE DEF e, n
  <2>1. \A i, j \in DOMAIN events' : events'[i].rev = events'[j].rev => i = j
    <3>1. TAKE i, j \in DOMAIN events'
    <3>2. CASE i \in 1..n /\ j \in 1..n
      BY <1>4, <3>2 DEF OnFirehose
    <3>3. CASE i = n + 1 \/ j = n + 1
      BY <1>4, <1>5, <1>6, <3>3
    <3> QED BY <1>4, <3>2, <3>3
  <2>2. \A i \in DOMAIN commits' : \E j \in DOMAIN events' : events'[j].rev = commits'[i]
    <3>1. TAKE i \in DOMAIN commits'
    <3>2. PICK j \in DOMAIN events : events[j].rev = commits[i]
      BY <1>1 DEF OnFirehose
    <3>3. j \in DOMAIN events' /\ events'[j] = events[j]
      BY <1>4, <3>2
    <3> QED BY <1>1, <3>2, <3>3
  <2>3. ASSUME NEW v \in Writers, phase'[v] = "sequenced"
        PROVE  events' # <<>> /\ events'[Len(events')] = txn'[v].event
    <3>1. v = w
      BY <1>1, <1>2, <2>3, OneHolder DEF Holding
    <3>2. events' # <<>>
      BY <1>4
    <3> QED BY <1>1, <1>4, <3>1, <3>2 DEF e
  <2> QED BY <2>1, <2>2, <2>3 DEF OnFirehose
<1> QED BY <1>8, <1>9, <1>10, <1>11, <1>12, <1>13, <1>14

\* What is about to be committed was computed on the store as it is.
LEMMA CommitsComputed ==
  ASSUME IInv, NEW w \in Writers, Commit(w)
  PROVE  /\ phase[w] \in Holding /\ phase[w] \in Uncommitted /\ phase[w] \in Formatted
         /\ txn[w].snap = repo.rev /\ repo.rev < RevOf(w)
         /\ Computed(w)
         /\ IsRequest(req[w])
         /\ txn[w].store \in StoresTo(lastRev)
<1> USE DEF IInv
<1>1. phase[w] \in {"written", "sequenced"}
  BY DEF Commit
<1> QED BY <1>1 DEF Holding, Uncommitted, Formatted, Snapshots, Requested, TxnShape

\* A store that is computed from one whose records are those of the tree is one.
LEMMA ComputedIndexed ==
  ASSUME Indexed, NEW w, Computed(w), IsRequest(req[w]), NEW n \in Nat,
         repo \in StoresTo(n)
  PROVE  txn[w].store.index = txn[w].store.tree
<1>1. CASE req[w].kind # "import"
  <2>1. PICK writes \in Writes(repo.index, req[w]) :
          \E moved \in SUBSET Moved(repo.tree, Apply(repo.tree, writes)) :
            txn[w] = FormatCommit(writes, moved, RevOf(w))
    BY <1>1, FormatsAre DEF Computed
  <2> QED BY <2>1 DEF FormatCommit, Indexed
<1>2. CASE req[w].kind = "import"
  <2> DEFINE tree == req[w].tree
  <2>1. PICK moved \in SUBSET Moved(repo.tree, tree) :
          txn[w] = FormatImport(tree, moved, RevOf(w))
    BY <1>2, FormatsAre DEF Computed
  <2>2. tree \in Records /\ repo.index = repo.tree
    BY <1>2 DEF IsRequest, Indexed
  <2>3. /\ txn[w].store.index = [k \in Rkeys |-> IF k \in Changed(repo.tree, tree)
                                                THEN tree[k] ELSE repo.index[k]]
        /\ txn[w].store.tree = tree
    BY <2>1 DEF FormatImport
  <2>4. tree = [k \in Rkeys |-> tree[k]]
    BY <2>2 DEF Records
  <2> HIDE DEF tree
  <2> QED BY <2>2, <2>3, <2>4 DEF Changed
<1> QED BY <1>1, <1>2

LEMMA CommitWriters ==
  ASSUME Shape, NEW w \in Writers, Commit(w)
  PROVE  /\ phase' \in [Writers -> Phases]
         /\ req' = [v \in Writers |-> req'[v]]
         /\ txn' = [v \in Writers |-> txn'[v]]
         /\ \A v \in Writers \ {w} :
              phase'[v] = phase[v] /\ req'[v] = req[v] /\ txn'[v] = txn[v]
         /\ req[w].kind = "import" => phase'[w] = "idle" /\ commits' = commits
         /\ req[w].kind # "import" =>
              /\ phase[w] = "sequenced" /\ phase'[w] = "root"
              /\ req'[w] = req[w] /\ txn'[w] = txn[w]
              /\ commits' = Append(commits, RevOf(w))
<1>1. /\ phase \in [Writers -> Phases]
      /\ req = [v \in Writers |-> req[v]]
      /\ txn = [v \in Writers |-> txn[v]]
  BY DEF Shape
<1>2. CASE req[w].kind = "import"
  BY <1>1, <1>2 DEF Commit, Finish, Phases
<1>3. CASE req[w].kind # "import"
  BY <1>1, <1>3 DEF Commit, Phases, RevOf
<1> QED BY <1>2, <1>3

LEMMA CommitInv ==
  ASSUME IInv, NEW w \in Writers, Commit(w)
  PROVE  IInv'
<1> USE DEF IInv
<1> DEFINE n == Len(commits)
<1>1. /\ repo' = txn[w].store /\ lock' = None
      /\ events' = events /\ accountRoot' = accountRoot /\ lastRev' = lastRev
      /\ faults' = faults
  BY DEF Commit
<1>2. /\ phase' \in [Writers -> Phases]
      /\ req' = [v \in Writers |-> req'[v]]
      /\ txn' = [v \in Writers |-> txn'[v]]
      /\ \A v \in Writers \ {w} :
           phase'[v] = phase[v] /\ req'[v] = req[v] /\ txn'[v] = txn[v]
      /\ req[w].kind = "import" => phase'[w] = "idle" /\ commits' = commits
      /\ req[w].kind # "import" =>
           /\ phase[w] = "sequenced" /\ phase'[w] = "root"
           /\ req'[w] = req[w] /\ txn'[w] = txn[w]
           /\ commits' = Append(commits, RevOf(w))
  BY CommitWriters
<1>3. /\ phase[w] \in Holding /\ phase[w] \in Uncommitted /\ phase[w] \in Formatted
      /\ txn[w].snap = repo.rev /\ repo.rev < RevOf(w)
      /\ Computed(w)
      /\ IsRequest(req[w])
      /\ txn[w].store \in StoresTo(lastRev)
  BY CommitsComputed
<1>4. RevOf(w) \in 0..lastRev /\ repo'.rev = RevOf(w) /\ lastRev \in Nat
  BY <1>1, <1>3 DEF RevOf, StoresTo, Shape
<1>5. /\ commits' \in Seq(0..lastRev)
      /\ \A m : Committed(m)' => Committed(m) \/ (req[w].kind # "import" /\ m = RevOf(w))
  <2>1. CASE req[w].kind = "import"
    BY <1>2, <2>1 DEF Shape, Committed
  <2>2. CASE req[w].kind # "import"
    <3>0. commits \in Seq(0..lastRev) /\ commits' = Append(commits, RevOf(w))
      BY <1>2, <2>2 DEF Shape
    <3>1. /\ commits' \in Seq(0..lastRev) /\ n \in Nat
          /\ DOMAIN commits = 1..n /\ DOMAIN commits' = 1..(n + 1)
          /\ commits'[n + 1] = RevOf(w) /\ \A i \in 1..n : commits'[i] = commits[i]
      BY <1>4, <3>0, AppendIs
    <3> HIDE DEF n
    <3> QED BY <2>2, <3>1 DEF Committed
  <2> QED BY <2>1, <2>2
<1>6. \A v \in Writers \ {w} : RevOf(v)' = RevOf(v)
  BY <1>2 DEF RevOf
<1>7. phase'[w] \notin Uncommitted /\ phase'[w] \notin Unsequenced /\ phase'[w] # "sequenced"
      /\ phase'[w] \notin Holding
  BY <1>2 DEF Uncommitted, Unsequenced, Holding
<1>8. Shape'
  BY <1>1, <1>2, <1>3, <1>5 DEF Shape
<1>9. Requested'
  BY <1>2, <1>3 DEF Requested
<1>10. TxnShape'
  <2>1. ASSUME NEW v \in Writers \ {w}, phase'[v] \in Formatted
        PROVE  /\ txn'[v].snap \in 0..lastRev'
               /\ txn'[v].store \in StoresTo(lastRev')
               /\ req'[v].kind # "import" => txn'[v].event \in CommitsTo(lastRev')
    BY <1>1, <1>2, <2>1 DEF TxnShape
  <2>2. ASSUME phase'[w] \in Formatted
        PROVE  /\ txn'[w].snap \in 0..lastRev'
               /\ txn'[w].store \in StoresTo(lastRev')
               /\ req'[w].kind # "import" => txn'[w].event \in CommitsTo(lastRev')
    BY <1>1, <1>2, <1>3, <2>2 DEF TxnShape, Formatted
  <2> QED BY <2>1, <2>2 DEF TxnShape
<1>11. ClientWrites'
  BY <1>2 DEF ClientWrites
<1>12. \A v \in Writers \ {w} : phase[v] \notin Holding
  BY <1>3, OneHolder
<1>13. Locked'
  BY <1>1, <1>2, <1>7, <1>12, WriteAssumption DEF Locked
<1>14. Snapshots'
  <2>1. ASSUME NEW v \in Writers, phase'[v] \in Uncommitted
        PROVE  /\ txn'[v].snap <= repo'.rev
               /\ txn'[v].snap < RevOf(v)'
               /\ phase'[v] \notin Holding
               /\ txn'[v].snap # repo'.rev
    <3>1. v # w /\ phase[v] \in Uncommitted
      BY <1>2, <1>7, <2>1
    <3>2. txn[v].snap <= repo.rev /\ txn[v].snap < RevOf(v) /\ txn[v].snap \in 0..lastRev
      BY <3>1 DEF Snapshots, TxnShape, Uncommitted, Formatted
    <3>3. repo.rev \in 0..lastRev
      BY DEF Shape, StoresTo
    <3> QED BY <1>2, <1>3, <1>4, <1>6, <1>12, <3>1, <3>2, <3>3
  <2> QED BY <2>1 DEF Snapshots
<1>15. Indexed'
  <2>1. txn[w].store.index = txn[w].store.tree
    BY <1>3, <1>4, ComputedIndexed DEF Shape
  <2> QED BY <1>1, <2>1 DEF Indexed
<1>16. FreshRevs'
  <2>1. \A v \in Writers : phase'[v] \in Formatted =>
          phase[v] \in Formatted /\ RevOf(v)' = RevOf(v)
    BY <1>2, <1>3, <1>6 DEF Formatted, RevOf
  <2>2. \A v \in Writers : phase'[v] \in Uncommitted =>
          v # w /\ phase[v] \in Uncommitted /\ phase[v] \in Formatted
    BY <1>2, <1>7 DEF Uncommitted, Formatted
  <2>3. \A v \in Writers : phase'[v] \in Unsequenced => v # w /\ phase[v] \in Unsequenced
    BY <1>2, <1>7
  <2>4. ASSUME NEW v \in Writers, NEW u \in Writers, u # v,
               phase'[u] \in Formatted, phase'[v] \in Formatted
        PROVE  RevOf(u)' # RevOf(v)'
    BY <2>1, <2>4 DEF FreshRevs
  <2>5. ASSUME NEW v \in Writers, phase'[v] \in Uncommitted
        PROVE  ~Committed(RevOf(v))'
    <3>1. v # w /\ RevOf(v)' = RevOf(v) /\ RevOf(v) # RevOf(w) /\ ~Committed(RevOf(v))
      BY <1>3, <1>6, <2>2, <2>5 DEF FreshRevs
    <3> QED BY <1>5, <3>1 DEF Committed
  <2>6. ASSUME NEW v \in Writers, phase'[v] \in Unsequenced
        PROVE  \A i \in DOMAIN events' : events'[i].rev # RevOf(v)'
    BY <1>1, <1>6, <2>3, <2>6 DEF FreshRevs
  <2> QED BY <2>4, <2>5, <2>6 DEF FreshRevs
<1>17. OnFirehose'
  <2>1. \A i, j \in DOMAIN events' : events'[i].rev = events'[j].rev => i = j
    BY <1>1 DEF OnFirehose
  <2>2. \A i \in DOMAIN commits' : \E j \in DOMAIN events' : events'[j].rev = commits'[i]
    <3>1. TAKE i \in DOMAIN commits'
    <3>2. Committed(commits'[i]) \/ (req[w].kind # "import" /\ commits'[i] = RevOf(w))
      BY <1>5 DEF Committed
    <3>3. CASE Committed(commits'[i])
      BY <1>1, <3>3 DEF Committed, OnFirehose
    <3>4. CASE req[w].kind # "import" /\ commits'[i] = RevOf(w)
      <4>1. events # <<>> /\ events[Len(events)] = txn[w].event
        BY <1>2, <3>4 DEF OnFirehose
      <4>2. txn[w].event.rev = RevOf(w)
        BY <1>3, <1>4, <3>4, FormatsType DEF Computed, Shape
      <4>3. Len(events) \in DOMAIN events
        BY <4>1 DEF Shape
      <4> QED BY <1>1, <3>4, <4>1, <4>2, <4>3
    <3> QED BY <3>2, <3>3, <3>4
  <2>3. \A v \in Writers : phase'[v] # "sequenced"
    BY <1>2, <1>7, <1>12 DEF Holding
  <2> QED BY <2>1, <2>2, <2>3 DEF OnFirehose
<1> QED BY <1>8, <1>9, <1>10, <1>11, <1>13, <1>14, <1>15, <1>16, <1>17
-----------------------------------------------------------------------------
LEMMA ProceedBack ==
  ASSUME Shape, TxnShape, NEW w \in Writers,
         \/ Refuse(w) \/ Busy(w) \/ Rollback(w) \/ CommitFails(w) \/ UpdateRepoRoot(w)
  PROVE  Back(w)
<1>1. lastRev \in Nat /\ accountRoot \in 0..lastRev /\ faults \in 0..MaxFaults
  BY DEF Shape
<1>2. CASE Refuse(w)
  BY <1>1, <1>2 DEF Refuse, Back, Retry, Holding, storeVars
<1>3. CASE Busy(w)
  BY <1>1, <1>3 DEF Busy, Back, Holding, storeVars
<1>4. CASE Rollback(w)
  BY <1>1, <1>4 DEF Rollback, Back, Holding
<1>5. CASE CommitFails(w)
  BY <1>1, <1>5, WriteAssumption DEF CommitFails, Back, Retry, Holding
<1>6. CASE UpdateRepoRoot(w)
  <2>1. txn[w].store.rev \in 0..lastRev
    BY <1>6 DEF UpdateRepoRoot, TxnShape, Formatted, StoresTo
  <2> QED BY <1>1, <1>6, <2>1 DEF UpdateRepoRoot, Back, Retry, Holding, storeVars
<1> QED BY <1>2, <1>3, <1>4, <1>5, <1>6

LEMMA NextInv == IInv /\ [Next]_vars => IInv'
<1> SUFFICES ASSUME IInv, [Next]_vars PROVE IInv'
  OBVIOUS
<1>1. ASSUME NEW w \in Writers, Start(w) PROVE IInv'
  BY <1>1, StartInv
<1>2. ASSUME NEW w \in Writers,
             \/ Refuse(w) \/ Busy(w) \/ Rollback(w) \/ CommitFails(w) \/ UpdateRepoRoot(w)
      PROVE  IInv'
  BY <1>2, ProceedBack, BackInv DEF IInv
<1>3. ASSUME NEW w \in Writers, Format(w) PROVE IInv'
  BY <1>3, FormatInv
<1>4. ASSUME NEW w \in Writers, Write(w) PROVE IInv'
  BY <1>4, WriteInv
<1>5. ASSUME NEW w \in Writers, SequenceCommit(w) PROVE IInv'
  BY <1>5, SequenceCommitInv
<1>6. ASSUME NEW w \in Writers, Commit(w) PROVE IInv'
  BY <1>6, CommitInv
<1>7. CASE Crash
  BY <1>7, CrashInv
<1>8. CASE UNCHANGED vars
  <2>1. /\ repo' = repo /\ lock' = lock /\ commits' = commits /\ phase' = phase
        /\ req' = req /\ txn' = txn /\ events' = events
        /\ accountRoot' = accountRoot /\ lastRev' = lastRev /\ faults' = faults
    BY <1>8 DEF vars, storeVars, reqVars
  <2>2. \A v \in Writers : RevOf(v)' = RevOf(v) /\ (Computed(v)' <=> Computed(v))
    BY <2>1, ComputedSame DEF RevOf
  <2>3. \A m : Committed(m)' <=> Committed(m)
    BY <2>1 DEF Committed
  <2>4. Shape' /\ Requested' /\ TxnShape' /\ ClientWrites' /\ Locked'
    BY <2>1 DEF IInv, Shape, Requested, TxnShape, ClientWrites, Locked
  <2>5. Snapshots'
    BY <2>1, <2>2 DEF IInv, Snapshots
  <2>6. Indexed' /\ OnFirehose'
    BY <2>1 DEF IInv, Indexed, OnFirehose
  <2>7. FreshRevs'
    BY <2>1, <2>2, <2>3 DEF IInv, FreshRevs
  <2> QED BY <2>4, <2>5, <2>6, <2>7 DEF IInv
<1> QED BY <1>1, <1>2, <1>3, <1>4, <1>5, <1>6, <1>7, <1>8 DEF Next, Proceed

\* The inductive invariant.
LEMMA Invariance == Spec => []IInv
<1>1. Init => IInv
  BY InitInv
<1> QED BY <1>1, NextInv, PTL DEF Spec
-----------------------------------------------------------------------------
(* A request runs its transaction at most MaxTries times, and each run takes  *)
(* one TID: what is given out and what may still be asked for stay within     *)
(* started * MaxTries.                                                        *)

LEMMA BudgetStart ==
  ASSUME Shape, Budget, NEW w \in Writers, Start(w)
  PROVE  Budget'
<1> DEFINE T == {w} \X (1..MaxTries)
<1>1. /\ phase[w] = "idle" /\ phase' = [phase EXCEPT ![w] = "begin"]
      /\ tries' = tries /\ lastRev' = lastRev
      /\ started' = started + 1 /\ started < MaxRequests
  BY DEF Start
<1>2. /\ phase'[w] = "begin" /\ \A v \in Writers \ {w} : phase'[v] = phase[v]
      /\ tries[w] = 0 /\ 0 < MaxTries /\ MaxTries \in Nat
  BY <1>1, WriteAssumption DEF Shape, Budget
<1>3. Left' \subseteq Left \cup T
  BY <1>1, <1>2 DEF Left
<1>4. IsFiniteSet(T) /\ Cardinality(T) = MaxTries
  <2>1. IsFiniteSet(1..MaxTries) /\ Cardinality(1..MaxTries) = MaxTries
    BY <1>2, FS_Interval
  <2>2. IsFiniteSet({w}) /\ Cardinality({w}) = 1
    BY FS_Singleton
  <2>3. IsFiniteSet(T) /\ Cardinality(T) = Cardinality({w}) * Cardinality(1..MaxTries)
    BY <2>1, <2>2, FS_Product
  <2> HIDE DEF T
  <2> QED BY <1>2, <2>1, <2>2, <2>3
<1>5. IsFiniteSet(Left) /\ lastRev + Cardinality(Left) <= started * MaxTries
  BY DEF Budget
<1> HIDE DEF T
<1>6. /\ IsFiniteSet(Left \cup T)
      /\ Cardinality(Left \cup T) <= Cardinality(Left) + MaxTries
  <2>1. IsFiniteSet(Left \cap T) /\ Cardinality(Left \cap T) \in Nat
    BY <1>4, FS_Intersection, FS_CardinalityType
  <2>2. /\ IsFiniteSet(Left \cup T)
        /\ Cardinality(Left \cup T)
             = Cardinality(Left) + Cardinality(T) - Cardinality(Left \cap T)
    BY <1>4, <1>5, FS_Union
  <2>3. Cardinality(Left) \in Nat
    BY <1>5, FS_CardinalityType
  <2> QED BY <1>2, <1>4, <2>1, <2>2, <2>3
<1>7. /\ IsFiniteSet(Left') /\ Cardinality(Left') \in Nat
      /\ Cardinality(Left') <= Cardinality(Left \cup T)
  BY <1>3, <1>6, FS_Subset, FS_CardinalityType
<1>8. lastRev' + Cardinality(Left') <= started' * MaxTries
  <2>1. Cardinality(Left) \in Nat /\ Cardinality(Left \cup T) \in Nat
    BY <1>5, <1>6, FS_CardinalityType
  <2>2. started \in Nat /\ lastRev \in Nat
    BY DEF Budget, Shape
  <2>3. started' * MaxTries = started * MaxTries + MaxTries
    BY <1>1, <1>2, <2>2
  <2>4. started * MaxTries \in Nat
    BY <1>2, <2>2
  <2> QED BY <1>1, <1>2, <1>5, <1>6, <1>7, <2>1, <2>2, <2>3, <2>4
<1>9. started' \in 0..MaxRequests
  BY <1>1, WriteAssumption DEF Budget
<1> QED BY <1>1, <1>2, <1>7, <1>8, <1>9 DEF Budget

LEMMA BudgetFormat ==
  ASSUME Shape, Budget, NEW w \in Writers, Format(w)
  PROVE  Budget'
<1> DEFINE x == <<w, tries[w] + 1>>
<1>1. /\ phase[w] = "begin" /\ phase' = [phase EXCEPT ![w] = "formatted"]
      /\ tries' = [tries EXCEPT ![w] = tries[w] + 1] /\ lastRev' = lastRev + 1
      /\ started' = started
  BY DEF Format
<1>2. /\ tries[w] \in 0..MaxTries /\ tries[w] < MaxTries /\ MaxTries \in Nat
  BY <1>1, WriteAssumption DEF Budget
<1>3. /\ phase'[w] = "formatted" /\ tries'[w] = tries[w] + 1
      /\ \A v \in Writers \ {w} : phase'[v] = phase[v] /\ tries'[v] = tries[v]
      /\ tries' \in [Writers -> 0..MaxTries]
  BY <1>1, <1>2 DEF Shape, Budget
<1>4. x \in Left
  BY <1>1, <1>2 DEF Left
<1>5. Left' \subseteq Left \ {x}
  <2>1. \A y \in Left' : y \in Left /\ y # x
    <3>1. TAKE y \in Left'
    <3>2. /\ y \in Writers \X (1..MaxTries) /\ phase'[y[1]] # "idle"
          /\ tries'[y[1]] < y[2]
      BY DEF Left
    <3>3. CASE y[1] = w
      BY <1>1, <1>2, <1>3, <3>2, <3>3 DEF Left
    <3>4. CASE y[1] # w
      BY <1>3, <3>2, <3>4 DEF Left
    <3> QED BY <3>3, <3>4
  <2> QED BY <2>1
<1>6. IsFiniteSet(Left) /\ Cardinality(Left) \in Nat
  BY FS_CardinalityType DEF Budget
<1>7. IsFiniteSet(Left \ {x}) /\ Cardinality(Left \ {x}) = Cardinality(Left) - 1
  BY <1>4, <1>6, FS_RemoveElement
<1>8. /\ IsFiniteSet(Left') /\ Cardinality(Left') \in Nat
      /\ Cardinality(Left') <= Cardinality(Left) - 1
  BY <1>5, <1>7, FS_Subset, FS_CardinalityType
<1>9. lastRev' + Cardinality(Left') <= started' * MaxTries
  <2>1. lastRev \in Nat /\ lastRev + Cardinality(Left) <= started * MaxTries
    BY DEF Shape, Budget
  <2>2. started * MaxTries \in Nat
    BY <1>2 DEF Budget
  <2> QED BY <1>1, <1>6, <1>8, <2>1, <2>2
<1> QED BY <1>1, <1>3, <1>8, <1>9 DEF Budget

LEMMA BudgetOther ==
  ASSUME Shape, Budget, tries' \in [Writers -> 0..MaxTries],
         lastRev' = lastRev, started' = started,
         \A w \in Writers :
           /\ phase'[w] = "idle" => tries'[w] = 0
           /\ phase'[w] = "begin" => tries'[w] < MaxTries
           /\ phase'[w] # "idle" => phase[w] # "idle" /\ tries'[w] = tries[w]
  PROVE  Budget'
<1>1. Left' \subseteq Left
  <2>1. \A y \in Left' : y \in Left
    <3>1. TAKE y \in Left'
    <3>2. /\ y \in Writers \X (1..MaxTries) /\ phase'[y[1]] # "idle"
          /\ tries'[y[1]] < y[2]
      BY DEF Left
    <3> QED BY <3>2 DEF Left
  <2> QED BY <2>1
<1>2. IsFiniteSet(Left) /\ Cardinality(Left) \in Nat
  BY FS_CardinalityType DEF Budget
<1>3. /\ IsFiniteSet(Left') /\ Cardinality(Left') \in Nat
      /\ Cardinality(Left') <= Cardinality(Left)
  BY <1>1, <1>2, FS_Subset, FS_CardinalityType
<1>4. lastRev' + Cardinality(Left') <= started' * MaxTries
  <2>1. lastRev \in Nat /\ lastRev + Cardinality(Left) <= started * MaxTries
    BY DEF Shape, Budget
  <2>2. started * MaxTries \in Nat
    BY WriteAssumption DEF Budget
  <2> QED BY <1>2, <1>3, <2>1, <2>2
<1>5. started' \in 0..MaxRequests
  BY DEF Budget
<1> QED BY <1>3, <1>4, <1>5 DEF Budget

LEMMA NextBudget == Shape /\ TxnShape /\ Budget /\ [Next]_vars => Budget'
<1> SUFFICES ASSUME Shape, TxnShape, Budget, [Next]_vars PROVE Budget'
  OBVIOUS
<1>1. /\ phase \in [Writers -> Phases] /\ tries \in [Writers -> 0..MaxTries]
      /\ \A w \in Writers : phase[w] = "idle" => tries[w] = 0
      /\ \A w \in Writers : phase[w] = "begin" => tries[w] < MaxTries
      /\ 0 \in 0..MaxTries
  BY WriteAssumption DEF Shape, Budget
<1>2. ASSUME NEW w \in Writers, Start(w) PROVE Budget'
  BY <1>2, BudgetStart
<1>3. ASSUME NEW w \in Writers, Format(w) PROVE Budget'
  BY <1>3, BudgetFormat
<1>4. ASSUME NEW w \in Writers,
             \/ Refuse(w) \/ Busy(w) \/ Rollback(w) \/ CommitFails(w) \/ UpdateRepoRoot(w)
      PROVE  Budget'
  <2>1. Back(w)
    BY <1>4, ProceedBack
  <2>2. phase[w] # "idle" /\ lastRev' = lastRev /\ started' = started /\ Retry(w)
    BY <2>1 DEF Back
  <2>3. CASE Finish(w)
    <3>1. /\ phase'[w] = "idle" /\ tries'[w] = 0
          /\ \A v \in Writers \ {w} : phase'[v] = phase[v] /\ tries'[v] = tries[v]
          /\ tries' \in [Writers -> 0..MaxTries]
      BY <1>1, <2>3 DEF Finish
    <3> QED BY <1>1, <2>2, <3>1, BudgetOther
  <2>4. CASE /\ tries[w] < MaxTries
             /\ phase' = [phase EXCEPT ![w] = "begin"]
             /\ tries' = tries
    <3>1. phase'[w] = "begin" /\ \A v \in Writers \ {w} : phase'[v] = phase[v]
      BY <1>1, <2>4
    <3> QED BY <1>1, <2>2, <2>4, <3>1, BudgetOther
  <2> QED BY <2>2, <2>3, <2>4 DEF Retry
<1>5. ASSUME NEW w \in Writers, Write(w) \/ SequenceCommit(w) PROVE Budget'
  <2>1. /\ phase[w] \notin {"idle", "begin"} /\ tries' = tries
        /\ lastRev' = lastRev /\ started' = started
        /\ \/ phase' = [phase EXCEPT ![w] = "written"]
           \/ phase' = [phase EXCEPT ![w] = "sequenced"]
    BY <1>5 DEF Write, SequenceCommit
  <2>2. phase'[w] \notin {"idle", "begin"} /\ \A v \in Writers \ {w} : phase'[v] = phase[v]
    BY <1>1, <2>1
  <2> QED BY <1>1, <2>1, <2>2, BudgetOther
<1>6. ASSUME NEW w \in Writers, Commit(w) PROVE Budget'
  <2>1. lastRev' = lastRev /\ started' = started /\ phase[w] \in {"written", "sequenced"}
    BY <1>6 DEF Commit
  <2>2. CASE req[w].kind = "import"
    <3>1. /\ phase'[w] = "idle" /\ tries'[w] = 0
          /\ \A v \in Writers \ {w} : phase'[v] = phase[v] /\ tries'[v] = tries[v]
          /\ tries' \in [Writers -> 0..MaxTries]
      BY <1>1, <1>6, <2>2 DEF Commit, Finish
    <3> QED BY <1>1, <2>1, <3>1, BudgetOther
  <2>3. CASE req[w].kind # "import"
    <3>1. /\ phase'[w] = "root" /\ tries' = tries
          /\ \A v \in Writers \ {w} : phase'[v] = phase[v]
      BY <1>1, <1>6, <2>3 DEF Commit
    <3> QED BY <1>1, <2>1, <3>1, BudgetOther
  <2> QED BY <2>2, <2>3
<1>7. CASE Crash
  <2>1. /\ lastRev' = lastRev /\ started' = started
        /\ \A w \in Writers : phase'[w] = "idle" /\ tries'[w] = 0
        /\ tries' \in [Writers -> 0..MaxTries]
    BY <1>1, <1>7 DEF Crash
  <2> QED BY <2>1, BudgetOther
<1>8. CASE UNCHANGED vars
  <2>1. phase' = phase /\ tries' = tries /\ lastRev' = lastRev /\ started' = started
    BY <1>8 DEF vars, reqVars
  <2> QED BY <1>1, <2>1, BudgetOther
<1> QED BY <1>2, <1>3, <1>4, <1>5, <1>6, <1>7, <1>8 DEF Next, Proceed

\* Both, which the theorems below start from.
LEMMA Always == Spec => [](IInv /\ Budget)
<1>1. Init => IInv /\ Budget
  BY InitInv
<1>2. IInv /\ Budget /\ [Next]_vars => IInv' /\ Budget'
  BY NextInv, NextBudget DEF IInv
<1> QED BY <1>1, <1>2, PTL DEF Spec

LEMMA ShapeIsType == IInv /\ Budget => TypeOK
<1> SUFFICES ASSUME IInv, Budget PROVE TypeOK
  OBVIOUS
<1>1. lastRev \in Nat /\ lastRev <= MaxRequests * MaxTries
  <2>1. /\ lastRev \in Nat /\ started \in Nat /\ started <= MaxRequests
        /\ MaxTries \in Nat /\ MaxRequests \in Nat
        /\ Cardinality(Left) \in Nat
        /\ lastRev + Cardinality(Left) <= started * MaxTries
    BY WriteAssumption, FS_CardinalityType DEF IInv, Shape, Budget
  <2>2. \A a, b, c \in Nat : a <= b => a * c <= b * c
    OBVIOUS
  <2>3. started * MaxTries <= MaxRequests * MaxTries
    BY <2>1, <2>2
  <2>4. started * MaxTries \in Nat /\ MaxRequests * MaxTries \in Nat
    BY <2>1
  <2> HIDE DEF Left
  <2> QED BY <2>1, <2>3, <2>4
<1>2. 0..lastRev \subseteq Revs /\ lastRev \in Revs
  <2>1. MaxRequests * MaxTries \in Nat
    BY WriteAssumption
  <2> QED BY <1>1, <2>1 DEF Revs
<1>3. StoresTo(lastRev) \subseteq Stores /\ CommitsTo(lastRev) \subseteq Commits
  BY <1>2 DEF StoresTo, Stores, CommitsTo, Commits, Content
<1>4. repo \in Stores /\ phase \in [Writers -> Phases] /\ lock \in Writers \cup {None}
      /\ accountRoot \in Revs /\ faults \in 0..MaxFaults
  BY <1>2, <1>3 DEF IInv, Shape
<1>5. \A i \in DOMAIN events : events[i] \in Commits
  <2>1. \A i \in DOMAIN events : events[i] \in CommitsTo(lastRev)
    BY DEF IInv, Shape
  <2> QED BY <1>3, <2>1
<1>6. \A w \in Writers : phase[w] \in Holding <=> lock = w
  BY DEF IInv, Locked
<1>7. tries \in [Writers -> 0..MaxTries] /\ started \in 0..MaxRequests
  BY DEF Budget
<1> QED BY <1>2, <1>4, <1>5, <1>6, <1>7 DEF TypeOK

\* The shape of the state; among it, that the write lock of the store has a holder
\* exactly while a transaction has written to it, and that no request runs its
\* transaction more than MaxTries times (db.ts, retrySqlite).
THEOREM TypeCorrect == Spec => []TypeOK
BY Always, ShapeIsType, PTL

\* A committed write has its event on the firehose, exactly once, however many
\* times the transaction was run, refused, rolled back or cut off (actor-store.ts
\* transact, sequencer.ts sequenceCommit): TIDs are not given out twice, and the
\* event goes out while the lock is held, before COMMIT.
THEOREM EveryCommitSequenced == Spec => []Sequenced
<1>1. IInv => Sequenced
  <2> SUFFICES ASSUME IInv, NEW i \in DOMAIN commits
               PROVE  Cardinality(EventOf(commits[i])) = 1
    BY DEF Sequenced
  <2>1. PICK j \in DOMAIN events : events[j].rev = commits[i]
    BY DEF IInv, OnFirehose
  <2>2. EventOf(commits[i]) = {j}
    BY <2>1 DEF EventOf, IInv, OnFirehose
  <2> QED BY <2>2, FS_Singleton
<1> QED BY <1>1, Always, PTL

\* What is compared with swapCommit and swapRecord when the transaction runs still
\* holds when it commits (formatCommit, and the lock of applyCommit).
THEOREM SwapsHold == Spec => SwapHonoured
<1>1. IInv /\ [Next]_vars =>
        [\A w \in Writers : Commit(w) => ~SwapFails(req[w])]_vars
  BY CommitsComputed DEF Computed
<1> QED BY <1>1, Always, PTL DEF Spec, SwapHonoured

\* A like that is created takes away the other likes of its subject
\* (getBacklinkConflicts), and none appears between the comparison and the commit.
THEOREM OneLikeLeft == Spec => OneRecordPerSubject
<1> DEFINE A == \A w \in Writers :
       Commit(w) /\ req[w].kind = "create" /\ req[w].validate =>
         \A k \in Rkeys \ {req[w].key} :
           repo'.index[k] = Gone \/ Subject[repo'.index[k]] # Subject[req[w].cid]
<1>1. IInv => A
  <2> SUFFICES ASSUME IInv, NEW w \in Writers, Commit(w),
                      req[w].kind = "create", req[w].validate,
                      NEW k \in Rkeys \ {req[w].key}
               PROVE  repo'.index[k] = Gone \/ Subject[repo'.index[k]] # Subject[req[w].cid]
    OBVIOUS
  <2> DEFINE r == req[w]
             ks == BacklinkConflicts(repo.index, r)
  <2>1. Computed(w) /\ repo' = txn[w].store /\ IsRequest(r)
    BY CommitsComputed DEF Commit
  <2>2. PICK writes \in Writes(repo.index, r) :
          \E moved \in SUBSET Moved(repo.tree, Apply(repo.tree, writes)) :
            txn[w] = FormatCommit(writes, moved, RevOf(w))
    BY <2>1, FormatsAre DEF Computed
  <2>3. repo'.index = Apply(repo.index, writes) /\ writes \in Seq(WriteOps)
    BY <2>1, <2>2, WritesType DEF FormatCommit
  <2>4. PICK f \in Orders(ks) :
          writes = Append([i \in DOMAIN f |-> Deletion(f[i])], Creation(r.key, r.cid))
    BY <2>2 DEF Writes
  <2>5. Cardinality(ks) \in Nat
    BY <2>1, WriteAssumption, FS_Subset, FS_CardinalityType DEF BacklinkConflicts
  <2> DEFINE n == Cardinality(ks)
             dels == [i \in 1..n |-> Deletion(f[i])]
  <2>6. f \in [1..n -> ks] /\ \A x \in ks : \E i \in 1..n : f[i] = x
    BY <2>4 DEF Orders
  <2>7. /\ DOMAIN writes = 1..(n + 1)
        /\ writes[n + 1].key = r.key
        /\ \A i \in 1..n : writes[i].key = f[i] /\ writes[i].cid = Gone
    <3>1. writes = Append(dels, Creation(r.key, r.cid))
      BY <2>4, <2>6
    <3>2. \A i \in 1..n : dels[i].key = f[i] /\ dels[i].cid = Gone
      BY DEF Deletion
    <3>3. dels \in Seq({Deletion(f[i]) : i \in 1..n}) /\ Len(dels) = n
      BY <2>5
    <3> HIDE DEF dels, n
    <3>4. /\ DOMAIN writes = 1..(n + 1) /\ writes[n + 1] = Creation(r.key, r.cid)
          /\ \A i \in 1..n : writes[i] = dels[i]
      BY <2>5, <3>1, <3>3 DEF n
    <3> QED BY <3>2, <3>4 DEF Creation
  <2> HIDE DEF r, ks, n, dels
  <2>8. CASE \E m \in DOMAIN writes : writes[m].key = k /\ repo'.index[k] = writes[m].cid
    BY <2>5, <2>7, <2>8 DEF n, r
  <2>9. CASE (\A j \in DOMAIN writes : writes[j].key # k) /\ repo'.index[k] = repo.index[k]
    <3>1. k \notin ks
      BY <2>5, <2>6, <2>7, <2>9 DEF n
    <3> QED BY <2>9, <3>1 DEF BacklinkConflicts, ks, r
  <2> QED BY <2>3, <2>8, <2>9, ApplyIs
<1>2. IInv /\ [Next]_vars => [A]_vars
  BY <1>1
<1> QED BY <1>2, Always, PTL DEF Spec, OneRecordPerSubject

\* Of the blocks of a commit that its diff says are gone, the ones that a record at
\* a path it does not update or delete still has are kept (getDuplicateRecordCids).
\* So a record that had its block has it after the commit of a client write, unless
\* the commit names it and takes its contents away at another path.
THEOREM SharedBlocksKept == Spec => BlocksKept
<1> DEFINE A == \A w \in Writers : Commit(w) /\ req[w].kind # "import" =>
       \A k \in Rkeys :
         \/ repo'.index[k] \in repo'.blocks \cup {Gone}
         \/ repo'.index[k] = repo.index[k] /\ repo.index[k] \notin repo.blocks
         \/ /\ \E i \in DOMAIN txn[w].event.ops : txn[w].event.ops[i].key = k
            /\ repo'.index[k] \in Replaced(repo.tree, repo'.tree)
<1>1. IInv => A
  <2> SUFFICES ASSUME IInv, NEW w \in Writers, Commit(w), req[w].kind # "import",
                      NEW k \in Rkeys, repo'.index[k] # Gone,
                      ~(repo'.index[k] = repo.index[k] /\ repo.index[k] \notin repo.blocks),
                      ~(/\ \E i \in DOMAIN txn[w].event.ops : txn[w].event.ops[i].key = k
                        /\ repo'.index[k] \in Replaced(repo.tree, repo'.tree))
               PROVE  repo'.index[k] \in repo'.blocks
    OBVIOUS
  <2> DEFINE c == repo'.index[k]
  <2>1. Computed(w) /\ repo' = txn[w].store /\ IsRequest(req[w])
    BY CommitsComputed DEF Commit
  <2>2. PICK writes \in Writes(repo.index, req[w]) :
          \E moved \in SUBSET Moved(repo.tree, Apply(repo.tree, writes)) :
            txn[w] = FormatCommit(writes, moved, RevOf(w))
    BY <2>1, FormatsAre DEF Computed
  <2> DEFINE after == Apply(repo.tree, writes)
  <2>3. PICK moved \in SUBSET Moved(repo.tree, after) :
          txn[w] = FormatCommit(writes, moved, RevOf(w))
    BY <2>2
  <2> DEFINE removed == RemovedCids(repo.tree, after, moved)
  <2>4. /\ writes \in Seq(WriteOps)
        /\ repo'.tree = after /\ repo'.index = Apply(repo.index, writes)
        /\ repo'.blocks = (repo.blocks \cup NewCids(repo.tree, after, moved))
                          \ (removed \ DuplicateCids(repo.index, removed, Touched(writes)))
        /\ DOMAIN txn[w].event.ops = DOMAIN writes
        /\ \A i \in DOMAIN writes : txn[w].event.ops[i].key = writes[i].key
    BY <2>1, <2>2, <2>3, WritesType DEF FormatCommit
  <2>5. repo.index = repo.tree /\ c = after[k]
    BY <2>4 DEF IInv, Indexed
  <2> HIDE DEF removed, after
  <2>6. CASE \A i \in DOMAIN writes : writes[i].key # k
    <3>1. c = repo.index[k] /\ c \in repo.blocks
      BY <2>4, <2>6, ApplyIs
    <3>2. k \notin Touched(writes)
      BY <2>6 DEF Touched
    <3>3. c \in removed => c \in DuplicateCids(repo.index, removed, Touched(writes))
      BY <3>1, <3>2 DEF DuplicateCids
    <3> QED BY <2>4, <3>1, <3>3
  <2>7. CASE \E i \in DOMAIN writes : writes[i].key = k
    <3>1. c \notin Replaced(repo.tree, after)
      BY <2>4, <2>7
    <3>2. c \notin removed
      BY <3>1 DEF removed, RemovedCids, Moved
    <3>3. CASE repo.tree[k] = after[k]
      BY <2>4, <2>5, <3>2, <3>3
    <3>4. CASE repo.tree[k] # after[k]
      <4>1. c \in Replaced(after, repo.tree)
        BY <2>5, <3>4 DEF Replaced, Changed
      <4> QED BY <2>4, <3>1, <3>2, <4>1 DEF NewCids
    <3> QED BY <3>3, <3>4
  <2> QED BY <2>6, <2>7
<1>2. IInv /\ [Next]_vars => [A]_vars
  BY <1>1
<1> QED BY <1>2, Always, PTL DEF Spec, BlocksKept
-----------------------------------------------------------------------------
(* Events of commits that are not there: the holder of the lock has at most   *)
(* one, and only a fault leaves it behind.                                    *)

Phantom == {i \in DOMAIN events : ~Committed(events[i].rev)}
Pending == {w \in Writers : phase[w] = "sequenced"}

PhantomsCounted == IsFiniteSet(Phantom) /\ Cardinality(Phantom) \in Nat
OnePending ==
  /\ Cardinality(Pending) \in {0, 1}
  /\ \A w \in Writers : phase[w] = "sequenced" => Cardinality(Pending) = 1
  /\ (\A w \in Writers : phase[w] # "sequenced") => Cardinality(Pending) = 0

LEMMA PhantomFinite == IInv => PhantomsCounted
<1> SUFFICES ASSUME IInv PROVE PhantomsCounted
  OBVIOUS
<1>1. DOMAIN events = 1..Len(events) /\ Len(events) \in Nat
  BY DEF IInv, Shape
<1>2. IsFiniteSet(1..Len(events)) /\ Phantom \in SUBSET (1..Len(events))
  BY <1>1, FS_Interval DEF Phantom
<1> QED BY <1>2, FS_Subset, FS_CardinalityType DEF PhantomsCounted

LEMMA PendingOne == IInv => OnePending
<1> SUFFICES ASSUME IInv PROVE OnePending
  OBVIOUS
<1>1. ASSUME NEW w \in Writers, phase[w] = "sequenced" PROVE OnePending
  <2>1. Pending = {w}
    BY <1>1 DEF Pending, IInv, Locked, Holding
  <2>2. Cardinality(Pending) = 1
    BY <2>1, FS_Singleton
  <2> QED BY <1>1, <2>2 DEF OnePending
<1>2. CASE \A w \in Writers : phase[w] # "sequenced"
  <2>1. Pending = {}
    BY <1>2 DEF Pending
  <2>2. Cardinality(Pending) = 0
    BY <2>1, FS_EmptySet
  <2> QED BY <1>2, <2>2 DEF OnePending
<1> QED BY <1>1, <1>2

FewPhantoms == Cardinality(Phantom) <= faults + Cardinality(Pending)

LEMMA NextPhantoms ==
  ASSUME IInv, PhantomsCounted, PhantomsCounted', OnePending, OnePending', FewPhantoms,
         [Next]_vars
  PROVE  FewPhantoms'
<1>1. /\ IsFiniteSet(Phantom) /\ Cardinality(Phantom) \in Nat
      /\ IsFiniteSet(Phantom') /\ Cardinality(Phantom') \in Nat
  BY DEF PhantomsCounted
<1>2. /\ Cardinality(Pending) \in {0, 1} /\ Cardinality(Pending') \in {0, 1}
      /\ \A w \in Writers : phase[w] = "sequenced" => Cardinality(Pending) = 1
      /\ \A w \in Writers : phase'[w] = "sequenced" => Cardinality(Pending') = 1
      /\ (\A w \in Writers : phase[w] # "sequenced") => Cardinality(Pending) = 0
      /\ (\A w \in Writers : phase'[w] # "sequenced") => Cardinality(Pending') = 0
  BY DEF OnePending
<1>3. faults \in Nat /\ Cardinality(Phantom) <= faults + Cardinality(Pending)
  BY WriteAssumption DEF IInv, Shape, FewPhantoms
<1>4. phase \in [Writers -> Phases]
  BY DEF IInv, Shape
<1>5. SUFFICES Cardinality(Phantom') <= faults' + Cardinality(Pending')
  BY DEF FewPhantoms
\* Steps that touch neither the firehose nor the commits.
<1>6. ASSUME events' = events, commits' = commits, faults' = faults,
             Pending' = Pending
      PROVE  Cardinality(Phantom') <= faults' + Cardinality(Pending')
  <2>1. Phantom' = Phantom
    BY <1>6 DEF Phantom, Committed
  <2> QED BY <1>3, <1>6, <2>1
<1>7. ASSUME NEW w \in Writers, Start(w) \/ Refuse(w) \/ Format(w) \/ Write(w)
                                \/ Busy(w) \/ Rollback(w) \/ UpdateRepoRoot(w)
      PROVE  Cardinality(Phantom') <= faults' + Cardinality(Pending')
  <2>1. events' = events /\ commits' = commits /\ faults' = faults
    BY <1>7 DEF Start, Refuse, Format, Write, Busy, Rollback, UpdateRepoRoot, storeVars
  <2>2. /\ phase[w] # "sequenced" 
        /\ \E p \in Phases \ {"sequenced"} : phase' = [phase EXCEPT ![w] = p]
    BY <1>7 DEF Start, Refuse, Format, Write, Busy, Rollback, UpdateRepoRoot, Retry,
                Finish, Phases
  <2>3. Pending' = Pending
    BY <1>4, <2>2 DEF Pending
  <2> QED BY <1>6, <2>1, <2>3
<1>8. ASSUME NEW w \in Writers, SequenceCommit(w)
      PROVE  Cardinality(Phantom') <= faults' + Cardinality(Pending')
  <2>1. /\ phase[w] = "written" /\ phase' = [phase EXCEPT ![w] = "sequenced"]
        /\ req[w].kind # "import"
        /\ events' = Append(events, txn[w].event)
        /\ commits' = commits /\ faults' = faults
    BY <1>8 DEF SequenceCommit, storeVars
  <2>2. \A v \in Writers : phase[v] # "sequenced"
    BY <2>1, OneHolder DEF IInv, Holding
  <2>3. phase'[w] = "sequenced"
    BY <1>4, <2>1
  <2>4. txn[w].event \in CommitsTo(lastRev) /\ events \in Seq(CommitsTo(lastRev))
    BY <2>1 DEF IInv, Shape, TxnShape, Formatted
  <2>5. Phantom' \subseteq Phantom \cup {Len(events) + 1}
    <3>1. /\ Len(events) \in Nat
          /\ DOMAIN events = 1..Len(events) /\ DOMAIN events' = 1..(Len(events) + 1)
          /\ \A i \in 1..Len(events) : events'[i] = events[i]
      BY <2>1, <2>4, AppendIs
    <3>2. \A i \in Phantom' : i \in Phantom \/ i = Len(events) + 1
      BY <2>1, <3>1 DEF Phantom, Committed
    <3> QED BY <3>2
  <2>6. /\ IsFiniteSet(Phantom \cup {Len(events) + 1})
        /\ Cardinality(Phantom \cup {Len(events) + 1}) <= Cardinality(Phantom) + 1
        /\ Cardinality(Phantom \cup {Len(events) + 1}) \in Nat
    <3> DEFINE S == Phantom \cup {Len(events) + 1}
    <3>1. /\ IsFiniteSet(S)
          /\ Cardinality(S) = IF Len(events) + 1 \in Phantom THEN Cardinality(Phantom)
                                                           ELSE Cardinality(Phantom) + 1
      BY <1>1, FS_AddElement
    <3> HIDE DEF S
    <3>2. Cardinality(S) <= Cardinality(Phantom) + 1 /\ Cardinality(S) \in Nat
      BY <1>1, <3>1
    <3> QED BY <3>1, <3>2 DEF S
  <2>7. Cardinality(Phantom') <= Cardinality(Phantom \cup {Len(events) + 1})
    BY <2>5, <2>6, FS_Subset
  <2> QED BY <1>1, <1>2, <1>3, <2>1, <2>2, <2>3, <2>6, <2>7
<1>9. ASSUME NEW w \in Writers, CommitFails(w)
      PROVE  Cardinality(Phantom') <= faults' + Cardinality(Pending')
  <2>1. faults' = faults + 1 /\ events' = events /\ commits' = commits
    BY <1>9 DEF CommitFails
  <2>2. Phantom' = Phantom
    BY <2>1 DEF Phantom, Committed
  <2> QED BY <1>1, <1>2, <1>3, <2>1, <2>2
<1>10. ASSUME NEW w \in Writers, Commit(w)
       PROVE  Cardinality(Phantom') <= faults' + Cardinality(Pending')
  <2>1. /\ events' = events /\ faults' = faults
        /\ req[w].kind = "import" => commits' = commits /\ phase[w] # "sequenced"
        /\ req[w].kind # "import" =>
             phase[w] = "sequenced" /\ commits' = Append(commits, RevOf(w))
    <3>1. req[w].kind = "import" => phase[w] # "sequenced"
      BY DEF IInv, ClientWrites
    <3>2. /\ req[w].kind = "import" => commits' = commits
          /\ req[w].kind # "import" =>
               phase[w] = "sequenced" /\ commits' = Append(commits, RevOf(w))
      BY <1>10, CommitWriters DEF IInv
    <3> QED BY <1>10, <3>1, <3>2 DEF Commit
  <2>2. CASE req[w].kind = "import"
    <3>1. phase[w] \in Holding
      BY <1>10, CommitsComputed
    <3>2. \A v \in Writers : phase[v] # "sequenced"
      BY <2>1, <2>2, <3>1, OneHolder DEF IInv, Holding
    <3>3. Phantom' = Phantom
      BY <2>1, <2>2 DEF Phantom, Committed
    <3> QED BY <1>1, <1>2, <1>3, <2>1, <3>2, <3>3
  <2>3. CASE req[w].kind # "import"
    <3> DEFINE n == Len(events)
    <3>1. events # <<>> /\ events[n] = txn[w].event /\ n \in DOMAIN events
      BY <2>1, <2>3 DEF IInv, OnFirehose, Shape
    <3>2. txn[w].event.rev = RevOf(w)
      <4>1. txn[w] \in Formats(req[w], RevOf(w))
        BY <1>10, <2>3, CommitsComputed DEF Computed
      <4> QED BY <2>3, <4>1, EventRev
    <3>3. ~Committed(RevOf(w))
      BY <2>1, <2>3 DEF IInv, FreshRevs, Uncommitted
    <3>4. n \in Phantom
      BY <3>1, <3>2, <3>3 DEF Phantom
    <3>5. \A m : Committed(m) => Committed(m)'
      <4>1. commits \in Seq(0..lastRev) /\ RevOf(w) \in 0..lastRev
        BY <1>10, CommitsComputed DEF IInv, Shape, StoresTo, RevOf
      <4>2. /\ DOMAIN commits = 1..Len(commits) /\ DOMAIN commits' = 1..(Len(commits) + 1)
            /\ Len(commits) \in Nat
            /\ \A i \in 1..Len(commits) : commits'[i] = commits[i]
        BY <2>1, <2>3, <4>1, AppendIs
      <4> QED BY <4>2 DEF Committed
    <3>6. n \notin Phantom'
      <4>1. commits \in Seq(0..lastRev) /\ RevOf(w) \in 0..lastRev
        BY <1>10, CommitsComputed DEF IInv, Shape, StoresTo, RevOf
      <4>2. /\ Len(commits) + 1 \in DOMAIN commits'
            /\ commits'[Len(commits) + 1] = RevOf(w)
        BY <2>1, <2>3, <4>1, AppendIs
      <4> QED BY <2>1, <3>1, <3>2, <4>2 DEF Phantom, Committed
    <3>7. \A i \in Phantom' : i \in Phantom
      BY <2>1, <3>5 DEF Phantom
    <3> HIDE DEF n
    <3>8. Phantom' \subseteq Phantom \ {n}
      BY <3>6, <3>7
    <3>9. IsFiniteSet(Phantom \ {n}) /\ Cardinality(Phantom \ {n}) = Cardinality(Phantom) - 1
      BY <1>1, <3>4, FS_RemoveElement
    <3>10. Cardinality(Phantom') <= Cardinality(Phantom) - 1
      BY <3>8, <3>9, FS_Subset
    <3> QED BY <1>1, <1>2, <1>3, <2>1, <2>3, <3>10
  <2> QED BY <2>2, <2>3
<1>11. ASSUME Crash
       PROVE  Cardinality(Phantom') <= faults' + Cardinality(Pending')
  <2>1. faults' = faults + 1 /\ events' = events /\ commits' = commits
    BY <1>11 DEF Crash
  <2>2. Phantom' = Phantom
    BY <2>1 DEF Phantom, Committed
  <2> QED BY <1>1, <1>2, <1>3, <2>1, <2>2
<1>12. ASSUME UNCHANGED vars
       PROVE  Cardinality(Phantom') <= faults' + Cardinality(Pending')
  BY <1>6, <1>12 DEF vars, storeVars, reqVars, Pending
<1> QED BY <1>7, <1>8, <1>9, <1>10, <1>11, <1>12 DEF Next, Proceed

\* An event without its commit is on the firehose only for a transaction that is
\* about to commit, or for a crash or a failed COMMIT that cut one off there: a
\* conflict, a retry, a refusal or a rollback leaves none (actor-store.ts transact,
\* db.ts retrySqlite).
THEOREM OnlyFaultsLeavePhantoms == Spec => []PhantomOnlyByFault
<1>1. Init => FewPhantoms
  <2> SUFFICES ASSUME Init PROVE FewPhantoms
    OBVIOUS
  <2>1. Phantom = {} /\ Pending = {} /\ faults = 0
    BY DEF Init, Phantom, Pending
  <2> QED BY <2>1, FS_EmptySet DEF FewPhantoms
<1>2. FewPhantoms => PhantomOnlyByFault
  BY DEF FewPhantoms, PhantomOnlyByFault, Phantom, Pending
<1>3. IInv /\ PhantomsCounted /\ PhantomsCounted' /\ OnePending /\ OnePending'
        /\ FewPhantoms /\ [Next]_vars => FewPhantoms'
  BY NextPhantoms
<1>4. Spec => []FewPhantoms
  BY <1>1, <1>3, Invariance, PhantomFinite, PendingOne, PTL DEF Spec
<1> QED BY <1>2, <1>4, PTL
-----------------------------------------------------------------------------
(* The log that SerialRepo promises: the events of what is committed, taken   *)
(* from the firehose in order.  A commit adds to it the last event there is.  *)

UpTo(S, i) == {j \in S : j <= i}
Nth(S, n) == CHOOSE i \in S : Cardinality(UpTo(S, i)) = n

\* Every rank is taken.
Ranked(S) == \A n \in 1..Cardinality(S) : \E i \in S : Cardinality(UpTo(S, i)) = n

LEMMA NthIs ==
  ASSUME NEW S, Ranked(S), NEW n \in 1..Cardinality(S)
  PROVE  Nth(S, n) \in S /\ Cardinality(UpTo(S, Nth(S, n))) = n
BY DEF Ranked, Nth

LEMMA NthUnique ==
  ASSUME NEW S \in SUBSET Nat, IsFiniteSet(S), NEW i \in S, NEW k \in S,
         Cardinality(UpTo(S, i)) = Cardinality(UpTo(S, k))
  PROVE  i = k
<1>1. ASSUME NEW a \in S, NEW b \in S, a < b
      PROVE  Cardinality(UpTo(S, a)) # Cardinality(UpTo(S, b))
  <2>0. a \in Nat /\ b \in Nat /\ \A j \in S : j \in Nat
    OBVIOUS
  <2>1. UpTo(S, a) \subseteq UpTo(S, b) /\ b \in UpTo(S, b) /\ b \notin UpTo(S, a)
    <3>1. \A j \in S : j <= a => j <= b
      BY <1>1, <2>0
    <3>2. b <= b /\ ~(b <= a)
      BY <1>1, <2>0
    <3> QED BY <3>1, <3>2 DEF UpTo
  <2>2. IsFiniteSet(UpTo(S, b))
    BY FS_Subset DEF UpTo
  <2> QED BY <2>1, <2>2, FS_Subset
<1>2. i \in Nat /\ k \in Nat
  OBVIOUS
<1>3. CASE i < k
  BY <1>1, <1>3
<1>4. CASE k < i
  BY <1>1, <1>4
<1> QED BY <1>2, <1>3, <1>4

LEMMA NthAdded ==
  ASSUME NEW S \in SUBSET Nat, IsFiniteSet(S), Ranked(S),
         NEW m \in Nat, \A i \in S : i < m
  PROVE  /\ IsFiniteSet(S \cup {m}) /\ Cardinality(S \cup {m}) = Cardinality(S) + 1
         /\ Ranked(S \cup {m})
         /\ Nth(S \cup {m}, Cardinality(S) + 1) = m
         /\ \A n \in 1..Cardinality(S) : Nth(S \cup {m}, n) = Nth(S, n)
<1> DEFINE T == S \cup {m}
<1>1. m \notin S /\ T \in SUBSET Nat
  OBVIOUS
<1>2. /\ IsFiniteSet(T) /\ Cardinality(T) = Cardinality(S) + 1
      /\ Cardinality(S) \in Nat
  BY <1>1, FS_AddElement, FS_CardinalityType
<1>3. UpTo(T, m) = T
  <2>1. \A i \in T : i <= m
    OBVIOUS
  <2> HIDE DEF T
  <2> QED BY <2>1 DEF UpTo
<1>4. \A i \in S : UpTo(T, i) = UpTo(S, i)
  BY DEF UpTo
<1> HIDE DEF T
<1>5. m \in T /\ S \subseteq T
  BY DEF T
<1>6. Ranked(T)
  <2> SUFFICES ASSUME NEW n \in 1..Cardinality(T)
               PROVE  \E i \in T : Cardinality(UpTo(T, i)) = n
    BY DEF Ranked
  <2>1. CASE n = Cardinality(S) + 1
    BY <1>2, <1>3, <1>5, <2>1
  <2>2. CASE n # Cardinality(S) + 1
    <3>1. n \in 1..Cardinality(S)
      BY <1>2, <2>2
    <3>2. PICK i \in S : Cardinality(UpTo(S, i)) = n
      BY <3>1 DEF Ranked
    <3> QED BY <1>4, <1>5, <3>2
  <2> QED BY <2>1, <2>2
<1>7. Nth(T, Cardinality(S) + 1) = m
  <2>1. Cardinality(S) + 1 \in 1..Cardinality(T)
    BY <1>2
  <2>2. /\ Nth(T, Cardinality(S) + 1) \in T
        /\ Cardinality(UpTo(T, Nth(T, Cardinality(S) + 1))) = Cardinality(UpTo(T, m))
    BY <1>2, <1>3, <1>6, <2>1, NthIs
  <2> DEFINE k == Nth(T, Cardinality(S) + 1)
  <2>3. T \in SUBSET Nat /\ k \in T /\ Cardinality(UpTo(T, k)) = Cardinality(UpTo(T, m))
    BY <1>1, <2>2 DEF T
  <2> HIDE DEF k
  <2>4. k = m
    BY <1>2, <1>5, <2>3, NthUnique
  <2> QED BY <2>4 DEF k
<1>8. ASSUME NEW n \in 1..Cardinality(S) PROVE Nth(T, n) = Nth(S, n)
  <2>1. Nth(S, n) \in S /\ Cardinality(UpTo(S, Nth(S, n))) = n
    BY NthIs
  <2>2. n \in 1..Cardinality(T)
    BY <1>2
  <2>3. Nth(T, n) \in T /\ Cardinality(UpTo(T, Nth(T, n))) = n
    BY <1>6, <2>2, NthIs
  <2>4. Nth(S, n) \in T /\ Cardinality(UpTo(T, Nth(S, n))) = n
    BY <1>4, <1>5, <2>1
  <2>5. T \in SUBSET Nat
    BY <1>1 DEF T
  <2> DEFINE i == Nth(T, n)
             k == Nth(S, n)
  <2>6. i \in T /\ k \in T /\ Cardinality(UpTo(T, i)) = Cardinality(UpTo(T, k))
    BY <2>3, <2>4
  <2> HIDE DEF i, k
  <2>7. i = k
    BY <1>2, <2>5, <2>6, NthUnique
  <2> QED BY <2>7 DEF i, k
<1> QED BY <1>2, <1>6, <1>7, <1>8 DEF T

Seen == {i \in DOMAIN events : Committed(events[i].rev)}
SeenRanked == Ranked(Seen)

LEMMA FeedIs == CommittedEvents = [n \in 1..Cardinality(Seen) |-> events[Nth(Seen, n)]]
BY DEF CommittedEvents, Seen, Nth, UpTo

LEMMA FeedSame ==
  ASSUME SeenRanked, Seen' = Seen, \A i \in Seen : events'[i] = events[i]
  PROVE  CommittedEvents' = CommittedEvents /\ SeenRanked'
<1>1. \A n \in 1..Cardinality(Seen) : Nth(Seen, n) \in Seen
  BY NthIs DEF SeenRanked
<1>2. CommittedEvents = [n \in 1..Cardinality(Seen) |-> events[Nth(Seen, n)]]
  BY FeedIs
<1>3. CommittedEvents' = [n \in 1..Cardinality(Seen) |-> events'[Nth(Seen, n)]]
  <2>1. CommittedEvents' = [n \in 1..Cardinality(Seen') |-> events'[Nth(Seen', n)]]
    BY DEF CommittedEvents, Seen, Nth, UpTo
  <2> QED BY <2>1
<1>4. SeenRanked'
  BY DEF SeenRanked, Ranked, UpTo
<1> QED BY <1>1, <1>2, <1>3, <1>4

LEMMA SeenFinite ==
  ASSUME Shape
  PROVE  /\ Seen \in SUBSET Nat /\ IsFiniteSet(Seen) /\ Cardinality(Seen) \in Nat
         /\ Seen \subseteq 1..Len(events) /\ Len(events) \in Nat
         /\ DOMAIN events = 1..Len(events)
<1>1. DOMAIN events = 1..Len(events) /\ Len(events) \in Nat
  BY DEF Shape
<1>2. Seen \subseteq 1..Len(events) /\ Seen \in SUBSET Nat
  BY <1>1 DEF Seen
<1>3. IsFiniteSet(1..Len(events))
  BY <1>1, FS_Interval
<1> QED BY <1>1, <1>2, <1>3, FS_Subset, FS_CardinalityType

\* A step that commits no client write leaves the log as it is.
LEMMA FeedKept ==
  ASSUME IInv, SeenRanked, NEW w \in Writers, commits' = commits,
         events' = events \/ SequenceCommit(w)
  PROVE  CommittedEvents' = CommittedEvents /\ SeenRanked'
<1>1. CASE events' = events
  <2>1. Seen' = Seen
    BY <1>1 DEF Seen, Committed
  <2> QED BY <1>1, <2>1, FeedSame
<1>2. CASE SequenceCommit(w)
  <2> DEFINE n == Len(events)
             e == txn[w].event
  <2>1. phase[w] = "written" /\ req[w].kind # "import" /\ events' = Append(events, e)
    BY <1>2 DEF SequenceCommit
  <2>2. e \in CommitsTo(lastRev) /\ events \in Seq(CommitsTo(lastRev))
    BY <2>1 DEF IInv, Shape, TxnShape, Formatted
  <2>3. /\ n \in Nat /\ DOMAIN events = 1..n /\ DOMAIN events' = 1..(n + 1)
        /\ events'[n + 1] = e /\ \A i \in 1..n : events'[i] = events[i]
    BY <2>1, <2>2, AppendIs
  <2>4. Computed(w) /\ ~Committed(RevOf(w))
    BY <2>1 DEF IInv, Snapshots, FreshRevs, Uncommitted, Holding
  <2>5. e.rev = RevOf(w)
    <3>1. txn[w] \in Formats(req[w], RevOf(w))
      BY <2>1, <2>4 DEF Computed
    <3> QED BY <2>1, <3>1, EventRev
  <2> HIDE DEF n, e
  <2>6. \A m : Committed(m)' <=> Committed(m)
    BY DEF Committed
  <2>7. Seen' = Seen
    <3>1. Seen' = {i \in DOMAIN events' : Committed(events'[i].rev)}
      BY <2>6 DEF Seen, Committed
    <3>2. \A i \in 1..n : i \in Seen <=> Committed(events'[i].rev)
      BY <2>3 DEF Seen
    <3>3. ~Committed(events'[n + 1].rev)
      BY <2>3, <2>4, <2>5
    <3>4. \A i : i \in Seen' <=> i \in Seen
      BY <2>3, <3>1, <3>2, <3>3 DEF Seen
    <3> QED BY <3>4
  <2>8. \A i \in Seen : events'[i] = events[i]
    BY <2>3 DEF Seen
  <2> QED BY <2>7, <2>8, FeedSame
<1> QED BY <1>1, <1>2

\* A client write adds its event to the log.
LEMMA FeedGrows ==
  ASSUME IInv, SeenRanked, NEW w \in Writers, Commit(w), req[w].kind # "import"
  PROVE  /\ SeenRanked'
         /\ Len(CommittedEvents') = Len(CommittedEvents) + 1
         /\ SubSeq(CommittedEvents', 1, Len(CommittedEvents)) = CommittedEvents
         /\ CommittedEvents'[Len(CommittedEvents')] = txn[w].event
<1> DEFINE n == Len(events)
           c == Cardinality(Seen)
           e == txn[w].event
<1>1. /\ phase[w] = "sequenced" /\ commits' = Append(commits, RevOf(w))
      /\ events' = events
  BY CommitWriters DEF IInv, Commit
<1>2. events # <<>> /\ events[n] = e
  BY <1>1 DEF IInv, OnFirehose
<1>3. e.rev = RevOf(w)
  <2>1. txn[w] \in Formats(req[w], RevOf(w))
    BY CommitsComputed DEF Computed
  <2> QED BY <2>1, EventRev
<1>4. ~Committed(RevOf(w))
  BY <1>1 DEF IInv, FreshRevs, Uncommitted
<1>5. /\ Seen \in SUBSET Nat /\ IsFiniteSet(Seen) /\ c \in Nat
      /\ Seen \subseteq 1..n /\ n \in Nat /\ DOMAIN events = 1..n
  BY SeenFinite DEF IInv
<1>6. \A m : Committed(m)' <=> Committed(m) \/ m = RevOf(w)
  <2>1. commits \in Seq(0..lastRev) /\ RevOf(w) \in 0..lastRev
    BY CommitsComputed DEF IInv, Shape, StoresTo, RevOf
  <2>2. /\ DOMAIN commits = 1..Len(commits) /\ DOMAIN commits' = 1..(Len(commits) + 1)
        /\ Len(commits) \in Nat /\ commits'[Len(commits) + 1] = RevOf(w)
        /\ \A i \in 1..Len(commits) : commits'[i] = commits[i]
    BY <1>1, <2>1, AppendIs
  <2>3. ASSUME NEW m, Committed(m)' PROVE Committed(m) \/ m = RevOf(w)
    BY <2>2, <2>3 DEF Committed
  <2>4. ASSUME NEW m, Committed(m) PROVE Committed(m)'
    BY <2>2, <2>4 DEF Committed
  <2>5. Committed(RevOf(w)) \/ \E i \in DOMAIN commits' : commits'[i] = RevOf(w)
    BY <2>2
  <2>6. ASSUME NEW m, m = RevOf(w) PROVE Committed(m)'
    BY <2>2, <2>6 DEF Committed
  <2> QED BY <2>3, <2>4, <2>6
<1>7. n \in DOMAIN events /\ n \notin Seen /\ \A i \in Seen : i < n
  <2>1. n \in DOMAIN events
    BY <1>2, <1>5 DEF IInv, Shape
  <2>2. n \notin Seen
    BY <1>2, <1>3, <1>4 DEF Seen
  <2> HIDE DEF n
  <2> QED BY <1>5, <2>1, <2>2
<1>8. Seen' = Seen \cup {n}
  <2>1. Seen' = {i \in DOMAIN events : Committed(events[i].rev) \/ events[i].rev = RevOf(w)}
    BY <1>1, <1>6 DEF Seen, Committed
  <2>2. \A i \in DOMAIN events : events[i].rev = RevOf(w) <=> i = n
    BY <1>2, <1>3, <1>7 DEF IInv, OnFirehose
  <2> HIDE DEF n
  <2> QED BY <1>7, <2>1, <2>2 DEF Seen
<1> HIDE DEF n, c, e
<1>9. /\ Cardinality(Seen') = c + 1
      /\ Ranked(Seen')
      /\ Nth(Seen', c + 1) = n
      /\ \A k \in 1..c : Nth(Seen', k) = Nth(Seen, k)
  BY <1>5, <1>7, <1>8, NthAdded DEF SeenRanked, c
<1>10. SeenRanked'
  BY <1>9 DEF SeenRanked, Ranked, UpTo
<1> DEFINE f == CommittedEvents
           g == CommittedEvents'
<1>11. f = [k \in 1..c |-> events[Nth(Seen, k)]]
  BY FeedIs DEF c
<1>12. g = [k \in 1..(c + 1) |-> events[Nth(Seen', k)]]
  <2>1. CommittedEvents' = [k \in 1..Cardinality(Seen') |-> events'[Nth(Seen', k)]]
    BY DEF CommittedEvents, Seen, Nth, UpTo
  <2> QED BY <1>1, <1>9, <2>1
<1>13. /\ \A k \in 1..c : g[k] = f[k]
       /\ g[c + 1] = e
  BY <1>2, <1>5, <1>9, <1>11, <1>12
<1> HIDE DEF f, g
<1>14. /\ Len(f) = c /\ Len(g) = c + 1
       /\ SubSeq(g, 1, c) = f
  <2>1. Len(f) = c /\ Len(g) = c + 1
    BY <1>5, <1>11, <1>12
  <2>2. SubSeq(g, 1, c) = [k \in 1..c |-> g[k]]
    BY <1>5, <1>12, <2>1
  <2>3. f = [k \in 1..c |-> f[k]]
    BY <1>11
  <2> QED BY <1>13, <2>1, <2>2, <2>3
<1> QED BY <1>10, <1>13, <1>14 DEF f, g, e

\* A step of the writers is a step that SerialRepo allows, or none.
LEMMA SerialStep ==
  ASSUME IInv, SeenRanked, [Next]_vars
  PROVE  /\ SeenRanked'
         /\ [Serial!Next]_<<repo.tree, repo.index, repo.rev, repo.signed, CommittedEvents>>
<1> DEFINE G == /\ SeenRanked'
                /\ \/ Serial!Next
                   \/ UNCHANGED <<repo.tree, repo.index, repo.rev, repo.signed,
                                  CommittedEvents>>
<1>1. ASSUME NEW w \in Writers, repo' = repo, commits' = commits,
             events' = events \/ SequenceCommit(w)
      PROVE  G
  BY <1>1, FeedKept
<1>2. ASSUME NEW w \in Writers, Commit(w) PROVE G
  <2>1. /\ txn[w].snap = repo.rev /\ repo.rev < RevOf(w) /\ Computed(w)
        /\ IsRequest(req[w]) /\ repo' = txn[w].store /\ events' = events
    BY <1>2, CommitsComputed DEF Commit
  <2>2. repo'.rev = RevOf(w) /\ repo'.rev > repo.rev
    <3>1. repo.rev \in Nat /\ RevOf(w) \in Nat
      BY <1>2, CommitsComputed DEF IInv, Shape, StoresTo, RevOf
    <3> QED BY <2>1, <3>1 DEF RevOf
  <2>3. repo'.index = repo'.tree
    BY <1>2, <2>1, CommitsComputed, ComputedIndexed DEF IInv, Shape
  <2>4. CASE req[w].kind = "import"
    <3>1. CommittedEvents' = CommittedEvents /\ SeenRanked'
      BY <1>2, <2>1, <2>4, CommitWriters, FeedKept DEF IInv
    <3>2. Serial!Replace
      BY <2>2, <3>1 DEF Serial!Replace
    <3> QED BY <2>3, <3>1, <3>2 DEF Serial!Next
  <2>5. CASE req[w].kind # "import"
    <3> DEFINE e == txn[w].event
    <3>1. /\ SeenRanked'
          /\ Len(CommittedEvents') = Len(CommittedEvents) + 1
          /\ SubSeq(CommittedEvents', 1, Len(CommittedEvents)) = CommittedEvents
          /\ CommittedEvents'[Len(CommittedEvents')] = e
      BY <1>2, <2>5, FeedGrows
    <3>2. PICK writes \in Writes(repo.index, req[w]) :
            \E moved \in SUBSET Moved(repo.tree, Apply(repo.tree, writes)) :
              txn[w] = FormatCommit(writes, moved, RevOf(w))
      BY <2>1, <2>5, FormatsAre DEF Computed
    <3>3. /\ e.rev = RevOf(w) /\ e.since = repo.signed /\ e.prevData = repo.tree
          /\ e.data = Apply(repo.tree, writes)
          /\ repo'.tree = Apply(repo.tree, writes) /\ repo'.signed = RevOf(w)
          /\ e.ops = [i \in DOMAIN writes |->
                        [key |-> writes[i].key, cid |-> writes[i].cid,
                         prev |-> repo.index[writes[i].key]]]
      BY <2>1, <3>2 DEF FormatCommit
    <3>4. writes \in Seq(WriteOps) /\ DOMAIN repo'.tree = Rkeys
      BY <2>1, <2>5, <3>2, <3>3, WritesType DEF Apply
    <3> HIDE DEF e
    <3>5. \A i \in DOMAIN e.ops : e.ops[i].prev = repo.tree[e.ops[i].key]
      BY <3>3 DEF IInv, Indexed
    <3>6. /\ \A i \in DOMAIN e.ops :
               Serial!IsLast(e.ops, i) => repo'.tree[e.ops[i].key] = e.ops[i].cid
          /\ \A k \in Rkeys :
               (\A i \in DOMAIN e.ops : e.ops[i].key # k) => repo'.tree[k] = repo.tree[k]
      <4>1. /\ DOMAIN e.ops = DOMAIN writes
            /\ \A i \in DOMAIN writes : e.ops[i].key = writes[i].key /\ e.ops[i].cid = writes[i].cid
        BY <3>3
      <4>2. ASSUME NEW i \in DOMAIN writes, Serial!IsLast(e.ops, i)
            PROVE  repo'.tree[writes[i].key] = writes[i].cid
        <5>1. writes[i] \in WriteOps /\ writes[i].key \in Rkeys
          BY <3>4 DEF WriteOps
        <5>2. \A j \in DOMAIN writes : j > i => writes[j].key # writes[i].key
          BY <4>1, <4>2 DEF Serial!IsLast
        <5>3. PICK m \in DOMAIN writes :
                /\ writes[m].key = writes[i].key
                /\ \A j \in DOMAIN writes : writes[j].key = writes[i].key => j <= m
                /\ repo'.tree[writes[i].key] = writes[m].cid
          <6> DEFINE k == writes[i].key
          <6>1. k \in Rkeys /\ writes[i].key = k
            BY <5>1
          <6> HIDE DEF k
          <6>2. \E m \in DOMAIN writes :
                  /\ writes[m].key = k
                  /\ \A j \in DOMAIN writes : writes[j].key = k => j <= m
                  /\ Apply(repo.tree, writes)[k] = writes[m].cid
            BY <3>4, <6>1, ApplyIs
          <6> QED BY <3>3, <6>1, <6>2
        <5>4. m = i
          BY <3>4, <5>2, <5>3
        <5> QED BY <5>3, <5>4
      <4>3. ASSUME NEW k \in Rkeys, \A i \in DOMAIN writes : writes[i].key # k
            PROVE  repo'.tree[k] = repo.tree[k]
        BY <3>3, <3>4, <4>3, ApplyIs
      <4> QED BY <4>1, <4>2, <4>3
    <3>7. e.rev > repo.rev /\ repo'.rev = e.rev /\ repo'.signed = e.rev
          /\ e.data = repo'.tree
      BY <2>2, <3>3
    <3>8. Serial!Write
      BY <3>1, <3>3, <3>4, <3>5, <3>6, <3>7 DEF Serial!Write
    <3> QED BY <2>3, <3>1, <3>8 DEF Serial!Next
  <2> QED BY <2>4, <2>5
<1>3. ASSUME NEW w \in Writers, Start(w) \/ Refuse(w) \/ Format(w) \/ Write(w) \/ Busy(w)
                                \/ SequenceCommit(w) \/ Rollback(w) \/ CommitFails(w)
                                \/ UpdateRepoRoot(w)
      PROVE  G
  <2>1. repo' = repo /\ commits' = commits /\ (events' = events \/ SequenceCommit(w))
    BY <1>3 DEF Start, Refuse, Format, Write, Busy, SequenceCommit, Rollback,
                CommitFails, UpdateRepoRoot, storeVars
  <2> QED BY <1>1, <2>1
<1>4. ASSUME repo' = repo, commits' = commits, events' = events PROVE G
  <2>1. Seen' = Seen
    BY <1>4 DEF Seen, Committed
  <2> QED BY <1>4, <2>1, FeedSame
<1>5. CASE Crash
  BY <1>4, <1>5 DEF Crash
<1>6. CASE UNCHANGED vars
  BY <1>4, <1>6 DEF vars, storeVars
<1> QED BY <1>2, <1>3, <1>5, <1>6 DEF Next, Proceed

\* However requests interleave, conflict, retry, fail or are cut off, the writes
\* that commit are as if they had run one after the other, each on top of the one
\* before it, and the events of them are the log of the repository.
THEOREM WritesAreSerial == Spec => IsSerial
<1>1. Init => Serial!Init /\ SeenRanked
  <2> SUFFICES ASSUME Init PROVE Serial!Init /\ SeenRanked
    OBVIOUS
  <2>1. events = <<>> /\ Seen = {}
    BY DEF Init, Seen
  <2>2. Cardinality(Seen) = 0
    BY <2>1, FS_EmptySet
  <2>3. CommittedEvents = <<>>
    BY <2>2, FeedIs
  <2>4. SeenRanked
    BY <2>2 DEF SeenRanked, Ranked
  <2> QED BY <2>3, <2>4 DEF Init, Serial!Init
<1>2. IInv /\ SeenRanked /\ [Next]_vars =>
        /\ SeenRanked'
        /\ [Serial!Next]_<<repo.tree, repo.index, repo.rev, repo.signed, CommittedEvents>>
  BY SerialStep
<1> QED BY <1>1, <1>2, Invariance, PTL DEF Spec, IsSerial, Serial!Spec
=============================================================================
