----------------------------- MODULE SerialRepo -----------------------------
(***************************************************************************)
(* What the writes to one repository promise, whatever runs concurrently:  *)
(* commits happen one after the other; each describes on the feed exactly  *)
(* what it changed, on top of the commit before it, so that a consumer can *)
(* replay the feed, undo a commit of it as a whole, and see by `since`     *)
(* that none is missing.  The ops of a commit may name a path twice; their *)
(* `prev` is then what the path had before the commit, not before the op,  *)
(* so they do not undo one by one.  An import replaces the repository and  *)
(* is not on the feed.                                                     *)
(* Queries (getRecord, listRecords) answer what is signed and exported.    *)
(***************************************************************************)
EXTENDS Integers, Sequences

CONSTANT Rkeys

VARIABLES
  tree,  \* the record at each path, as it is signed
  index, \* the record at each path, as queries answer it
  rev,   \* the revision of the repository
  head,  \* the revision inside of its signed commit
  feed   \* the commits described to the world

Init == index = tree /\ rev = 0 /\ head = 0 /\ feed = <<>>

\* No later op is on the same path.
IsLast(ops, i) == \A j \in DOMAIN ops : j > i => ops[j].key # ops[i].key

\* The last commit of the new feed is one more, and is the change made.
Write ==
  LET e == feed'[Len(feed')]
  IN /\ Len(feed') = Len(feed) + 1
     /\ SubSeq(feed', 1, Len(feed)) = feed
     /\ e.rev > rev
     /\ e.since = head
     /\ e.prevData = tree
     /\ \A i \in DOMAIN e.ops : e.ops[i].prev = tree[e.ops[i].key]
     /\ \A i \in DOMAIN e.ops : IsLast(e.ops, i) => tree'[e.ops[i].key] = e.ops[i].cid
     /\ \A k \in Rkeys : (\A i \in DOMAIN e.ops : e.ops[i].key # k) => tree'[k] = tree[k]
     /\ DOMAIN tree' = Rkeys /\ e.data = tree'
     /\ rev' = e.rev
     /\ head' = e.rev

Replace ==
  /\ rev' > rev
  /\ UNCHANGED feed

Next == (Write \/ Replace) /\ index' = tree'

Spec == Init /\ [][Next]_<<tree, index, rev, head, feed>>
=============================================================================
