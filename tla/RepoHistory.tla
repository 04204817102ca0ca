----------------------------- MODULE RepoHistory -----------------------------
(***************************************************************************)
(* What the readers of a repository read: the blocks and the rows of the   *)
(* records as its commits leave them, the takedowns of records, and the    *)
(* status of the account.  How a commit comes to be, and that only whole   *)
(* ones are seen, is in RepoWrite; here a commit is one step.              *)
(*                                                                         *)
(* Records are posts and one profile.  A cid is a number that tells the    *)
(* content: of a record its text, of a tree all of its records, of a       *)
(* commit its revision.  The time of a commit is its revision.             *)
(***************************************************************************)
EXTENDS Integers, FiniteSets, Sequences, Functions, Pages

CONSTANTS
  Posts,     \* the keys of posts, numbers
  Texts,     \* what a record may say, the numbers from 1
  Says,      \* bound: [record -> what it does say, of Texts]
  TreeCid,   \* [what the records say -> the cid of the tree], for the hash
  MaxRev     \* bound: commits

ASSUME HistoryAssumption ==
  /\ Posts \subseteq Nat \ {0} /\ IsFiniteSet(Posts) /\ MaxRev \in Nat
  /\ Texts = 1..Cardinality(Texts)
  /\ \A p \in Posts \cup {0} : Says[p] \subseteq Texts
  /\ None \notin [text : Texts, rev : Nat]

(* Different trees have different cids, that are none of other blocks. *)
Said == Texts \cup {None}
ASSUME CidAssumption ==
  /\ IsInjective(TreeCid) /\ DOMAIN TreeCid = [Posts \cup {0} -> Said]
  /\ \A t \in DOMAIN TreeCid : TreeCid[t] \in Nat /\ TreeCid[t] > MaxRev + 2 * Cardinality(Texts) + 1

VARIABLES
  log,       \* the rows of the table of records after each commit; the last is the table
  blocks,    \* repo_block: cid -> the revision that it was stored with
  down,      \* records that are taken down
  status,    \* of the account: "up", or "down" (taken down or deactivated)
  reader,    \* the request under way: of which operation, and how far
  deleted,   \* history: the blocks deleted, and
  changed    \* history: the records changed, or the account, while it is

repoVars == <<log, blocks, down, status, deleted, changed>>

Profile == 0
Account == -1
Paths == Posts \cup {Profile}
Idle == [op |-> None, at |-> None]
Meanwhile(S) == IF reader.op = None THEN {} ELSE S
(* Bound: once there is an answer, nothing happens until it has been read. *)
Unanswered == reader.at # "done"
Rev == Len(log)
Rows == log[Rev]
Existing(rows) == {p \in Paths : rows[p] # None}

Leaf(p, text) == MaxRev + 2 * text + (IF p = Profile THEN 1 ELSE 0)
Tree(rows) == TreeCid[[p \in Paths |-> IF rows[p] = None THEN None ELSE rows[p].text]]
Blocks(r) == {r, Tree(log[r])} \cup {Leaf(p, log[r][p].text) : p \in Existing(log[r])}

HistoryInit ==
  /\ \E p \in Posts : \E t \in Says[p] :
       log = <<[q \in Paths |-> IF q = p THEN [text |-> t, rev |-> 1] ELSE None]>>
  /\ blocks = [c \in Blocks(1) |-> 1]
  /\ reader = Idle
  /\ down = {} /\ status = "up" /\ deleted = {} /\ changed = {}

(* Mutant: the blocks that a commit removes are left. *)
CommitLeavesBlocks(p, text) ==
  /\ Unanswered /\ Rev < MaxRev /\ (text = None => Rows[p] # None)
  /\ log' = Append(log, [Rows EXCEPT ![p] = IF text = None THEN None ELSE [text |-> text, rev |-> Rev + 1]])
  /\ blocks' = [c \in DOMAIN blocks \cup Blocks(Rev)' |-> IF c \in DOMAIN blocks THEN blocks[c] ELSE Rev + 1]
  /\ down' = IF text = None THEN down \ {p} ELSE down
  /\ changed' = changed \cup Meanwhile({p})
  /\ UNCHANGED <<status, reader, deleted>>

(* A record is created, updated (perhaps to the same) or deleted: its row, *)
(* and the blocks.  A block that is stored already keeps its revision.     *)
(* Reduced: one record to a commit, and no import; the blocks are those    *)
(* that the records need (see BlocksKept and AllBlocksKept of RepoWrite).  *)
Commit(p, text) ==
  /\ Unanswered /\ Rev < MaxRev
  /\ text = None => Rows[p] # None
  /\ log' = Append(log, [Rows EXCEPT ![p] = IF text = None THEN None ELSE [text |-> text, rev |-> Rev + 1]])
  /\ LET stored == Blocks(Rev)'
     IN  /\ blocks' = [c \in stored |-> IF c \in DOMAIN blocks THEN blocks[c] ELSE Rev + 1]
         /\ deleted' = deleted \cup Meanwhile(DOMAIN blocks \ stored)
  /\ down' = IF text = None THEN down \ {p} ELSE down
  /\ changed' = changed \cup Meanwhile({p})
  /\ UNCHANGED <<status, reader>>

(* updateRecordTakedownStatus, of a row that is there; an update keeps it. *)
(* Bound: of posts.                                                        *)
TakedownRecord(p) ==
  /\ Unanswered /\ Rows[p] # None /\ p # Profile
  /\ down' = IF p \in down THEN down \ {p} ELSE down \cup {p}
  /\ changed' = changed \cup Meanwhile({p})
  /\ UNCHANGED <<log, blocks, status, deleted, reader>>

(* The account is taken down or deactivated, or it returns. *)
ChangeStatus ==
  /\ Unanswered
  /\ status' \in {"up", "down"} \ {status}
  /\ changed' = changed \cup Meanwhile({Account})
  /\ UNCHANGED <<log, blocks, down, deleted, reader>>

(* A request ends, and with it what is remembered of its time. *)
Leave ==
  /\ reader.at = "done"
  /\ reader' = Idle /\ deleted' = {} /\ changed' = {}
  /\ UNCHANGED <<log, blocks, down, status>>

HistoryTypeOK ==
  /\ \A r \in 1..Rev : \A p \in Paths :
       log[r][p] = None \/ (log[r][p].text \in Texts /\ log[r][p].rev \in 1..r)
  /\ DOMAIN blocks = Blocks(Rev) /\ \A c \in DOMAIN blocks : blocks[c] \in 1..Rev
  /\ down \subseteq Existing(Rows) /\ changed \subseteq Paths \cup {Account}
  /\ status \in {"up", "down"}
=============================================================================
