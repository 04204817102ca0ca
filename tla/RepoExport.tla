----------------------------- MODULE RepoExport -----------------------------
(***************************************************************************)
(* What others fetch of a repository to synchronise with it: com.atproto   *)
(* .sync getRepo (getCheckout), getRecord, getBlocks, getLatestCommit      *)
(* (getHead) and getRepoStatus, and com.atproto.repo listRecords and       *)
(* getRecord.  Each query reads the database as it is at that moment; no   *)
(* transaction spans two of them, so commits come in between.              *)
(***************************************************************************)
EXTENDS RepoHistory

CONSTANT Since   \* from which revisions on exports are asked; 0 is for all

ASSUME ExportAssumption == Since \subseteq Nat

Unavailable(mine) == ~mine /\ status # "up"
ReadOnly == UNCHANGED repoVars

(* A request, what it is of, and what it will have in hand: the root and   *)
(* the cursor of what it reads, what it was sent or was listed, a page     *)
(* after the other, and the rows there were when it began.                 *)
Request(op) ==
  [op |-> op, at |-> "asked", answer |-> None, since |-> 0, path |-> None, cids |-> {},
   root |-> 0, cursor |-> <<>>, sent |-> {}, todo |-> <<>>, found |-> None,
   direction |-> None, limit |-> 0, listed |-> <<>>, start |-> {}]
Done(r, answer) == reader' = [r EXCEPT !.at = "done", !.answer = answer]

(* The check of a handler of sync before it opens the database; "mine" for *)
(* an administrator or the account itself.                                 *)
AssertRepoAvailability(request, mine) ==
  /\ reader = Idle
  /\ IF Unavailable(mine) THEN Done(request, "unavailable")
     ELSE reader' = [request EXCEPT !.at = "available"]
  /\ ReadOnly

GetRepo(since, mine) == since <= Rev /\ AssertRepoAvailability([Request("getRepo") EXCEPT !.since = since], mine)
GetCheckout(mine) == GetRepo(0, mine)
GetRecordProof(p, mine) == AssertRepoAvailability([Request("getRecord") EXCEPT !.path = p], mine)
GetBlocks(cids, mine) == AssertRepoAvailability([Request("getBlocks") EXCEPT !.cids = cids], mine)
GetLatestCommit(mine) == AssertRepoAvailability(Request("getLatestCommit"), mine)
GetHead(mine) == AssertRepoAvailability(Request("getHead"), mine)

(* getCarStream: the root first, then the blocks while they are sent. *)
GetCarStream ==
  /\ reader.op = "getRepo" /\ reader.at = "available"
  /\ reader' = [reader EXCEPT !.at = "pages", !.root = Rev]
  /\ ReadOnly

(* iterateCarBlocks, getBlockRange: newest first, until a page is empty. *)
GetBlockRange ==
  /\ reader.op = "getRepo" /\ reader.at = "pages"
  /\ LET keys == {<<blocks[c], c>> : c \in {b \in DOMAIN blocks : blocks[b] > reader.since}}
         page == Page(keys, reader.cursor, "desc", PageSize)
     IN  IF page = {} THEN Done(reader, "ok")
         ELSE reader' = [reader EXCEPT !.cursor = Cursor(page, "desc"),
                                       !.sent = @ \cup {k[2] : k \in page}]
  /\ ReadOnly

(* The path of a record: its commit, the tree, and the record if there is  *)
(* one; each is looked up when it is its turn.  A missing one is an error. *)
ProofOf(r, p) ==
  <<r, Tree(log[r])>> \o (IF log[r][p] = None THEN <<>> ELSE <<Leaf(p, log[r][p].text)>>)
GetRoot ==
  /\ reader.op = "getRecord" /\ reader.at = "available"
  /\ reader' = [reader EXCEPT !.at = "proof", !.todo = ProofOf(Rev, reader.path)]
  /\ ReadOnly
GetBytes ==
  /\ reader.op = "getRecord" /\ reader.at = "proof"
  /\ IF reader.todo = <<>> THEN Done(reader, "ok")
     ELSE IF Head(reader.todo) \notin DOMAIN blocks THEN Done(reader, "missing block")
     ELSE reader' = [reader EXCEPT !.todo = Tail(@)]
  /\ ReadOnly

ReadBlocks ==
  /\ reader.op = "getBlocks" /\ reader.at = "available"
  /\ Done(reader, IF reader.cids \subseteq DOMAIN blocks THEN "ok" ELSE "missing block")
  /\ ReadOnly

ReadCommit ==
  /\ reader.op \in {"getLatestCommit", "getHead"} /\ reader.at = "available"
  /\ Done([reader EXCEPT !.root = Rev], "ok")
  /\ ReadOnly

(* getRepoStatus: the status for anybody, the revision of an active one. *)
GetRepoStatus ==
  /\ reader = Idle
  /\ LET r == [Request("getRepoStatus") EXCEPT !.at = "available", !.found = status]
     IN  IF status = "up" THEN reader' = r ELSE Done(r, "ok")
  /\ ReadOnly
ReadStatusRev ==
  /\ reader.op = "getRepoStatus" /\ reader.at = "available"
  /\ Done([reader EXCEPT !.root = Rev], "ok")
  /\ ReadOnly

(* getDidForActor: an account that is not up has no repository here. *)
GetDidForActor ==
  /\ reader.op \in {"read", "listRecords"} /\ reader.at = "asked"
  /\ IF status = "up" THEN reader' = [reader EXCEPT !.at = "available"]
     ELSE Done(reader, "unavailable")
  /\ ReadOnly

GetRecord(p) ==
  /\ reader = Idle
  /\ reader' = [Request("read") EXCEPT !.path = p]
  /\ ReadOnly
ReadRecord ==
  /\ reader.op = "read" /\ reader.at = "available"
  /\ Done(reader, IF Rows[reader.path] = None \/ reader.path \in down THEN "RecordNotFound" ELSE "ok")
  /\ ReadOnly

(* listRecords: a page at each call, from the last key of the one before,  *)
(* until a page is empty and has no cursor.                                *)
ListRecords(direction, limit) ==
  /\ reader = Idle
  /\ reader' = [Request("listRecords") EXCEPT !.direction = direction, !.limit = limit,
                                          !.start = (Posts \cap Existing(Rows)) \ down]
  /\ ReadOnly
ListRecordsForCollection ==
  /\ reader.op = "listRecords" /\ reader.at = "available"
  /\ LET keys == {<<p, 0>> : p \in (Posts \cap Existing(Rows)) \ down}
         page == Page(keys, reader.cursor, reader.direction, reader.limit)
     IN  IF page = {} THEN Done(reader, "ok")
         ELSE reader' = [reader EXCEPT !.at = "asked", !.cursor = Cursor(page, reader.direction),
                                       !.listed = Append(@, {k[1] : k \in page})]
  /\ ReadOnly

(* describeRepo: for nobody else than others, and with the document of the *)
(* directory, or not at all; then which collections there are.             *)
DescribeRepo == AssertRepoAvailability(Request("describeRepo"), FALSE)
ListCollections ==
  /\ reader.op = "describeRepo" /\ reader.at = "available"
  /\ \/ Done(reader, "no document")
     \/ Done([reader EXCEPT !.found = {p = Profile : p \in Existing(Rows)}], "ok")
  /\ ReadOnly

Export ==
  \/ \E mine \in BOOLEAN :
       \/ \E since \in Since : GetRepo(since, mine)
       \/ \E p \in Paths : GetRecordProof(p, mine)
       \/ \E cids \in {{Rev}, {1, Tree(Rows)}} : GetBlocks(cids, mine)
       \/ GetCheckout(mine) \/ GetLatestCommit(mine) \/ GetHead(mine)
  \/ GetCarStream \/ GetBlockRange \/ GetRoot \/ GetBytes \/ ReadBlocks \/ ReadCommit
  \/ GetRepoStatus \/ ReadStatusRev
  \/ GetDidForActor \/ \E p \in Paths : GetRecord(p) \/ ReadRecord
  \/ \E direction \in Directions, limit \in 1..PageSize : ListRecords(direction, limit)
  \/ ListRecordsForCollection \/ DescribeRepo \/ ListCollections

-----------------------------------------------------------------------------
(* getRepo promises the repository at its root, or what is new in it since *)
(* a revision: who had all of that revision has then all of the root,      *)
(* unless a commit deleted a block while the export was under way.  The    *)
(* keys of the pages, the revision kept by a block that is stored again,   *)
(* and the order of the root and the pages make it so.                     *)
Held(since) == IF since = 0 THEN {} ELSE Blocks(since)
ExportLosesNothing ==
  reader.op = "getRepo" /\ reader.at = "done" /\ reader.answer = "ok" =>
    Blocks(reader.root) \subseteq Held(reader.since) \cup reader.sent \cup deleted
=============================================================================
