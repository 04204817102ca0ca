---------------------------- MODULE ReadersProofs ----------------------------
(***************************************************************************)
(* Proofs about Readers, for any repository, tables, pages and revisions.  *)
(***************************************************************************)
EXTENDS Readers, FiniteSetTheorems, WellFoundedInduction, TLAPS

-----------------------------------------------------------------------------
(***************************************************************************)
(* Pages: which rows a page has, and where its cursor is.                  *)
(***************************************************************************)
Keys == Nat \X Nat

LEMMA KeyIsSomething ==
  ASSUME NEW key \in Keys
  PROVE  key # <<>>
<1>1. PICK a, b \in Nat : key = <<a, b>>
  BY DEF Keys
<1>2. Len(<<a, b>>) = 2 /\ Len(<<>>) = 0
  OBVIOUS
<1> QED BY <1>1, <1>2

LEMMA Ordered ==
  ASSUME NEW dir
  PROVE  /\ \A a \in Keys : ~Comes(a, a, dir)
         /\ \A a, b, c \in Keys : Comes(a, b, dir) /\ Comes(b, c, dir) => Comes(a, c, dir)
         /\ \A a, b \in Keys : a = b \/ Comes(a, b, dir) \/ Comes(b, a, dir)
<1>1. /\ \A a \in Keys : ~Less(a, a)
      /\ \A a, b, c \in Keys : Less(a, b) /\ Less(b, c) => Less(a, c)
      /\ \A a, b \in Keys : a = b \/ Less(a, b) \/ Less(b, a)
  BY DEF Keys, Less
<1> QED BY <1>1 DEF Comes

LEMMA Least ==
  ASSUME NEW S \in SUBSET Nat, S # {}
  PROVE  \E x \in S : \A y \in S : x <= y
<1> DEFINE R == OpToRel(<, Nat)
<1>1. IsWellFoundedOn(R, Nat)
  BY NatLessThanWellFounded
<1>2. \A x, y \in Nat : <<y, x>> \in R <=> y < x
  BY DEF OpToRel
<1> HIDE DEF R
<1>3. PICK x \in S : \A y \in S : <<y, x>> \notin R
  BY <1>1, WFMin
<1>4. ASSUME NEW y \in S PROVE x <= y
  <2>1. x \in Nat /\ y \in Nat
    OBVIOUS
  <2>2. ~(y < x)
    BY <1>2, <1>3, <2>1
  <2> QED BY <2>1, <2>2
<1> QED BY <1>4

LEMMA Greatest ==
  ASSUME NEW n \in Nat, NEW S \in SUBSET (1..n), S # {}
  PROVE  \E x \in S : \A y \in S : y <= x
<1> DEFINE D == {n - y : y \in S}
<1>1. D \subseteq Nat /\ D # {}
  <2>1. \A y \in S : n - y \in Nat
    OBVIOUS
  <2> QED BY <2>1
<1>2. PICK z \in D : \A w \in D : z <= w
  BY <1>1, Least
<1>3. PICK x \in S : z = n - x
  OBVIOUS
<1>4. ASSUME NEW y \in S PROVE y <= x
  <2>1. n - x <= n - y
    BY <1>2, <1>3
  <2>2. x \in Nat /\ y \in Nat
    OBVIOUS
  <2> QED BY <2>1, <2>2
<1> QED BY <1>4

\* How many rows come before a row: fewer for an earlier one.
LEMMA Ranks ==
  ASSUME NEW K \in SUBSET Keys, IsFiniteSet(K), NEW dir, NEW a \in K
  PROVE  /\ Cardinality(Earlier(K, a, dir)) \in Nat
         /\ \A b \in K : Comes(b, a, dir) =>
              Cardinality(Earlier(K, b, dir)) < Cardinality(Earlier(K, a, dir))
<1>1. \A b \in K : IsFiniteSet(Earlier(K, b, dir)) /\ Cardinality(Earlier(K, b, dir)) \in Nat
  <2> TAKE b \in K
  <2>1. Earlier(K, b, dir) \in SUBSET K
    BY DEF Earlier
  <2> QED BY <2>1, FS_Subset, FS_CardinalityType
<1>2. ASSUME NEW b \in K, Comes(b, a, dir)
      PROVE  Cardinality(Earlier(K, b, dir)) < Cardinality(Earlier(K, a, dir))
  <2>1. Earlier(K, b, dir) \in SUBSET Earlier(K, a, dir)
    BY <1>2, Ordered DEF Earlier
  <2>2. b \in Earlier(K, a, dir) /\ b \notin Earlier(K, b, dir)
    BY <1>2, Ordered DEF Earlier
  <2>3. Cardinality(Earlier(K, b, dir)) <= Cardinality(Earlier(K, a, dir))
        /\ Cardinality(Earlier(K, b, dir)) # Cardinality(Earlier(K, a, dir))
    BY <1>1, <2>1, <2>2, FS_Subset
  <2> QED BY <1>1, <2>3
<1> QED BY <1>1, <1>2

\* A page is empty only if nothing comes after the cursor; else the new cursor is
\* of one of its rows, and it has all that come after the old one and not after
\* the new one.
LEMMA PageIs ==
  ASSUME NEW K \in SUBSET Keys, IsFiniteSet(K), NEW cursor, NEW dir, NEW limit \in Nat \ {0},
         NEW page, page = Page(K, cursor, dir, limit)
  PROVE  /\ page \subseteq K
         /\ page = {} => \A k \in K : ~After(cursor, k, dir)
         /\ page # {} => /\ Cursor(page, dir) \in page
                         /\ \A k \in K : k \in page <=> After(cursor, k, dir) /\ ~Comes(Cursor(page, dir), k, dir)
<1> DEFINE rest == Rest(K, cursor, dir)
           rank(k) == Cardinality(Earlier(rest, k, dir))
<1>1. rest \in SUBSET K /\ rest \in SUBSET Keys /\ IsFiniteSet(rest) /\ \A k \in K : k \in rest <=> After(cursor, k, dir)
  <2>1. rest \in SUBSET K
    BY DEF Rest
  <2> QED BY <2>1, FS_Subset DEF Rest
<1>2. page = {k \in rest : rank(k) < limit}
  BY DEF Page
<1>3. /\ \A k \in rest : rank(k) \in Nat
      /\ \A j, k \in rest : Comes(j, k, dir) => rank(j) < rank(k)
  BY <1>1, Ranks
<1> HIDE DEF rest, rank
<1>4. \A j, k \in rest : j = k \/ Comes(j, k, dir) \/ Comes(k, j, dir)
  BY <1>1, Ordered
<1>5. ASSUME rest # {} PROVE page # {}
  <2>1. {rank(k) : k \in rest} \in SUBSET Nat /\ {rank(k) : k \in rest} # {}
    BY <1>3, <1>5
  <2>2. PICK n \in {rank(k) : k \in rest} : \A m \in {rank(k) : k \in rest} : n <= m
    BY <2>1, Least
  <2>3. PICK k \in rest : n = rank(k)
    OBVIOUS
  <2>4. \A j \in rest : ~Comes(j, k, dir)
    BY <1>3, <2>2, <2>3
  <2>5. Earlier(rest, k, dir) = {}
    BY <2>4 DEF Earlier
  <2>6. rank(k) = 0
    BY <2>5, FS_EmptySet DEF rank
  <2> QED BY <1>2, <2>6
<1>6. ASSUME page # {} PROVE \E k \in page : \A j \in page : ~Comes(k, j, dir)
  <2> DEFINE S == {rank(k) + 1 : k \in page}
  <2>1. S \in SUBSET (1..limit) /\ S # {}
    <3>1. \A k \in page : rank(k) \in Nat /\ rank(k) < limit
      BY <1>2, <1>3
    <3>2. \A k \in page : rank(k) + 1 \in 1..limit
      BY <3>1
    <3> QED BY <1>6, <3>2
  <2>2. PICK n \in S : \A m \in S : m <= n
    BY <2>1, Greatest
  <2>3. PICK k \in page : n = rank(k) + 1
    OBVIOUS
  <2>4. ASSUME NEW j \in page PROVE ~Comes(k, j, dir)
    <3>1. rank(j) + 1 <= rank(k) + 1 /\ rank(j) \in Nat /\ rank(k) \in Nat
      BY <1>2, <1>3, <2>2, <2>3
    <3> QED BY <1>2, <1>3, <3>1
  <2> QED BY <2>4
<1>7. page # {} => Cursor(page, dir) \in page /\ \A j \in page : ~Comes(Cursor(page, dir), j, dir)
  BY <1>6 DEF Cursor
<1>8. ASSUME page # {}, NEW k \in rest, ~Comes(Cursor(page, dir), k, dir) PROVE k \in page
  <2> DEFINE c == Cursor(page, dir)
  <2>1. c \in page /\ c \in rest
    BY <1>2, <1>7, <1>8
  <2>2. CASE k = c
    BY <2>1, <2>2
  <2>3. CASE k # c
    <3>1. Comes(k, c, dir)
      BY <1>4, <1>8, <2>1, <2>3
    <3>2. rank(k) < rank(c) /\ rank(c) < limit /\ rank(k) \in Nat /\ rank(c) \in Nat
      BY <1>2, <1>3, <2>1, <3>1
    <3> QED BY <1>2, <3>2
  <2> QED BY <2>2, <2>3
<1> QED BY <1>1, <1>2, <1>5, <1>7, <1>8

-----------------------------------------------------------------------------
(***************************************************************************)
(* What a reader in pages has been given.                                  *)
(***************************************************************************)
\* The pages with an item; an item is on one once the cursor has passed its key, and
\* on none before.
Times(listed, item) == {i \in DOMAIN listed : item \in listed[i]}
Marked(listed, item, cursor, key, dir) ==
  IF After(cursor, key, dir) THEN Times(listed, item) = {} ELSE Cardinality(Times(listed, item)) = 1

LEMMA OnePageMore ==
  ASSUME NEW listed, listed \in Seq(SUBSET Nat), NEW items \in SUBSET Nat, NEW item
  PROVE  /\ Append(listed, items) \in Seq(SUBSET Nat)
         /\ item \notin items => Times(Append(listed, items), item) = Times(listed, item)
         /\ item \in items /\ Times(listed, item) = {} => Cardinality(Times(Append(listed, items), item)) = 1
<1> DEFINE new == Append(listed, items)
           n == Len(listed) + 1
<1>1. /\ new \in Seq(SUBSET Nat) /\ DOMAIN new = DOMAIN listed \cup {n} /\ n \notin DOMAIN listed /\ new[n] = items
      /\ \A i \in DOMAIN listed : new[i] = listed[i]
  OBVIOUS
<1> HIDE DEF new, n
<1>2. item \notin items => Times(new, item) = Times(listed, item)
  BY <1>1 DEF Times
<1>3. ASSUME item \in items, Times(listed, item) = {} PROVE Cardinality(Times(new, item)) = 1
  <2>1. Times(new, item) = {n}
    BY <1>1, <1>3 DEF Times
  <2> QED BY <2>1, FS_Singleton
<1> QED BY <1>1, <1>2, <1>3 DEF new

LEMMA StartsUnlisted ==
  ASSUME NEW item, NEW key, NEW dir
  PROVE  Marked(<<>>, item, <<>>, key, dir)
BY DEF Marked, Times, After

\* One page more keeps the marks: it has the item if and only if it has its key.
LEMMA PageMarks ==
  ASSUME NEW K \in SUBSET Keys, IsFiniteSet(K), NEW cursor \in Keys \cup {<<>>}, NEW dir,
         NEW limit \in Nat \ {0}, NEW page, page = Page(K, cursor, dir, limit),
         NEW listed, listed \in Seq(SUBSET Nat), NEW items \in SUBSET Nat,
         NEW key \in K, NEW item, Marked(listed, item, cursor, key, dir),
         item \in items <=> key \in page
  PROVE  /\ page = {} => Cardinality(Times(listed, item)) = 1
         /\ page # {} => Marked(Append(listed, items), item, Cursor(page, dir), key, dir)
<1>1. CASE page = {}
  BY <1>1, PageIs DEF Marked
<1>2. CASE page # {}
  <2> DEFINE c == Cursor(page, dir)
  <2>1. /\ c \in page /\ page \subseteq K
        /\ \A k \in K : k \in page <=> After(cursor, k, dir) /\ ~Comes(c, k, dir)
    BY <1>2, PageIs
  <2>2. c \in Keys /\ c # <<>> /\ key \in Keys
    <3>1. \A x \in Keys : x # <<>>
      BY KeyIsSomething
    <3> QED BY <2>1, <3>1
  <2>3. After(c, key, dir) <=> Comes(c, key, dir)
    BY <2>2 DEF After
  <2>4. Comes(c, key, dir) => After(cursor, key, dir)
    <3>1. cursor = <<>> \/ Comes(cursor, c, dir)
      BY <2>1 DEF After
    <3> QED BY <2>2, <3>1, Ordered DEF After
  <2> HIDE DEF c
  <2>5. CASE key \in page
    <3>1. After(cursor, key, dir) /\ ~After(c, key, dir)
      BY <2>1, <2>3, <2>5
    <3>2. Times(listed, item) = {} /\ item \in items
      BY <2>5, <3>1 DEF Marked
    <3>3. Cardinality(Times(Append(listed, items), item)) = 1
      BY <3>2, OnePageMore
    <3> QED BY <1>2, <3>1, <3>3 DEF Marked, c
  <2>6. CASE key \notin page
    <3>1. After(c, key, dir) <=> After(cursor, key, dir)
      BY <2>1, <2>3, <2>4, <2>6
    <3>2. Times(Append(listed, items), item) = Times(listed, item)
      BY <2>6, OnePageMore
    <3> QED BY <1>2, <3>1, <3>2 DEF Marked, c
  <2> QED BY <2>5, <2>6
<1> QED BY <1>1, <1>2

-----------------------------------------------------------------------------
(***************************************************************************)
(* The invariant of the repository.                                        *)
(***************************************************************************)
RecordRow == [text : Texts, rev : Nat]
RecordTable == [Paths -> RecordRow \cup {None}]

LogShape ==
  /\ log \in Seq(RecordTable) /\ Len(log) > 0
  /\ \A r \in 1..Rev : \A p \in Paths : log[r][p] = None \/ log[r][p].rev \in 1..r

\* A block is as old as it says: all revisions since have it.
BlocksKeepRev ==
  /\ DOMAIN blocks = Blocks(Rev)
  /\ \A c \in DOMAIN blocks :
       blocks[c] \in 1..Rev /\ \A r \in 1..Rev : r >= blocks[c] => c \in Blocks(r)

StateShape ==
  /\ down \subseteq Existing(Rows) /\ changed \subseteq Paths \cup {Account}
  /\ status \in {"up", "down"}

\* What an export has still to send comes after its cursor.
Exporting ==
  reader.op = "getRepo" =>
    /\ reader.since \in Nat /\ reader.since <= Rev /\ reader.at \in {"available", "pages", "done"}
    /\ reader.at = "available" => reader.cursor = <<>>
    /\ reader.at = "pages" \/ (reader.at = "done" /\ reader.answer = "ok") =>
         /\ reader.root \in 1..Rev /\ reader.since <= reader.root
         /\ reader.cursor \in Keys \cup {<<>>}
         /\ \A c \in Blocks(reader.root) \ deleted :
              /\ c \in DOMAIN blocks
              /\ \/ blocks[c] <= reader.since
                 \/ c \in reader.sent
                 \/ reader.at = "pages" /\ After(reader.cursor, <<blocks[c], c>>, "desc")

ListingRecords ==
  reader.op = "listRecords" =>
    /\ reader.at \in {"asked", "available", "done"} /\ reader.limit \in Nat \ {0}
    /\ reader.cursor \in Keys \cup {<<>>} /\ reader.listed \in Seq(SUBSET Nat)
    /\ \A p \in reader.start \ changed :
         /\ p \in (Posts \cap Existing(Rows)) \ down
         /\ reader.at # "done" => Marked(reader.listed, p, reader.cursor, <<p, 0>>, reader.direction)
         /\ reader.at = "done" /\ reader.answer = "ok" => Cardinality(Times(reader.listed, p)) = 1

Fields == {"op", "at", "answer", "since", "path", "cids", "root", "cursor", "sent", "todo",
           "found", "direction", "limit", "listed", "start"}
Formed(q) == q.op \in Operations \ {"merge"} /\ DOMAIN q = Fields /\ q = [f \in Fields |-> q[f]]
ReaderShape ==
  \/ reader = Idle
  \/ Formed(reader)
  \/ reader.op = "merge" /\ "op" \in DOMAIN reader /\ reader = [f \in DOMAIN reader |-> reader[f]]

RepoInv == LogShape /\ BlocksKeepRev /\ StateShape /\ ReaderShape /\ Exporting /\ ListingRecords

LEMMA PathsAre ==
  /\ Paths = Posts \cup {0} /\ IsFiniteSet(Paths) /\ Paths \subseteq Nat /\ 0 \notin Posts
  /\ Texts \subseteq Nat \ {0}
<1>1. Paths = Posts \cup {0} /\ Paths \subseteq Nat /\ 0 \notin Posts
  BY HistoryAssumption DEF Paths, Profile
<1>2. IsFiniteSet(Paths)
  BY <1>1, HistoryAssumption, FS_AddElement
<1>3. \A t \in Texts : t \in 1..Cardinality(Texts)
  BY HistoryAssumption
<1>4. \A n : \A t \in 1..n : t \in Nat \ {0}
  OBVIOUS
<1> QED BY <1>1, <1>2, <1>3, <1>4

\* Blocks are finitely many numbers.
LEMMA BlocksAre ==
  ASSUME LogShape, NEW r \in 1..Rev
  PROVE  Blocks(r) \subseteq Nat /\ IsFiniteSet(Blocks(r)) /\ Existing(log[r]) \subseteq Paths
<1> DEFINE rows == log[r]
<1>1. rows \in RecordTable /\ Rev \in Nat
  BY DEF LogShape, Rev
<1> HIDE DEF rows
<1>2. Existing(rows) \subseteq Paths /\ IsFiniteSet(Existing(rows))
  <2>1. Existing(rows) \in SUBSET Paths
    BY DEF Existing
  <2> QED BY <2>1, PathsAre, FS_Subset
<1>3. \A p \in Existing(rows) : rows[p].text \in Texts
  BY <1>1 DEF Existing, RecordTable, RecordRow
<1>4. \A p \in Existing(rows) : Leaf(p, rows[p].text) \in Nat
  <2> TAKE p \in Existing(rows)
  <2>1. rows[p].text \in Nat /\ MaxRev \in Nat
    BY <1>3, PathsAre, HistoryAssumption
  <2> QED BY <2>1 DEF Leaf
<1>5. Tree(rows) \in Nat
  <2> DEFINE said == [p \in Paths |-> IF rows[p] = None THEN None ELSE rows[p].text]
  <2>1. said \in [Paths -> Said]
    BY <1>1 DEF RecordTable, RecordRow, Said
  <2> HIDE DEF said
  <2>2. said \in DOMAIN TreeCid
    BY <2>1, PathsAre, CidAssumption
  <2> QED BY <2>2, CidAssumption DEF Tree, said
<1> DEFINE leaves == {Leaf(p, rows[p].text) : p \in Existing(rows)}
           f == [p \in Existing(rows) |-> Leaf(p, rows[p].text)]
<1>6. IsFiniteSet(leaves)
  <2>1. f \in Surjection(Existing(rows), leaves)
    BY DEF Surjection
  <2> HIDE DEF f, leaves
  <2> QED BY <1>2, <2>1, FS_Surjection
<1>7. Blocks(r) = (leaves \cup {r}) \cup {Tree(rows)}
  BY DEF Blocks, rows
<1>8. leaves \subseteq Nat /\ r \in Nat
  BY <1>4
<1> HIDE DEF leaves
<1>9. IsFiniteSet(Blocks(r))
  BY <1>6, <1>7, FS_AddElement
<1> QED BY <1>2, <1>5, <1>7, <1>8, <1>9 DEF rows

LEMMA RepoInit == HistoryInit => RepoInv
<1> SUFFICES ASSUME HistoryInit PROVE RepoInv
  OBVIOUS
<1>0. PICK p \in Posts : \E t \in Says[p] :
        log = <<[q \in Paths |-> IF q = p THEN [text |-> t, rev |-> 1] ELSE None]>>
  BY DEF HistoryInit
<1>1. PICK t \in Says[p] :
        log = <<[q \in Paths |-> IF q = p THEN [text |-> t, rev |-> 1] ELSE None]>>
  BY <1>0
<1>2. t \in Texts
  BY HistoryAssumption
<1> DEFINE rows == [q \in Paths |-> IF q = p THEN [text |-> t, rev |-> 1] ELSE None]
<1>3. rows \in RecordTable /\ \A q \in Paths : rows[q] = None \/ rows[q].rev \in 1..1
  BY <1>2 DEF RecordTable, RecordRow
<1> HIDE DEF rows
<1>4. log = <<rows>>
  BY <1>1 DEF rows
<1>5. log \in Seq(RecordTable) /\ Len(log) = 1 /\ log[1] = rows /\ Rev = 1 /\ Rows = rows
  BY <1>3, <1>4 DEF Rev, Rows
<1>6. LogShape
  BY <1>3, <1>5 DEF LogShape
<1>7. BlocksKeepRev
  BY <1>5 DEF BlocksKeepRev, HistoryInit
<1>8. StateShape
  BY DEF StateShape, HistoryInit
<1>9. ReaderShape /\ Exporting /\ ListingRecords
  BY NoneAssumption DEF ReaderShape, Exporting, ListingRecords, HistoryInit, Idle, Operations
<1> QED BY <1>6, <1>7, <1>8, <1>9 DEF RepoInv

\* Nothing that was committed changes.
LEMMA LogGrows ==
  ASSUME LogShape, NEW rows \in RecordTable, log' = Append(log, rows),
         \A q \in Paths : rows[q] = None \/ rows[q].rev \in 1..(Rev + 1)
  PROVE  /\ LogShape' /\ Rev' = Rev + 1 /\ Rows' = rows /\ Rev \in Nat \ {0}
         /\ \A r \in 1..Rev : log'[r] = log[r] /\ Blocks(r)' = Blocks(r)
<1>1. /\ Rev \in Nat \ {0} /\ Rev' = Rev + 1 /\ log'[Rev + 1] = rows /\ log' \in Seq(RecordTable)
      /\ \A r \in 1..Rev : log'[r] = log[r]
  BY DEF LogShape, Rev
<1>2. \A r \in 1..(Rev + 1) : \A q \in Paths : log'[r][q] = None \/ log'[r][q].rev \in 1..r
  <2> TAKE r \in 1..(Rev + 1)
  <2>1. CASE r = Rev + 1
    BY <1>1, <2>1
  <2>2. CASE r # Rev + 1
    <3>1. r \in 1..Rev
      BY <1>1, <2>2
    <3> QED BY <1>1, <3>1 DEF LogShape
  <2> QED BY <2>1, <2>2
<1>3. LogShape'
  BY <1>1, <1>2 DEF LogShape, Rev
<1>4. \A r \in 1..Rev : Blocks(r)' = Blocks(r)
  BY <1>1 DEF Blocks, Tree, Existing
<1>5. Rows' = rows
  BY <1>1 DEF Rows
<1> QED BY <1>1, <1>3, <1>4, <1>5

LEMMA CommitKeeps ==
  ASSUME RepoInv, NEW p \in Paths, NEW text \in Says[p] \cup {None}, Commit(p, text)
  PROVE  RepoInv'
<1> DEFINE row == IF text = None THEN None ELSE [text |-> text, rev |-> Rev + 1]
           rows == [Rows EXCEPT ![p] = row]
           new == Blocks(Rev)'
<1>1. LogShape /\ Rev \in Nat \ {0} /\ Rows \in RecordTable /\ \A q \in Paths : Rows[q] = None \/ Rows[q].rev \in 1..Rev
  BY DEF RepoInv, LogShape, Rev, Rows
<1>2. rows \in RecordTable /\ \A q \in Paths : rows[q] = None \/ rows[q].rev \in 1..(Rev + 1)
  <2>1. Says[p] \subseteq Texts
    BY HistoryAssumption, PathsAre
  <2>2. row \in RecordRow \cup {None} /\ (row = None \/ row.rev = Rev + 1)
    BY <1>1, <2>1 DEF RecordRow
  <2> HIDE DEF row
  <2>3. rows \in RecordTable /\ rows[p] = row /\ \A q \in Paths \ {p} : rows[q] = Rows[q]
    BY <1>1, <2>2 DEF RecordTable
  <2> QED BY <1>1, <2>2, <2>3
<1>3. log' = Append(log, rows)
  BY DEF Commit
<1>4. \A q \in Paths \ {p} : rows[q] = Rows[q]
  BY <1>1 DEF RecordTable
<1>5. text # None => rows[p] # None
  <2>1. SUFFICES ASSUME text # None PROVE rows[p] # None
    OBVIOUS
  <2>2. text \in Texts /\ rows[p] = [text |-> text, rev |-> Rev + 1]
    BY <1>1, <2>1, HistoryAssumption, PathsAre DEF RecordTable
  <2>3. rows[p] \in [text : Texts, rev : Nat]
    BY <1>1, <2>2
  <2> QED BY <2>3, HistoryAssumption
<1> HIDE DEF rows, new
<1>6. /\ LogShape' /\ Rev' = Rev + 1 /\ Rows' = rows /\ \A r \in 1..Rev : Blocks(r)' = Blocks(r)
  BY <1>1, <1>2, <1>3, LogGrows
<1>7. /\ blocks' = [c \in new |-> IF c \in DOMAIN blocks THEN blocks[c] ELSE Rev + 1]
      /\ deleted' = deleted \cup Meanwhile(DOMAIN blocks \ new)
      /\ changed' = changed \cup Meanwhile({p})
      /\ reader' = reader /\ reader.at # "done" /\ status' = status
      /\ down' = IF text = None THEN down \ {p} ELSE down
  BY DEF Commit, new, Unanswered
<1>8. BlocksKeepRev'
  <2>1. DOMAIN blocks' = Blocks(Rev)' /\ Rev' = Rev + 1
    BY <1>6, <1>7 DEF new
  <2>2. ASSUME NEW c \in new
        PROVE  blocks'[c] \in 1..(Rev + 1) /\ \A r \in 1..(Rev + 1) : r >= blocks'[c] => c \in Blocks(r)'
    <3>1. \A r \in 1..(Rev + 1) : r = Rev + 1 => c \in Blocks(r)'
      <4>1. c \in Blocks(Rev)' /\ Rev' = Rev + 1
        BY <1>6, <2>2 DEF new
      <4>2. \A r : r = Rev' => Blocks(r)' = Blocks(Rev)'
        BY DEF Blocks
      <4> QED BY <4>1, <4>2
    <3>2. CASE c \in DOMAIN blocks
      <4>1. blocks'[c] = blocks[c] /\ blocks[c] \in 1..Rev
        BY <1>7, <2>2, <3>2 DEF RepoInv, BlocksKeepRev
      <4>2. ASSUME NEW r \in 1..(Rev + 1), r >= blocks[c] PROVE c \in Blocks(r)'
        <5>1. CASE r = Rev + 1
          BY <3>1, <5>1
        <5>2. CASE r # Rev + 1
          <6>1. r \in 1..Rev
            BY <1>1, <5>2
          <6>2. c \in Blocks(r)
            BY <3>2, <4>2, <6>1 DEF RepoInv, BlocksKeepRev
          <6> QED BY <1>6, <6>1, <6>2
        <5> QED BY <5>1, <5>2
      <4> QED BY <1>1, <4>1, <4>2
    <3>3. CASE c \notin DOMAIN blocks
      <4>1. blocks'[c] = Rev + 1
        BY <1>7, <2>2, <3>3
      <4>2. \A r \in 1..(Rev + 1) : r >= Rev + 1 => r = Rev + 1
        BY <1>1
      <4> QED BY <1>1, <3>1, <4>1, <4>2
    <3> QED BY <3>2, <3>3
  <2> QED BY <1>6, <1>7, <2>1, <2>2 DEF BlocksKeepRev
<1>9. StateShape'
  <2>1. down' \subseteq Existing(Rows)'
    <3>1. \A q \in down' : q \in down /\ (q # p \/ text # None)
      BY <1>7
    <3>2. \A q \in down : q \in Paths /\ Rows[q] # None
      BY DEF RepoInv, StateShape, Existing
    <3>3. text # None => rows[p] # None
      BY <1>1, <1>5
    <3> QED BY <1>4, <1>6, <3>1, <3>2, <3>3 DEF Existing
  <2> QED BY <1>7, <2>1, PathsAre DEF StateShape, RepoInv, Meanwhile
<1>10. ReaderShape'
  BY <1>7 DEF RepoInv, ReaderShape, Idle
<1>11. Exporting'
  <2>1. SUFFICES ASSUME reader.op = "getRepo" PROVE Exporting'
    BY <1>7 DEF Exporting
  <2>2. reader.op # None
    BY <2>1, NoneAssumption DEF Operations
  <2>3. deleted' = deleted \cup (DOMAIN blocks \ new)
    BY <1>7, <2>2 DEF Meanwhile
  <2>4. reader.since <= Rev' /\ \A n \in 1..Rev : n \in 1..Rev' /\ Blocks(n)' = Blocks(n)
    BY <1>1, <1>6, <2>1 DEF RepoInv, Exporting
  <2>5. \A c \in new : c \in DOMAIN blocks => c \in DOMAIN blocks' /\ blocks'[c] = blocks[c]
    BY <1>7
  <2> QED BY <1>7, <2>1, <2>3, <2>4, <2>5 DEF RepoInv, Exporting
<1>12. ListingRecords'
  <2>1. SUFFICES ASSUME reader.op = "listRecords" PROVE ListingRecords'
    BY <1>7 DEF ListingRecords
  <2>2. reader.op # None
    BY <2>1, NoneAssumption DEF Operations
  <2>3. changed' = changed \cup {p} /\ down' \subseteq down
    BY <1>7, <2>2 DEF Meanwhile
  <2>4. \A q \in Existing(Rows) : q # p => q \in Existing(Rows)'
    BY <1>4, <1>6 DEF Existing
  <2> QED BY <1>7, <2>1, <2>3, <2>4 DEF RepoInv, ListingRecords
<1> QED BY <1>6, <1>8, <1>9, <1>10, <1>11, <1>12 DEF RepoInv

LEMMA TakedownKeeps ==
  ASSUME RepoInv, NEW p \in Paths, TakedownRecord(p)
  PROVE  RepoInv'
<1>1. /\ down' = IF p \in down THEN down \ {p} ELSE down \cup {p}
      /\ changed' = changed \cup Meanwhile({p}) /\ Rows[p] # None /\ reader.at # "done"
      /\ log' = log /\ blocks' = blocks /\ status' = status /\ deleted' = deleted /\ reader' = reader
  BY DEF TakedownRecord, Unanswered
<1>2. Rev' = Rev /\ Rows' = Rows /\ (\A r : Blocks(r)' = Blocks(r))
  BY <1>1 DEF Rev, Rows, Blocks, Tree, Existing
<1>3. LogShape' /\ BlocksKeepRev' /\ Exporting'
  BY <1>1, <1>2 DEF RepoInv, LogShape, BlocksKeepRev, Exporting
<1>4. StateShape'
  BY <1>1, <1>2, PathsAre DEF RepoInv, StateShape, Existing, Meanwhile
<1>5. ReaderShape'
  BY <1>1 DEF RepoInv, ReaderShape, Idle
<1>6. ListingRecords'
  <2>1. SUFFICES ASSUME reader.op = "listRecords" PROVE ListingRecords'
    BY <1>1 DEF ListingRecords
  <2>2. changed' = changed \cup {p} /\ \A q \in Paths \ {p} : q \in down' <=> q \in down
    BY <1>1, <2>1, NoneAssumption DEF Meanwhile, Operations
  <2>3. Existing(Rows)' = Existing(Rows) /\ Posts \subseteq Paths
    BY <1>2, PathsAre DEF Existing
  <2> QED BY <1>1, <2>1, <2>2, <2>3 DEF RepoInv, ListingRecords
<1> QED BY <1>3, <1>4, <1>5, <1>6 DEF RepoInv

LEMMA StatusKeeps ==
  ASSUME RepoInv, ChangeStatus
  PROVE  RepoInv'
<1>1. /\ status' \in {"up", "down"}
      /\ changed' = changed \cup Meanwhile({Account}) /\ reader.at # "done"
      /\ log' = log /\ blocks' = blocks /\ down' = down /\ deleted' = deleted /\ reader' = reader
  BY DEF ChangeStatus, Unanswered
<1>2. Rev' = Rev /\ Rows' = Rows /\ (\A r : Blocks(r)' = Blocks(r))
  BY <1>1 DEF Rev, Rows, Blocks, Tree, Existing
<1>3. LogShape' /\ BlocksKeepRev' /\ Exporting'
  BY <1>1, <1>2 DEF RepoInv, LogShape, BlocksKeepRev, Exporting
<1>4. StateShape'
  BY <1>1, <1>2 DEF RepoInv, StateShape, Existing, Meanwhile
<1>5. ReaderShape'
  BY <1>1 DEF RepoInv, ReaderShape, Idle
<1>6. Existing(Rows)' = Existing(Rows)
  BY <1>2 DEF Existing
<1>7. ListingRecords'
  BY <1>1, <1>6 DEF RepoInv, ListingRecords, Meanwhile
<1> QED BY <1>3, <1>4, <1>5, <1>7 DEF RepoInv

\* A step of a reader.
LEMMA ReadKeeps ==
  ASSUME RepoInv, ReadOnly, ReaderShape', Exporting', ListingRecords'
  PROVE  RepoInv'
<1>1. log' = log /\ blocks' = blocks /\ status' = status /\ deleted' = deleted /\ down' = down /\ changed' = changed
  BY DEF ReadOnly, repoVars
<1>2. Rev' = Rev /\ Rows' = Rows /\ (\A r : Blocks(r)' = Blocks(r))
  BY <1>1 DEF Rev, Rows, Blocks, Tree, Existing
<1>3. LogShape' /\ BlocksKeepRev' /\ StateShape'
  BY <1>1, <1>2 DEF RepoInv, LogShape, BlocksKeepRev, StateShape, Existing
<1> QED BY <1>3 DEF RepoInv

LEMMA LeaveKeeps ==
  ASSUME RepoInv, Leave
  PROVE  RepoInv'
<1>1. /\ reader' = Idle /\ changed' = {}
      /\ log' = log /\ blocks' = blocks /\ down' = down /\ status' = status
  BY DEF Leave
<1>2. Rev' = Rev /\ Rows' = Rows /\ (\A r : Blocks(r)' = Blocks(r))
  BY <1>1 DEF Rev, Rows, Blocks, Tree, Existing
<1>3. LogShape' /\ BlocksKeepRev' /\ StateShape'
  BY <1>1, <1>2 DEF RepoInv, LogShape, BlocksKeepRev, StateShape, Existing
<1>4. ReaderShape' /\ Exporting' /\ ListingRecords'
  BY <1>1, NoneAssumption DEF ReaderShape, Exporting, ListingRecords, Idle, Operations
<1> QED BY <1>3, <1>4 DEF RepoInv

\* A request other than those that read in pages.
LEMMA OtherRead ==
  ASSUME RepoInv, ReadOnly, ReaderShape', reader'.op \notin {"getRepo", "listRecords"}
  PROVE  RepoInv'
BY ReadKeeps DEF Exporting, ListingRecords

LEMMA MergeOpIs ==
  ASSUME RepoInv, reader.op = "merge"
  PROVE  "op" \in DOMAIN reader /\ reader = [f \in DOMAIN reader |-> reader[f]]
BY NoneAssumption DEF RepoInv, ReaderShape, Formed, Idle, Operations

Merging(q) == q.op = "merge" /\ "op" \in DOMAIN q /\ q = [f \in DOMAIN q |-> q[f]]

LEMMA AnswerMerges ==
  ASSUME NEW q, Merging(q), NEW answer
  PROVE  /\ Answer(q, answer) => Merging(reader')
         /\ Refuse(q, answer) => Merging(reader')
BY DEF Merging, Answer, Refuse

LEMMA MungeMerges ==
  ASSUME Merging(reader), Munge
  PROVE  Merging(reader')
<1>1. ASSUME NEW view, NEW posts, ToPosts(view, posts) PROVE Merging(reader')
  BY <1>1 DEF ToPosts, Merging
<1>2. ASSUME PassOn PROVE Merging(reader')
  BY <1>2, AnswerMerges DEF PassOn
<1>3. ASSUME GetTimelineMunge PROVE Merging(reader')
  BY <1>1, <1>3 DEF GetTimelineMunge
<1>4. ASSUME GetAuthorMunge PROVE Merging(reader')
  BY <1>1, <1>2, <1>4 DEF GetAuthorMunge
<1>5. ASSUME GetActorLikesMunge \/ GetProfileMunge \/ GetProfilesMunge PROVE Merging(reader')
  BY <1>1, <1>5 DEF GetActorLikesMunge, GetProfileMunge, GetProfilesMunge
<1>6. ASSUME GetPostThreadMunge \/ ReadAfterWriteNotFound PROVE Merging(reader')
  BY <1>1, <1>2, <1>6 DEF GetPostThreadMunge, ReadAfterWriteNotFound
<1> QED BY <1>3, <1>4, <1>5, <1>6 DEF Munge

LEMMA GetPostMerges ==
  ASSUME Merging(reader), GetPost
  PROVE  Merging(reader')
<1> DEFINE next == NextPost
           skipped == [reader EXCEPT !.todo = @ \ {next}]
           view == InsertPost(Item(next.path, next.text, next.rev, GetProfileBasic.look, TRUE))
<1>1. reader' = skipped \/ PassOn \/ reader' = [skipped EXCEPT !.view = view]
  <2> HIDE DEF view
  <2>1. CASE ~IsPlaced(next.path)
    BY <2>1 DEF GetPost
  <2>2. CASE IsPlaced(next.path) /\ GetProfileBasic = None
    BY <2>2 DEF GetPost
  <2>3. CASE IsPlaced(next.path) /\ GetProfileBasic # None
    BY <2>3 DEF GetPost, view
  <2> QED BY <2>1, <2>2, <2>3
<1> HIDE DEF view
<1>2. Merging(skipped) /\ Merging([skipped EXCEPT !.view = view])
  BY DEF Merging
<1>3. ASSUME PassOn PROVE Merging(reader')
  BY <1>3, AnswerMerges DEF PassOn
<1> QED BY <1>1, <1>2, <1>3

LEMMA PipethroughMerges ==
  ASSUME Merging(reader), Pipethrough
  PROVE  Merging(reader')
<1>1. ASSUME NEW answer, Refuse(reader, answer) PROVE Merging(reader')
  BY <1>1, AnswerMerges
<1>2. ASSUME NEW s, NEW v, reader' = [[reader EXCEPT !.at = "records", !.seen = s] EXCEPT !.original = v, !.view = v]
      PROVE  Merging(reader')
  BY <1>2 DEF Merging
<1>3. ASSUME NEW s, reader' = [[reader EXCEPT !.at = "records", !.seen = s] EXCEPT !.notFound = TRUE]
      PROVE  Merging(reader')
  BY <1>3 DEF Merging
<1>4. CASE Refuse(reader, "error")
  BY <1>1, <1>4
<1>5. ASSUME NEW s \in 0..Rev, NEW told \in BOOLEAN, NEW views, NEW r, r = [reader EXCEPT !.at = "records", !.seen = s],
             \/ told /\ \E v \in views : reader' = [r EXCEPT !.original = v, !.view = v]
             \/ told /\ views = {} /\ reader' = [r EXCEPT !.notFound = TRUE]
             \/ ~told /\ Refuse(reader, IF views = {} THEN "NotFound" ELSE "ok")
      PROVE  Merging(reader')
  BY <1>1, <1>2, <1>3, <1>5
<1> QED BY <1>4, <1>5 DEF Pipethrough

LEMMA MergeKeeps ==
  ASSUME RepoInv, Merge
  PROVE  RepoInv'
<1>1. ASSUME NEW kind, NEW anchor, Ask(kind, anchor) PROVE Merging(reader') /\ ReadOnly
  BY <1>1 DEF Ask, Merging, Unread, ReadOnly
<1>2. ASSUME NEW at, Reading(at) PROVE Merging(reader)
  BY <1>2, MergeOpIs DEF Reading, Merging
<1>3. ASSUME Merging(reader), PassOn \/ GiveUp \/ Refuse(reader, "error") PROVE Merging(reader')
  BY <1>3, AnswerMerges DEF PassOn, GiveUp
<1>4. ASSUME Pipethrough PROVE Merging(reader') /\ ReadOnly
  BY <1>2, <1>4, PipethroughMerges DEF Pipethrough, Unread, ReadOnly
<1>5. ASSUME GetRecordsSinceRev PROVE Merging(reader') /\ ReadOnly
  <2>1. Merging(reader) /\ ReadOnly
    BY <1>2, <1>5 DEF GetRecordsSinceRev, Unread, ReadOnly
  <2>2. PassOn \/ \E limit, rows : reader' = [reader EXCEPT !.at = "sanity", !.limit = limit, !.local = rows]
    BY <1>5, Zenon DEF GetRecordsSinceRev
  <2>3. ASSUME NEW limit, NEW rows, reader' = [reader EXCEPT !.at = "sanity", !.limit = limit, !.local = rows]
        PROVE  Merging(reader')
    BY <2>1, <2>3 DEF Merging
  <2> QED BY <1>3, <2>1, <2>2, <2>3
<1>6. ASSUME SanityCheck PROVE Merging(reader') /\ ReadOnly
  <2>1. Merging(reader) /\ ReadOnly
    BY <1>2, <1>6 DEF SanityCheck, Unread, ReadOnly
  <2> QED BY <1>3, <1>6, <2>1 DEF SanityCheck, Merging
<1>7. ASSUME BufferAnswer PROVE Merging(reader') /\ ReadOnly
  <2>1. Merging(reader) /\ ReadOnly
    BY <1>2, <1>7 DEF BufferAnswer, Unread, ReadOnly
  <2> QED BY <1>3, <1>7, <2>1 DEF BufferAnswer, Merging
<1>8. ASSUME Munge PROVE Merging(reader') /\ ReadOnly
  BY <1>2, <1>8, MungeMerges DEF Munge, Unread, ReadOnly
<1>9. ASSUME GetPost PROVE Merging(reader') /\ ReadOnly
  BY <1>2, <1>9, GetPostMerges DEF GetPost, Unread, ReadOnly
<1>10. ASSUME FormatRecordEmbed \/ Respond PROVE Merging(reader') /\ ReadOnly
  BY <1>2, <1>3, <1>10, AnswerMerges DEF FormatRecordEmbed, Respond, Unread, ReadOnly
<1>11. Merging(reader') /\ ReadOnly
  BY <1>1, <1>4, <1>5, <1>6, <1>7, <1>8, <1>9, <1>10
  DEF Merge, GetTimeline, GetAuthorFeed, GetActorLikes, GetProfile, GetProfiles, GetPostThread
<1> QED BY <1>11, OtherRead DEF Merging, ReaderShape

-----------------------------------------------------------------------------
(***************************************************************************)
(* The requests that export, and those that list records.                  *)
(***************************************************************************)
LEMMA RequestFormed ==
  ASSUME NEW op \in Operations \ {"merge"}
  PROVE  /\ Formed(Request(op)) /\ Request(op).op = op /\ Request(op).at = "asked"
         /\ Request(op).cursor = <<>> /\ Request(op).listed = <<>>
BY DEF Formed, Request, Fields

\* A request with one thing more known, or done.
LEMMA FormedMore ==
  ASSUME NEW q, Formed(q), NEW v, NEW w
  PROVE  /\ Formed([q EXCEPT !.at = v]) /\ Formed([q EXCEPT !.since = v]) /\ Formed([q EXCEPT !.path = v])
         /\ Formed([q EXCEPT !.cids = v]) /\ Formed([q EXCEPT !.root = v]) /\ Formed([q EXCEPT !.todo = v])
         /\ Formed([q EXCEPT !.found = v])
         /\ Formed([q EXCEPT !.at = v, !.root = w]) /\ Formed([q EXCEPT !.at = v, !.todo = w])
         /\ Formed([q EXCEPT !.at = v, !.answer = w]) /\ Formed([q EXCEPT !.at = v, !.found = w])
BY DEF Formed, Fields

LEMMA DoneFormed ==
  ASSUME NEW q, Formed(q), NEW answer, Done(q, answer)
  PROVE  /\ Formed(reader') /\ reader'.at = "done" /\ reader'.answer = answer
         /\ \A f \in Fields \ {"at", "answer"} : reader'[f] = q[f]
BY DEF Formed, Done, Fields

LEMMA AvailableKeeps ==
  ASSUME RepoInv, NEW request, Formed(request), request.op \notin {"getRepo", "listRecords"},
         NEW mine, AssertRepoAvailability(request, mine)
  PROVE  RepoInv'
<1>1. ReadOnly /\ (Done(request, "unavailable") \/ reader' = [request EXCEPT !.at = "available"])
  BY DEF AssertRepoAvailability
<1>2. Formed(reader') /\ reader'.op = request.op
  <2>1. CASE Done(request, "unavailable")
    BY <2>1, DoneFormed DEF Fields
  <2>2. CASE reader' = [request EXCEPT !.at = "available"]
    <3>1. Formed(reader')
      BY <2>2, FormedMore
    <3> QED BY <2>2, <3>1 DEF Formed, Fields
  <2> QED BY <1>1, <2>1, <2>2
<1> QED BY <1>1, <1>2, OtherRead DEF ReaderShape

LEMMA GetRepoKeeps ==
  ASSUME RepoInv, NEW since \in Nat, NEW mine, GetRepo(since, mine)
  PROVE  RepoInv'
<1> DEFINE q == [Request("getRepo") EXCEPT !.since = since]
<1>1. ReadOnly /\ since <= Rev /\ (Done(q, "unavailable") \/ reader' = [q EXCEPT !.at = "available"])
  BY DEF GetRepo, AssertRepoAvailability
<1>2. Formed(q) /\ q.op = "getRepo" /\ q.since = since /\ q.cursor = <<>>
  BY RequestFormed, FormedMore DEF Request, Operations
<1> HIDE DEF q
<1>3. /\ Formed(reader') /\ reader'.op = "getRepo" /\ reader'.since = since /\ reader'.cursor = <<>>
      /\ reader'.at = "available" \/ (reader'.at = "done" /\ reader'.answer = "unavailable")
  <2>1. CASE Done(q, "unavailable")
    BY <1>2, <2>1, DoneFormed DEF Fields
  <2>2. CASE reader' = [q EXCEPT !.at = "available"]
    <3>1. Formed(reader')
      BY <1>2, <2>2, FormedMore
    <3> QED BY <1>2, <2>2, <3>1 DEF Formed, Fields
  <2> QED BY <1>1, <2>1, <2>2
<1>4. Rev' = Rev
  BY <1>1 DEF ReadOnly, repoVars, Rev
<1>5. Exporting' /\ ListingRecords' /\ ReaderShape'
  BY <1>1, <1>3, <1>4 DEF Exporting, ListingRecords, ReaderShape
<1> QED BY <1>1, <1>5, ReadKeeps

LEMMA ReaderFormed ==
  ASSUME RepoInv, reader.op \in Operations \ {"merge"}
  PROVE  Formed(reader)
BY NoneAssumption DEF RepoInv, ReaderShape, Idle, Operations

LEMMA GetCarStreamKeeps ==
  ASSUME RepoInv, GetCarStream
  PROVE  RepoInv'
<1>1. /\ ReadOnly /\ reader.op = "getRepo" /\ reader.at = "available"
      /\ reader' = [reader EXCEPT !.at = "pages", !.root = Rev]
  BY DEF GetCarStream
<1>2. Formed(reader)
  BY <1>1, ReaderFormed DEF Operations
<1>3. Formed(reader')
  BY <1>1, <1>2, FormedMore
<1>4. /\ reader'.op = "getRepo" /\ reader'.at = "pages" /\ reader'.root = Rev
      /\ reader'.since = reader.since /\ reader'.cursor = <<>>
  BY <1>1, <1>2 DEF Formed, Fields, RepoInv, Exporting
<1>5. Rev' = Rev /\ deleted' = deleted /\ blocks' = blocks /\ (\A r : Blocks(r)' = Blocks(r)) /\ Rev \in Nat \ {0}
  BY <1>1 DEF ReadOnly, repoVars, Rev, Blocks, Tree, Existing, RepoInv, LogShape
<1>6. reader.since \in Nat /\ reader.since <= Rev /\ DOMAIN blocks = Blocks(Rev)
  BY <1>1 DEF RepoInv, Exporting, BlocksKeepRev
<1>7. Exporting' /\ ListingRecords' /\ ReaderShape'
  <2>1. \A c : After(<<>>, c, "desc")
    BY DEF After
  <2> QED BY <1>3, <1>4, <1>5, <1>6, <2>1 DEF Exporting, ListingRecords, ReaderShape
<1> QED BY <1>1, <1>7, ReadKeeps

LEMMA GetBlockRangeKeeps ==
  ASSUME RepoInv, GetBlockRange
  PROVE  RepoInv'
<1> DEFINE new == {b \in DOMAIN blocks : blocks[b] > reader.since}
           keys == {<<blocks[c], c>> : c \in new}
           page == Page(keys, reader.cursor, "desc", PageSize)
<1>1. /\ ReadOnly /\ reader.op = "getRepo" /\ reader.at = "pages"
      /\ IF page = {} THEN Done(reader, "ok")
         ELSE reader' = [reader EXCEPT !.cursor = Cursor(page, "desc"), !.sent = @ \cup {k[2] : k \in page}]
  BY DEF GetBlockRange
<1>2. Formed(reader)
  BY <1>1, ReaderFormed DEF Operations
<1>3. Rev' = Rev /\ deleted' = deleted /\ blocks' = blocks /\ (\A r : Blocks(r)' = Blocks(r)) /\ Rev \in Nat \ {0}
  BY <1>1 DEF ReadOnly, repoVars, Rev, Blocks, Tree, Existing, RepoInv, LogShape
<1>4. /\ reader.since \in Nat /\ reader.since <= Rev /\ reader.root \in 1..Rev /\ reader.since <= reader.root
      /\ reader.cursor \in Keys \cup {<<>>}
      /\ \A c \in Blocks(reader.root) \ deleted :
           c \in DOMAIN blocks /\ (blocks[c] <= reader.since \/ c \in reader.sent \/ After(reader.cursor, <<blocks[c], c>>, "desc"))
  BY <1>1 DEF RepoInv, Exporting
<1>5. DOMAIN blocks \subseteq Nat /\ IsFiniteSet(DOMAIN blocks) /\ \A c \in DOMAIN blocks : blocks[c] \in Nat
  <2>1. Rev \in 1..Rev
    BY <1>3
  <2> QED BY <2>1, BlocksAre DEF RepoInv, BlocksKeepRev
<1>6. keys \in SUBSET Keys /\ IsFiniteSet(keys)
  <2>1. keys \in SUBSET Keys
    BY <1>5 DEF Keys
  <2>2. new \in SUBSET DOMAIN blocks
    OBVIOUS
  <2>3. IsFiniteSet(new)
    BY <1>5, <2>2, FS_Subset
  <2>4. [c \in new |-> <<blocks[c], c>>] \in Surjection(new, keys)
    BY DEF Surjection
  <2> QED BY <2>1, <2>3, <2>4, FS_Surjection
<1>7. \A c \in DOMAIN blocks : blocks[c] <= reader.since \/ <<blocks[c], c>> \in keys
  BY <1>4, <1>5
<1>8. \A k \in keys : k[2] \in DOMAIN blocks /\ k = <<blocks[k[2]], k[2]>>
  OBVIOUS
<1> HIDE DEF keys
<1>9. /\ page \subseteq keys
      /\ page = {} => \A k \in keys : ~After(reader.cursor, k, "desc")
      /\ page # {} => /\ Cursor(page, "desc") \in page
                      /\ \A k \in keys : k \in page <=> After(reader.cursor, k, "desc") /\ ~Comes(Cursor(page, "desc"), k, "desc")
  BY <1>6, PageIs, PageAssumption
<1> HIDE DEF page
<1>10. CASE page = {}
  <2>1. /\ Formed(reader') /\ reader'.at = "done" /\ reader'.answer = "ok"
        /\ reader'.op = "getRepo" /\ reader'.since = reader.since /\ reader'.root = reader.root
        /\ reader'.cursor = reader.cursor /\ reader'.sent = reader.sent
    BY <1>1, <1>2, <1>10, DoneFormed DEF Fields
  <2>2. \A c \in Blocks(reader.root) \ deleted :
          c \in DOMAIN blocks /\ (blocks[c] <= reader.since \/ c \in reader.sent)
    BY <1>4, <1>7, <1>9, <1>10
  <2>3. Exporting' /\ ListingRecords' /\ ReaderShape'
    BY <1>3, <1>4, <2>1, <2>2 DEF Exporting, ListingRecords, ReaderShape
  <2> QED BY <1>1, <2>3, ReadKeeps
<1>11. CASE page # {}
  <2> DEFINE cursor == Cursor(page, "desc")
             sent == reader.sent \cup {k[2] : k \in page}
  <2>1. reader' = [reader EXCEPT !.cursor = cursor, !.sent = sent]
    BY <1>1, <1>11
  <2>2. cursor \in page /\ cursor \in Keys /\ cursor # <<>>
    <3>1. \A x \in Keys : x # <<>>
      BY KeyIsSomething
    <3> QED BY <1>6, <1>9, <1>11, <3>1
  <2>3. \A c \in Blocks(reader.root) \ deleted :
          /\ c \in DOMAIN blocks
          /\ blocks[c] <= reader.since \/ c \in sent \/ After(cursor, <<blocks[c], c>>, "desc")
    <3> TAKE c \in Blocks(reader.root) \ deleted
    <3> DEFINE k == <<blocks[c], c>>
    <3>1. c \in DOMAIN blocks /\ (blocks[c] <= reader.since \/ c \in reader.sent \/ (k \in keys /\ After(reader.cursor, k, "desc")))
      BY <1>4, <1>7
    <3>2. ASSUME k \in keys, After(reader.cursor, k, "desc") PROVE c \in sent \/ After(cursor, k, "desc")
      <4>1. k \in page \/ Comes(cursor, k, "desc")
        BY <1>9, <1>11, <3>2
      <4>2. k[2] = c
        OBVIOUS
      <4> HIDE DEF k, cursor
      <4>3. k \in page => c \in {j[2] : j \in page}
        BY <4>2
      <4> QED BY <4>1, <4>3 DEF After
    <3> QED BY <3>1, <3>2
  <2> HIDE DEF cursor, sent
  <2>4. /\ Formed(reader') /\ reader'.at = "pages"
        /\ reader'.op = "getRepo" /\ reader'.since = reader.since /\ reader'.root = reader.root
        /\ reader'.cursor = cursor /\ reader'.sent = sent
    BY <1>1, <1>2, <2>1 DEF Formed, Fields
  <2>5. Exporting' /\ ListingRecords' /\ ReaderShape'
    BY <1>3, <1>4, <2>2, <2>3, <2>4 DEF Exporting, ListingRecords, ReaderShape
  <2> QED BY <1>1, <2>5, ReadKeeps
<1> QED BY <1>10, <1>11

LEMMA GetDidForActorKeeps ==
  ASSUME RepoInv, GetDidForActor
  PROVE  RepoInv'
<1>1. /\ ReadOnly /\ reader.op \in {"read", "listRecords"} /\ reader.at = "asked"
      /\ reader' = [reader EXCEPT !.at = "available"] \/ Done(reader, "unavailable")
  BY DEF GetDidForActor
<1>2. Formed(reader)
  BY <1>1, ReaderFormed DEF Operations
<1>3. /\ Formed(reader') /\ \A f \in Fields \ {"at", "answer"} : reader'[f] = reader[f]
      /\ reader'.at = "available" \/ (reader'.at = "done" /\ reader'.answer = "unavailable")
  <2>1. CASE reader' = [reader EXCEPT !.at = "available"]
    <3>1. Formed(reader')
      BY <1>2, <2>1, FormedMore
    <3> QED BY <1>2, <2>1, <3>1 DEF Formed, Fields
  <2>2. CASE Done(reader, "unavailable")
    BY <1>2, <2>2, DoneFormed
  <2> QED BY <1>1, <2>1, <2>2
<1>4. /\ reader'.op = reader.op /\ reader'.limit = reader.limit /\ reader'.cursor = reader.cursor
      /\ reader'.listed = reader.listed /\ reader'.start = reader.start /\ reader'.direction = reader.direction
  BY <1>3 DEF Fields
<1>5. Existing(Rows)' = Existing(Rows) /\ down' = down /\ changed' = changed
  BY <1>1 DEF ReadOnly, repoVars, Existing, Rows, Rev
<1>6. ListingRecords'
  BY <1>1, <1>3, <1>4, <1>5 DEF RepoInv, ListingRecords
<1>7. Exporting' /\ ReaderShape'
  BY <1>1, <1>3, <1>4 DEF Exporting, ReaderShape
<1> QED BY <1>1, <1>6, <1>7, ReadKeeps

\* A listing has what is there when it begins, and nothing of it is listed yet.
LEMMA ListRecordsKeeps ==
  ASSUME RepoInv, NEW dir \in Directions, NEW limit \in 1..PageSize, ListRecords(dir, limit)
  PROVE  RepoInv'
<1> DEFINE start == (Posts \cap Existing(Rows)) \ down
<1>1. /\ ReadOnly
      /\ reader' = [Request("listRecords") EXCEPT !.direction = dir, !.limit = limit, !.start = start]
  BY DEF ListRecords
<1>2. start' = start
  BY <1>1 DEF ReadOnly, repoVars, Existing, Rows, Rev
<1> HIDE DEF start
<1>3. /\ Formed(reader') /\ reader'.op = "listRecords" /\ reader'.at = "asked" /\ reader'.limit = limit
      /\ reader'.cursor = <<>> /\ reader'.listed = <<>> /\ reader'.start = start
  BY <1>1 DEF Formed, Fields, Request, Operations
<1>4. limit \in Nat \ {0}
  BY PageAssumption
<1>5. \A p \in start : Marked(<<>>, p, <<>>, <<p, 0>>, reader'.direction)
  BY StartsUnlisted
<1>6. <<>> \in Seq(SUBSET Nat)
  OBVIOUS
<1>7. ListingRecords'
  BY <1>2, <1>3, <1>4, <1>5, <1>6 DEF ListingRecords, start
<1>8. Exporting' /\ ReaderShape'
  BY <1>3 DEF Exporting, ReaderShape
<1> QED BY <1>1, <1>7, <1>8, ReadKeeps

LEMMA ListPageKeeps ==
  ASSUME RepoInv, ListRecordsForCollection
  PROVE  RepoInv'
<1> DEFINE here == (Posts \cap Existing(Rows)) \ down
           keys == {<<p, 0>> : p \in here}
           page == Page(keys, reader.cursor, reader.direction, reader.limit)
           items == {k[1] : k \in page}
           cursor == Cursor(page, reader.direction)
<1>1. /\ ReadOnly /\ reader.op = "listRecords" /\ reader.at = "available"
      /\ IF page = {} THEN Done(reader, "ok")
         ELSE reader' = [reader EXCEPT !.at = "asked", !.cursor = cursor, !.listed = Append(@, items)]
  BY DEF ListRecordsForCollection
<1>2. Formed(reader)
  BY <1>1, ReaderFormed DEF Operations
<1>3. here' = here /\ changed' = changed
  BY <1>1 DEF ReadOnly, repoVars, Existing, Rows, Rev
<1>4. /\ reader.limit \in Nat \ {0} /\ reader.cursor \in Keys \cup {<<>>} /\ reader.listed \in Seq(SUBSET Nat)
      /\ \A p \in reader.start \ changed :
           p \in here /\ Marked(reader.listed, p, reader.cursor, <<p, 0>>, reader.direction)
  BY <1>1 DEF RepoInv, ListingRecords
<1>5. here \subseteq Nat /\ IsFiniteSet(here)
  <2>1. here \in SUBSET Posts
    OBVIOUS
  <2> QED BY <2>1, HistoryAssumption, FS_Subset
<1> HIDE DEF here
<1>6. keys \in SUBSET Keys /\ IsFiniteSet(keys)
  <2>1. \A p \in here : <<p, 0>> \in Keys
    BY <1>5 DEF Keys
  <2>2. [p \in here |-> <<p, 0>>] \in Surjection(here, keys)
    BY DEF Surjection
  <2> QED BY <1>5, <2>1, <2>2, FS_Surjection
<1>7. /\ \A p \in here : <<p, 0>> \in keys
      /\ \A k \in keys : k[1] \in Nat /\ k = <<k[1], 0>>
  BY <1>5
<1> HIDE DEF keys
<1>8. page \subseteq keys /\ (page # {} => cursor \in page)
  BY <1>4, <1>6, PageIs
<1> HIDE DEF page, cursor
<1>9. items \in SUBSET Nat /\ \A p \in here : p \in items <=> <<p, 0>> \in page
  <2>1. \A k \in page : k[1] \in Nat /\ k = <<k[1], 0>>
    BY <1>7, <1>8
  <2>2. \A p : <<p, 0>>[1] = p
    OBVIOUS
  <2> QED BY <2>1, <2>2
<1> HIDE DEF items
<1>10. ASSUME NEW p \in reader.start \ changed
       PROVE  /\ p \in here
              /\ page = {} => Cardinality(Times(reader.listed, p)) = 1
              /\ page # {} => Marked(Append(reader.listed, items), p, cursor, <<p, 0>>, reader.direction)
  <2>1. p \in here /\ Marked(reader.listed, p, reader.cursor, <<p, 0>>, reader.direction)
    BY <1>4
  <2>2. <<p, 0>> \in keys /\ (p \in items <=> <<p, 0>> \in page)
    BY <1>7, <1>9, <2>1
  <2> QED BY <1>4, <1>6, <1>9, <2>1, <2>2, PageMarks DEF page, cursor
<1>11. Append(reader.listed, items) \in Seq(SUBSET Nat)
  BY <1>4, <1>9, OnePageMore
<1>12. CASE page = {}
  <2>1. /\ Formed(reader') /\ reader'.at = "done" /\ reader'.op = "listRecords"
        /\ reader'.limit = reader.limit /\ reader'.cursor = reader.cursor /\ reader'.listed = reader.listed
        /\ reader'.start = reader.start /\ reader'.direction = reader.direction
    BY <1>1, <1>2, <1>12, DoneFormed DEF Fields
  <2>2. ListingRecords'
    BY <1>3, <1>4, <1>10, <1>12, <2>1 DEF ListingRecords, here
  <2>3. Exporting' /\ ReaderShape'
    BY <2>1 DEF Exporting, ReaderShape
  <2> QED BY <1>1, <2>2, <2>3, ReadKeeps
<1>13. CASE page # {}
  <2>1. /\ Formed(reader') /\ reader'.at = "asked" /\ reader'.op = "listRecords"
        /\ reader'.limit = reader.limit /\ reader'.cursor = cursor /\ reader'.listed = Append(reader.listed, items)
        /\ reader'.start = reader.start /\ reader'.direction = reader.direction
    BY <1>1, <1>2, <1>13 DEF Formed, Fields
  <2>2. cursor \in Keys
    BY <1>6, <1>8, <1>13
  <2>3. ListingRecords'
    BY <1>3, <1>4, <1>10, <1>11, <1>13, <2>1, <2>2 DEF ListingRecords, here
  <2>4. Exporting' /\ ReaderShape'
    BY <2>1 DEF Exporting, ReaderShape
  <2> QED BY <1>1, <2>3, <2>4, ReadKeeps
<1> QED BY <1>12, <1>13

-----------------------------------------------------------------------------
(***************************************************************************)
(* The other requests, and all steps.                                      *)
(***************************************************************************)
LEMMA OtherRequestsKeep ==
  ASSUME RepoInv, NEW mine,
         \/ \E p \in Paths : GetRecordProof(p, mine)
         \/ \E cids : GetBlocks(cids, mine)
         \/ GetLatestCommit(mine) \/ GetHead(mine) \/ DescribeRepo
  PROVE  RepoInv'
<1>1. ASSUME NEW p, GetRecordProof(p, mine) PROVE RepoInv'
  <2> DEFINE q == [Request("getRecord") EXCEPT !.path = p]
  <2>1. Formed(q) /\ q.op = "getRecord"
    BY RequestFormed, FormedMore DEF Request, Operations
  <2> QED BY <1>1, <2>1, AvailableKeeps DEF GetRecordProof
<1>2. ASSUME NEW cids, GetBlocks(cids, mine) PROVE RepoInv'
  <2> DEFINE q == [Request("getBlocks") EXCEPT !.cids = cids]
  <2>1. Formed(q) /\ q.op = "getBlocks"
    BY RequestFormed, FormedMore DEF Request, Operations
  <2> QED BY <1>2, <2>1, AvailableKeeps DEF GetBlocks
<1>3. ASSUME NEW op \in {"getLatestCommit", "getHead", "describeRepo"}, NEW as, AssertRepoAvailability(Request(op), as)
      PROVE  RepoInv'
  <2>1. Formed(Request(op)) /\ Request(op).op = op
    BY RequestFormed DEF Operations
  <2> QED BY <1>3, <2>1, AvailableKeeps
<1> QED BY <1>1, <1>2, <1>3 DEF GetLatestCommit, GetHead, DescribeRepo

LEMMA FormedReadKeeps ==
  ASSUME RepoInv, ReadOnly, Formed(reader'), reader'.op \notin {"getRepo", "listRecords"}
  PROVE  RepoInv'
BY OtherRead DEF ReaderShape

LEMMA DoneKeeps ==
  ASSUME RepoInv, ReadOnly, NEW q, Formed(q), q.op \notin {"getRepo", "listRecords"}, NEW answer, Done(q, answer)
  PROVE  RepoInv'
<1>1. Formed(reader') /\ reader'.op = q.op
  BY DoneFormed DEF Fields
<1> QED BY <1>1, FormedReadKeeps

LEMMA OtherReadsKeep ==
  ASSUME RepoInv,
         \/ GetRoot \/ GetBytes \/ ReadBlocks \/ ReadCommit \/ GetRepoStatus \/ ReadStatusRev
         \/ ReadRecord \/ ListCollections \/ \E p \in Paths : GetRecord(p)
  PROVE  RepoInv'
<1> DEFINE Others == Operations \ {"merge", "getRepo", "listRecords"}
<1>1. ASSUME reader.op \in Others
      PROVE  /\ Formed(reader)
             /\ \A v : Formed([reader EXCEPT !.root = v]) /\ [reader EXCEPT !.root = v].op = reader.op
             /\ \A v : Formed([reader EXCEPT !.found = v]) /\ [reader EXCEPT !.found = v].op = reader.op
             /\ \A v : Formed([reader EXCEPT !.todo = v]) /\ [reader EXCEPT !.todo = v].op = reader.op
             /\ \A v, w : Formed([reader EXCEPT !.at = v, !.todo = w]) /\ [reader EXCEPT !.at = v, !.todo = w].op = reader.op
  <2>1. Formed(reader)
    BY <1>1, ReaderFormed
  <2> QED BY <2>1, FormedMore DEF Formed, Fields
<1>2. ASSUME GetRoot PROVE RepoInv'
  <2>1. ReadOnly /\ reader.op \in Others /\ reader' = [reader EXCEPT !.at = "proof", !.todo = ProofOf(Rev, reader.path)]
    BY <1>2 DEF GetRoot, Operations
  <2> QED BY <1>1, <2>1, FormedReadKeeps
<1>3. ASSUME GetBytes PROVE RepoInv'
  <2>1. ReadOnly /\ reader.op \in Others
        /\ (Done(reader, "ok") \/ Done(reader, "missing block") \/ reader' = [reader EXCEPT !.todo = Tail(@)])
    BY <1>3 DEF GetBytes, Operations
  <2>2. CASE Done(reader, "ok") \/ Done(reader, "missing block")
    BY <1>1, <2>1, <2>2, DoneKeeps
  <2>3. CASE reader' = [reader EXCEPT !.todo = Tail(@)]
    <3>1. Formed(reader') /\ reader'.op = reader.op
      BY <1>1, <2>1, <2>3
    <3> QED BY <2>1, <3>1, FormedReadKeeps
  <2> QED BY <2>1, <2>2, <2>3
<1>4. ASSUME ReadBlocks PROVE RepoInv'
  <2>1. ReadOnly /\ reader.op \in Others /\ \E answer : Done(reader, answer)
    BY <1>4 DEF ReadBlocks, Operations
  <2> QED BY <1>1, <2>1, DoneKeeps
<1>5. ASSUME ReadCommit \/ ReadStatusRev PROVE RepoInv'
  <2>1. ReadOnly /\ reader.op \in Others /\ Done([reader EXCEPT !.root = Rev], "ok")
    BY <1>5 DEF ReadCommit, ReadStatusRev, Operations
  <2>2. Formed([reader EXCEPT !.root = Rev]) /\ [reader EXCEPT !.root = Rev].op = reader.op
    BY <1>1, <2>1
  <2> QED BY <2>1, <2>2, DoneKeeps
<1>6. ASSUME GetRepoStatus PROVE RepoInv'
  <2> DEFINE q == [Request("getRepoStatus") EXCEPT !.at = "available", !.found = status]
  <2>1. ReadOnly /\ (reader' = q \/ Done(q, "ok"))
    BY <1>6 DEF GetRepoStatus
  <2>2. Formed(q) /\ q.op = "getRepoStatus"
    BY RequestFormed, FormedMore DEF Request, Operations
  <2> HIDE DEF q
  <2> QED BY <2>1, <2>2, DoneKeeps, FormedReadKeeps
<1>7. ASSUME ReadRecord PROVE RepoInv'
  <2>1. ReadOnly /\ reader.op \in Others /\ \E answer : Done(reader, answer)
    BY <1>7 DEF ReadRecord, Operations
  <2> QED BY <1>1, <2>1, DoneKeeps
<1>8. ASSUME ListCollections PROVE RepoInv'
  <2>1. ReadOnly /\ reader.op \in Others
        /\ \/ Done(reader, "no document")
           \/ Done([reader EXCEPT !.found = {p = Profile : p \in Existing(Rows)}], "ok")
    BY <1>8 DEF ListCollections, Operations
  <2>2. CASE Done(reader, "no document")
    BY <1>1, <2>1, <2>2, DoneKeeps
  <2>3. CASE Done([reader EXCEPT !.found = {p = Profile : p \in Existing(Rows)}], "ok")
    <3> DEFINE found == {p = Profile : p \in Existing(Rows)}
    <3>1. Formed([reader EXCEPT !.found = found]) /\ [reader EXCEPT !.found = found].op = reader.op
      BY <1>1, <2>1
    <3> QED BY <2>1, <2>3, <3>1, DoneKeeps
  <2> QED BY <2>1, <2>2, <2>3
<1>9. ASSUME NEW p \in Paths, GetRecord(p) PROVE RepoInv'
  <2> DEFINE q == [Request("read") EXCEPT !.path = p]
  <2>1. ReadOnly /\ reader' = q
    BY <1>9 DEF GetRecord
  <2>2. Formed(q) /\ q.op = "read"
    BY RequestFormed, FormedMore DEF Request, Operations
  <2> QED BY <2>1, <2>2, FormedReadKeeps
<1> QED BY <1>2, <1>3, <1>4, <1>5, <1>6, <1>7, <1>8, <1>9

LEMMA ExportKeeps ==
  ASSUME RepoInv, Export
  PROVE  RepoInv'
<1>1. ASSUME NEW mine, \/ \E since \in Since : GetRepo(since, mine)
                       \/ GetCheckout(mine)
      PROVE  RepoInv'
  BY <1>1, GetRepoKeeps, ExportAssumption DEF GetCheckout
<1>2. CASE \E mine \in BOOLEAN : \/ \E since \in Since : GetRepo(since, mine)
                                 \/ GetCheckout(mine)
  BY <1>1, <1>2
<1>3. CASE \/ \E mine \in BOOLEAN : \/ \E p \in Paths : GetRecordProof(p, mine)
                                    \/ \E cids \in {{Rev}, {1, Tree(Rows)}} : GetBlocks(cids, mine)
                                    \/ GetLatestCommit(mine) \/ GetHead(mine)
           \/ DescribeRepo
  BY <1>3, OtherRequestsKeep
<1>4. CASE \/ GetRoot \/ GetBytes \/ ReadBlocks \/ ReadCommit \/ GetRepoStatus \/ ReadStatusRev
           \/ ReadRecord \/ ListCollections \/ \E p \in Paths : GetRecord(p)
  BY <1>4, OtherReadsKeep
<1>5. CASE GetCarStream \/ GetBlockRange \/ GetDidForActor \/ ListRecordsForCollection
  BY <1>5, GetCarStreamKeeps, GetBlockRangeKeeps, GetDidForActorKeeps, ListPageKeeps
<1>6. CASE \E dir \in Directions, limit \in 1..PageSize : ListRecords(dir, limit)
  BY <1>6, ListRecordsKeeps
<1> QED BY <1>2, <1>3, <1>4, <1>5, <1>6 DEF Export

LEMMA OfRepoKeeps ==
  ASSUME RepoInv, OfRepo
  PROVE  RepoInv'
BY CommitKeeps, StatusKeeps, LeaveKeeps, ExportKeeps, TakedownKeeps, MergeKeeps DEF OfRepo, Write

-----------------------------------------------------------------------------
(***************************************************************************)
(* Views: sequences of items.                                              *)
(***************************************************************************)
IsItem(x) == x = Item(x.post, x.text, x.at, x.look, x.mine)
IsView(v) == \E S : v \in Seq(S) /\ \A x \in S : IsItem(x)
ItemsIn(v) == {v[i] : i \in DOMAIN v}

LEMMA ItemIs ==
  ASSUME NEW p, NEW text, NEW at, NEW look, NEW mine
  PROVE  /\ IsItem(Item(p, text, at, look, mine))
         /\ Item(p, text, at, look, mine).post = p /\ Item(p, text, at, look, mine).text = text
         /\ Item(p, text, at, look, mine).look = look
BY DEF IsItem, Item

LEMMA AppendedView ==
  ASSUME NEW v, IsView(v), NEW e, IsItem(e)
  PROVE  IsView(Append(v, e)) /\ ItemsIn(Append(v, e)) = ItemsIn(v) \cup {e}
<1>1. PICK S : v \in Seq(S) /\ \A x \in S : IsItem(x)
  BY DEF IsView
<1> DEFINE T == S \cup {e}
           w == Append(v, e)
<1>2. v \in Seq(T) /\ e \in T /\ \A x \in T : IsItem(x)
  BY <1>1
<1> HIDE DEF T
<1>3. w \in Seq(T) /\ Len(w) = Len(v) + 1 /\ w[Len(v) + 1] = e /\ \A i \in 1..Len(v) : w[i] = v[i]
  BY <1>2
<1>4. DOMAIN w = 1..(Len(v) + 1) /\ DOMAIN v = 1..Len(v) /\ Len(v) \in Nat
  BY <1>2, <1>3
<1> HIDE DEF w
<1>5. ItemsIn(w) = ItemsIn(v) \cup {e}
  BY <1>3, <1>4 DEF ItemsIn
<1> QED BY <1>2, <1>3, <1>5 DEF IsView, w

LEMMA Concatenated ==
  ASSUME NEW T, NEW x \in Seq(T), NEW y \in Seq(T)
  PROVE  /\ x \o y \in Seq(T) /\ Len(x \o y) = Len(x) + Len(y)
         /\ \A i \in 1..(Len(x) + Len(y)) : (x \o y)[i] = IF i <= Len(x) THEN x[i] ELSE y[i - Len(x)]
OBVIOUS

LEMMA InsertedView ==
  ASSUME NEW v, IsView(v), NEW e, IsItem(e), NEW n \in 1..(Len(v) + 1)
  PROVE  IsView(InsertAt(v, n, e)) /\ ItemsIn(InsertAt(v, n, e)) = ItemsIn(v) \cup {e}
<1>1. PICK S : v \in Seq(S) /\ \A x \in S : IsItem(x)
  BY DEF IsView
<1> DEFINE T == S \cup {e}
           a == SubSeq(v, 1, n - 1)
           b == SubSeq(v, n, Len(v))
           w == InsertAt(v, n, e)
<1>2. v \in Seq(T) /\ e \in T /\ \A x \in T : IsItem(x)
  BY <1>1
<1> HIDE DEF T
<1>3. Len(v) \in Nat /\ DOMAIN v = 1..Len(v) /\ n \in Nat /\ 1 <= n /\ n <= Len(v) + 1
  BY <1>2
<1>4. a \in Seq(T) /\ Len(a) = n - 1 /\ \A i \in 1..(n - 1) : a[i] = v[i]
  BY <1>2, <1>3
<1>5. b \in Seq(T) /\ Len(b) = Len(v) - n + 1 /\ \A i \in 1..(Len(v) - n + 1) : b[i] = v[n - 1 + i]
  BY <1>2, <1>3
<1> HIDE DEF a, b
<1>6. w = (a \o <<e>>) \o b
  BY DEF InsertAt, a, b
<1>7. /\ a \o <<e>> \in Seq(T) /\ Len(a \o <<e>>) = n /\ (a \o <<e>>)[n] = e
      /\ \A i \in 1..(n - 1) : (a \o <<e>>)[i] = a[i]
  BY <1>2, <1>3, <1>4
<1> DEFINE c == a \o <<e>>
<1> HIDE DEF c
<1>8. c \in Seq(T) /\ Len(c) = n /\ c[n] = e /\ (\A i \in 1..(n - 1) : c[i] = v[i]) /\ w = c \o b
  BY <1>4, <1>6, <1>7 DEF c
<1> HIDE DEF w
<1>9. /\ w \in Seq(T) /\ DOMAIN w = 1..(Len(v) + 1)
      /\ \A i \in 1..(Len(v) + 1) : w[i] = IF i <= n THEN c[i] ELSE b[i - n]
  <2>1. /\ w \in Seq(T) /\ Len(w) = Len(c) + Len(b)
        /\ \A i \in 1..(Len(c) + Len(b)) : w[i] = IF i <= Len(c) THEN c[i] ELSE b[i - Len(c)]
    BY <1>5, <1>8, Concatenated
  <2>2. Len(c) + Len(b) = Len(v) + 1
    BY <1>3, <1>5, <1>8
  <2>3. DOMAIN w = 1..Len(w)
    BY <2>1
  <2> QED BY <1>8, <2>1, <2>2, <2>3
<1>10. \A i \in 1..(Len(v) + 1) : w[i] = IF i < n THEN v[i] ELSE IF i = n THEN e ELSE v[i - 1]
  <2> TAKE i \in 1..(Len(v) + 1)
  <2>1. CASE i < n
    BY <1>3, <1>8, <1>9, <2>1
  <2>2. CASE i = n
    BY <1>3, <1>8, <1>9, <2>2
  <2>3. CASE i > n
    <3>1. w[i] = b[i - n] /\ i - n \in 1..(Len(v) - n + 1)
      BY <1>3, <1>9, <2>3
    <3>2. b[i - n] = v[n - 1 + (i - n)] /\ n - 1 + (i - n) = i - 1
      BY <1>3, <1>5, <3>1
    <3> QED BY <1>3, <2>3, <3>1, <3>2
  <2> QED BY <1>3, <2>1, <2>2, <2>3
<1>11. ItemsIn(w) = ItemsIn(v) \cup {e}
  <2>1. ASSUME NEW i \in DOMAIN w PROVE w[i] \in ItemsIn(v) \cup {e}
    <3>1. i \in 1..(Len(v) + 1)
      BY <1>9
    <3>2. i < n => i \in DOMAIN v
      BY <1>3, <3>1
    <3>3. i > n => i - 1 \in DOMAIN v
      BY <1>3, <3>1
    <3>4. i < n \/ i = n \/ i > n
      BY <1>3, <3>1
    <3> QED BY <1>10, <3>1, <3>2, <3>3, <3>4 DEF ItemsIn
  <2>2. ASSUME NEW i \in DOMAIN v PROVE v[i] \in ItemsIn(w)
    <3>1. i < n => i \in DOMAIN w /\ w[i] = v[i]
      BY <1>3, <1>9, <1>10
    <3>2. i >= n => i + 1 \in DOMAIN w /\ w[i + 1] = v[i]
      BY <1>3, <1>9, <1>10
    <3>3. i < n \/ i >= n
      BY <1>3
    <3> QED BY <3>1, <3>2, <3>3 DEF ItemsIn
  <2>3. n \in DOMAIN w /\ w[n] = e
    BY <1>3, <1>9, <1>10
  <2> QED BY <2>1, <2>2, <2>3 DEF ItemsIn
<1> QED BY <1>2, <1>9, <1>11 DEF IsView, w

LEMMA ViewShape ==
  ASSUME NEW v, IsView(v)
  PROVE  /\ Len(v) \in Nat /\ DOMAIN v = 1..Len(v) /\ v = [i \in DOMAIN v |-> v[i]]
         /\ \A i \in DOMAIN v : IsItem(v[i])
<1>1. PICK S : v \in Seq(S) /\ \A x \in S : IsItem(x)
  BY DEF IsView
<1> QED BY <1>1

LEMMA ListOfItems ==
  ASSUME NEW n \in Nat, NEW v, v = [i \in 1..n |-> v[i]], \A i \in 1..n : IsItem(v[i])
  PROVE  IsView(v)
<1> DEFINE S == {v[i] : i \in 1..n}
<1>1. v \in Seq(S)
  OBVIOUS
<1>2. \A x \in S : IsItem(x)
  OBVIOUS
<1> QED BY <1>1, <1>2 DEF IsView

LEMMA EmptyView == IsView(<<>>)
<1>1. <<>> = [i \in 1..0 |-> <<>>[i]] /\ \A i \in 1..0 : IsItem(<<>>[i])
  OBVIOUS
<1> QED BY <1>1, ListOfItems

LEMMA FeedInserted ==
  ASSUME NEW feed, IsView(feed), NEW item, IsItem(item)
  PROVE  IsView(InsertInFeed(feed, item)) /\ ItemsIn(InsertInFeed(feed, item)) = ItemsIn(feed) \cup {item}
<1> DEFINE older == {i \in DOMAIN feed : feed[i].at < item.at}
<1>1. Len(feed) \in Nat /\ DOMAIN feed = 1..Len(feed)
  BY ViewShape
<1>2. CASE older = {}
  BY <1>2, AppendedView DEF InsertInFeed
<1>3. CASE older # {}
  <2> DEFINE n == CHOOSE i \in older : \A j \in older : i <= j
  <2>1. older \in SUBSET Nat
    BY <1>1
  <2>2. \E i \in older : \A j \in older : i <= j
    BY <1>3, <2>1, Least
  <2>3. n \in older
    BY <2>2
  <2>4. n \in 1..(Len(feed) + 1)
    BY <1>1, <2>3
  <2>5. InsertInFeed(feed, item) = InsertAt(feed, n, item)
    BY <1>3 DEF InsertInFeed
  <2> HIDE DEF n
  <2> QED BY <2>4, <2>5, InsertedView
<1> QED BY <1>2, <1>3

LEMMA PostInserted ==
  ASSUME IsView(reader.view), NEW item, IsItem(item)
  PROVE  IsView(InsertPost(item)) /\ ItemsIn(InsertPost(item)) = ItemsIn(reader.view) \cup {item}
BY FeedInserted, AppendedView DEF InsertPost

LEMMA ProfileUpdated ==
  ASSUME NEW view, IsView(view)
  PROVE  /\ IsView(UpdateProfile(view)) /\ DOMAIN UpdateProfile(view) = DOMAIN view
         /\ \A i \in DOMAIN view :
              /\ UpdateProfile(view)[i].post = view[i].post
              /\ UpdateProfile(view)[i].text = view[i].text
              /\ LocalProfile # {} /\ Own(view[i]) =>
                   UpdateProfile(view)[i].look = (CHOOSE r \in LocalProfile : TRUE).text
<1> DEFINE text == (CHOOSE r \in LocalProfile : TRUE).text
           new == UpdateProfile(view)
<1>1. Len(view) \in Nat /\ DOMAIN view = 1..Len(view) /\ \A i \in DOMAIN view : IsItem(view[i])
  BY ViewShape
<1>2. /\ new = [i \in DOMAIN view |-> new[i]] /\ DOMAIN new = DOMAIN view
      /\ \A i \in DOMAIN view :
           new[i] = IF Own(view[i]) /\ LocalProfile # {} THEN [view[i] EXCEPT !.look = text] ELSE view[i]
  BY DEF UpdateProfile
<1> HIDE DEF new, text
<1>3. \A i \in DOMAIN view :
        /\ IsItem(new[i]) /\ new[i].post = view[i].post /\ new[i].text = view[i].text
        /\ LocalProfile # {} /\ Own(view[i]) => new[i].look = text
  <2> TAKE i \in DOMAIN view
  <2>1. IsItem(view[i])
    BY <1>1
  <2>2. /\ IsItem([view[i] EXCEPT !.look = text]) /\ [view[i] EXCEPT !.look = text].look = text
        /\ [view[i] EXCEPT !.look = text].post = view[i].post /\ [view[i] EXCEPT !.look = text].text = view[i].text
    BY <2>1 DEF IsItem, Item
  <2> QED BY <1>2, <2>1, <2>2
<1>4. IsView(new)
  BY <1>1, <1>2, <1>3, ListOfItems
<1> QED BY <1>2, <1>3, <1>4 DEF new, text

LEMMA CutView ==
  ASSUME NEW feed, IsView(feed)
  PROVE  IsView(Cut(feed))
<1>1. PICK S : feed \in Seq(S) /\ \A x \in S : IsItem(x)
  BY DEF IsView
<1>2. Cut(feed) \in Seq(S)
  BY <1>1, LimitAssumption DEF Cut
<1> QED BY <1>1, <1>2 DEF IsView

LEMMA ItemsOfPosts ==
  ASSUME NEW posts \in SUBSET Posts, NEW rows, NEW late
  PROVE  IsView(ItemsOf(posts, rows, late))
<1> DEFINE v == ItemsOf(posts, rows, late)
           n == Cardinality(posts)
<1>1. n \in Nat
  BY HistoryAssumption, FS_Subset, FS_CardinalityType
<1>2. v = [i \in 1..n |-> v[i]] /\ \A i \in 1..n : IsItem(v[i])
  <2>1. v = [i \in 1..n |-> v[i]]
    BY DEF ItemsOf
  <2>2. ASSUME NEW i \in 1..n PROVE IsItem(v[i])
    <3>1. v[i] = PostItem(Newest(posts, rows, i), rows, late)
      BY DEF ItemsOf
    <3>2. IsItem(PostItem(Newest(posts, rows, i), rows, late))
      BY ItemIs DEF PostItem
    <3> QED BY <3>1, <3>2
  <2> QED BY <2>1, <2>2
<1> HIDE DEF v, n
<1>3. IsView(v)
  BY <1>1, <1>2, ListOfItems
<1> QED BY <1>3 DEF v

\* Whatever the app view answers.
LEMMA AnswersAreViews ==
  ASSUME NEW s, NEW kind, NEW anchor, NEW v \in ViewsOf(s, kind, anchor)
  PROVE  IsView(v)
<1>1. IsView(<<>>)
  BY EmptyView
<1>2. \A late : IsView(OwnItems(s, late))
  BY ItemsOfPosts DEF OwnItems
<1>3. \A t, reposted : IsItem(OthersItem(t, reposted))
  BY ItemIs DEF OthersItem
<1>4. \A x : IsItem(x) => IsView(<<x>>)
  <2>1. SUFFICES ASSUME NEW x, IsItem(x) PROVE IsView(<<x>>)
    OBVIOUS
  <2>2. <<x>> = [i \in 1..1 |-> <<x>>[i]] /\ \A i \in 1..1 : IsItem(<<x>>[i])
    BY <2>1
  <2> QED BY <2>2, ListOfItems
<1>5. CASE kind \in {"timeline", "author"}
  <2>1. v \in FeedsOf(s, kind)
    BY <1>5 DEF ViewsOf
  <2>2. PICK late \in {0, 1} : \/ v \in {<<>>, Cut(OwnItems(s, late))}
                               \/ \E item \in OthersItems(s, kind) : v \in WithOther(OwnItems(s, late), item)
    BY <2>1 DEF FeedsOf
  <2>3. \A item \in OthersItems(s, kind) : IsItem(item)
    BY <1>3 DEF OthersItems
  <2>4. ASSUME NEW item \in OthersItems(s, kind), v \in WithOther(OwnItems(s, late), item) PROVE IsView(v)
    BY <1>2, <2>3, <2>4, InsertedView, CutView DEF WithOther
  <2> QED BY <1>1, <1>2, <2>2, <2>4, CutView
<1>6. CASE kind = "likes"
  BY <1>1, <1>2, <1>3, <1>4, <1>6, CutView DEF ViewsOf
<1>7. CASE kind \in {"profile", "profiles"}
  <2> DEFINE own == Item(Profile, None, 0, Look(Seen(s)), TRUE)
             other == OthersItem(0, FALSE)
  <2>1. v = <<own>> \/ v = <<other>> \/ v = <<other, own>>
    BY <1>7 DEF ViewsOf, ProfilesOf
  <2>2. IsItem(own) /\ IsItem(other)
    BY <1>3, ItemIs
  <2> HIDE DEF own, other
  <2>3. <<other, own>> = [i \in 1..2 |-> <<other, own>>[i]] /\ \A i \in 1..2 : IsItem(<<other, own>>[i])
    BY <2>2
  <2>4. IsView(<<other, own>>)
    BY <2>3, ListOfItems
  <2> QED BY <1>4, <2>1, <2>2, <2>4
<1>8. CASE kind \notin {"timeline", "author", "likes", "profile", "profiles"}
  <2>1. v = ThreadOf(s, anchor)
    BY <1>8 DEF ViewsOf
  <2>2. \E posts \in SUBSET Posts : v = ItemsOf(posts, Seen(s), 0)
    BY <2>1 DEF ThreadOf
  <2> QED BY <2>2, ItemsOfPosts
<1> QED BY <1>5, <1>6, <1>7, <1>8

-----------------------------------------------------------------------------
(***************************************************************************)
(* What holds of a request whose answer is completed.                      *)
(***************************************************************************)
MergeFields == {"op", "at", "kind", "anchor", "since", "seen", "notFound", "original", "view", "local",
                "todo", "failed", "limit", "answer"}
MergeKinds == {"timeline", "author", "likes", "profile", "profiles", "thread"}
MergeStages == {"upstream", "records", "sanity", "buffer", "munge", "posts", "done"}

MergeShape ==
  /\ reader.op = "merge" /\ DOMAIN reader = MergeFields /\ reader = [f \in MergeFields |-> reader[f]]
  /\ reader.at \in MergeStages /\ reader.kind \in MergeKinds
  /\ reader.kind = "thread" => reader.anchor \in Posts
  /\ reader.since \in 1..Rev /\ reader.seen \in 0..Rev /\ reader.limit \in Nat
  /\ reader.notFound => reader.kind = "thread" /\ reader.original = <<>>
  /\ IsView(reader.original) /\ IsView(reader.view)
  /\ reader.local \subseteq [path : Paths, text : Texts, rev : 1..Rev]
  /\ reader.todo \subseteq reader.local /\ \A r \in reader.todo : r.path \in Posts

\* What was there when the request came, and has not changed, is there still; so is
\* what has a revision of that time.
Kept ==
  \A q \in Paths :
    q \notin changed \/ (Rows[q] # None /\ Rows[q].rev <= reader.since) => Rows[q] = Before[q]
LocalKept ==
  \A r \in reader.local : r.path \notin changed => Before[r.path] # None /\ r = LocalRecord(Before, r.path)

\* What is promised of a record, whatever becomes of the request.
Wanted(p) ==
  /\ Before[p] # None /\ p \notin changed /\ Before[p].rev > reader.seen
  /\ Cardinality(Newer(p)) <= reader.limit

Gathering ==
  /\ reader.at = "upstream" => reader.original = <<>> /\ ~reader.notFound
  /\ reader.at \in {"upstream", "records"} => reader.limit = 0
  /\ reader.at \in {"sanity", "buffer", "munge"} =>
       \A p \in Paths : Wanted(p) => LocalRecord(Before, p) \in reader.local
  /\ reader.at \notin {"posts", "done"} => reader.view = reader.original /\ reader.todo = {}

\* The posts that may have a place; in a thread, those that were left out have none
\* and get none.
Due(p) ==
  IF reader.kind = "thread" THEN (reader.notFound /\ p = reader.anchor) \/ (p # reader.anchor /\ IsOfThread(p))
  ELSE Reaches(p)
PassedOver(p) ==
  LET parent == Reply[p].parent
  IN  /\ reader.kind = "thread" /\ p # reader.anchor /\ ~In(parent, reader.original)
      /\ parent \notin changed /\ Before[parent] # None /\ Before[parent].rev < Before[p].rev =>
           ~In(parent, reader.view) /\ \A r \in reader.todo : r.path # parent
Placing ==
  reader.at = "posts" =>
    /\ reader.notFound /\ reader.anchor \notin changed /\ (\E r \in reader.todo : r.path = reader.anchor) =>
         reader.view = <<>>
    /\ \A q \in Posts : In(q, reader.original) => In(q, reader.view)
    /\ Steady => \A p \in Posts : Wanted(p) /\ Due(p) =>
         ShowsPost(p) \/ LocalRecord(Before, p) \in reader.todo \/ PassedOver(p)
    /\ Wanted(Profile) /\ ShowsAProfile => ShowsProfile

MergeInv ==
  reader.op = "merge" => MergeShape /\ Kept /\ LocalKept /\ Gathering /\ Placing /\ ReadYourWrites

LEMMA HistoryIs ==
  ASSUME RepoInv
  PROVE  /\ Rev \in Nat \ {0} /\ \A r \in 1..Rev : log[r] \in RecordTable
         /\ \A r \in 1..Rev : \A p \in Paths : log[r][p] = None \/ (log[r][p] \in RecordRow /\ log[r][p].rev \in 1..r)
         /\ Rows = log[Rev]
BY DEF RepoInv, LogShape, Rev, Rows, RecordTable

\* A commit and a change of the status: of what is promised, nothing comes to be.
LEMMA WritingMerges ==
  ASSUME RepoInv, RepoInv', MergeInv, reader.op = "merge", reader' = reader, reader.at # "done",
         Rev <= Rev', \A r \in 1..Rev : log'[r] = log[r], changed \subseteq changed',
         \A q \in Paths : (q \notin changed' \/ (Rows'[q] # None /\ Rows'[q].rev <= Rev)) => Rows'[q] = Rows[q],
         status' = status \/ Account \in changed'
  PROVE  MergeInv'
<1>1. MergeShape /\ Kept /\ LocalKept /\ Gathering /\ Placing
  BY DEF MergeInv
<1>2. reader.since \in 1..Rev /\ Rev \in Nat
  BY <1>1, HistoryIs DEF MergeShape
<1>3. Before' = Before
  BY <1>2 DEF Before
<1>4. MergeShape'
  <2>1. Rev' \in Nat
    BY DEF RepoInv, LogShape, Rev
  <2>2. reader.since \in 1..Rev' /\ (reader.seen \in 0..Rev => reader.seen \in 0..Rev') /\ 1..Rev \subseteq 1..Rev'
    BY <1>2, <2>1
  <2>3. [path : Paths, text : Texts, rev : 1..Rev] \subseteq [path : Paths, text : Texts, rev : 1..Rev']
    BY <2>2
  <2>4. reader.local \subseteq [path : Paths, text : Texts, rev : 1..Rev']
    BY <1>1, <2>3 DEF MergeShape
  <2>5. /\ reader.op = "merge" /\ DOMAIN reader = MergeFields /\ reader = [f \in MergeFields |-> reader[f]]
        /\ reader.at \in MergeStages /\ reader.kind \in MergeKinds /\ (reader.kind = "thread" => reader.anchor \in Posts)
        /\ reader.seen \in 0..Rev /\ reader.limit \in Nat
        /\ (reader.notFound => reader.kind = "thread" /\ reader.original = <<>>)
        /\ IsView(reader.original) /\ IsView(reader.view)
        /\ reader.todo \subseteq reader.local /\ \A r \in reader.todo : r.path \in Posts
    BY <1>1 DEF MergeShape
  <2> QED BY <2>2, <2>4, <2>5 DEF MergeShape
<1>5. Kept'
  <2> SUFFICES ASSUME NEW q \in Paths, q \notin changed' \/ (Rows'[q] # None /\ Rows'[q].rev <= reader.since)
               PROVE  Rows'[q] = Before[q]
    BY <1>3 DEF Kept
  <2>1. CASE q \notin changed'
    <3>1. Rows'[q] = Rows[q] /\ q \notin changed
      BY <2>1
    <3> QED BY <1>1, <3>1 DEF Kept
  <2>2. CASE Rows'[q] # None /\ Rows'[q].rev <= reader.since
    <3>1. Rows'[q].rev <= Rev
      <4>1. Rows'[q] \in RecordRow
        BY <2>2 DEF RepoInv, LogShape, Rev, Rows, RecordTable
      <4> QED BY <1>2, <2>2, <4>1 DEF RecordRow
    <3> QED BY <1>1, <2>2, <3>1 DEF Kept
  <2> QED BY <2>1, <2>2
<1>6. LocalKept'
  BY <1>1, <1>3 DEF LocalKept, LocalRecord
<1>7. \A p : Wanted(p)' => Wanted(p)
  BY <1>3 DEF Wanted, Newer, Existing
<1>8. Gathering'
  BY <1>1, <1>3, <1>7 DEF Gathering, LocalRecord
<1>9. Placing'
  <2> SUFFICES ASSUME reader.at = "posts" PROVE Placing'
    BY DEF Placing
  <2>1. \A p : /\ (Due(p)' <=> Due(p)) /\ (ShowsPost(p)' <=> ShowsPost(p)) /\ LocalRecord(Before, p)' = LocalRecord(Before, p)
               /\ PassedOver(p) => PassedOver(p)'
    BY <1>3 DEF Due, Reaches, IsOfThread, ShowsPost, LocalRecord, PassedOver, In, IsUsersFeed
  <2>2. Steady' => Steady
    BY DEF Steady
  <2>3. (ShowsProfile' <=> ShowsProfile) /\ (ShowsAProfile' <=> ShowsAProfile)
    BY <1>3 DEF ShowsProfile, ShowsAProfile, IsUsersFeed
  <2>4. \A q \in Posts : In(q, reader'.original) => In(q, reader'.view)
    BY <1>1 DEF Placing
  <2> QED BY <1>1, <1>3, <1>7, <2>1, <2>2, <2>3, <2>4 DEF Placing
<1>10. ReadYourWrites'
  BY DEF ReadYourWrites, Reading
<1> QED BY <1>4, <1>5, <1>6, <1>8, <1>9, <1>10 DEF MergeInv

LEMMA CommitMerges ==
  ASSUME RepoInv, RepoInv', MergeInv, reader.op = "merge", NEW p \in Paths, NEW text \in Says[p] \cup {None}, Commit(p, text)
  PROVE  MergeInv'
<1> DEFINE row == IF text = None THEN None ELSE [text |-> text, rev |-> Rev + 1]
           rows == [Rows EXCEPT ![p] = row]
<1>1. Rev \in Nat \ {0} /\ Rows \in RecordTable /\ log \in Seq(RecordTable)
  BY HistoryIs DEF RepoInv, LogShape
<1>2. /\ log' = Append(log, rows) /\ changed' = changed \cup {p} /\ status' = status /\ reader' = reader /\ reader.at # "done"
  BY NoneAssumption DEF Commit, Unanswered, Meanwhile, Operations
<1>3. rows \in [Paths -> RecordRow \cup {None, row}]
  BY <1>1 DEF RecordTable
<1> HIDE DEF rows
<1>4. log \in Seq([Paths -> RecordRow \cup {None, row}])
  BY <1>1 DEF RecordTable
<1>5. Rev' = Rev + 1 /\ Rows' = rows /\ \A r \in 1..Rev : log'[r] = log[r]
  BY <1>1, <1>2, <1>3, <1>4 DEF Rev, Rows
<1>6. ASSUME NEW q \in Paths, q \notin changed' \/ (Rows'[q] # None /\ Rows'[q].rev <= Rev) PROVE Rows'[q] = Rows[q]
  <2>1. CASE q # p
    BY <1>1, <1>5, <2>1 DEF rows, RecordTable
  <2>2. CASE q = p
    <3>1. rows[p] = row /\ row # None /\ row.rev <= Rev
      BY <1>1, <1>2, <1>5, <1>6, <2>2 DEF rows, RecordTable
    <3>2. row.rev = Rev + 1
      BY <3>1
    <3> QED BY <1>1, <3>1, <3>2
  <2> QED BY <2>1, <2>2
<1>7. Rev <= Rev' /\ changed \subseteq changed'
  BY <1>1, <1>2, <1>5
<1> QED BY <1>2, <1>5, <1>6, <1>7, WritingMerges

LEMMA StatusMerges ==
  ASSUME RepoInv, RepoInv', MergeInv, reader.op = "merge", ChangeStatus
  PROVE  MergeInv'
<1>1. /\ log' = log /\ reader' = reader /\ reader.at # "done" /\ Account \in changed' /\ changed \subseteq changed'
  BY NoneAssumption DEF ChangeStatus, Unanswered, Meanwhile, Operations
<1>2. Rev' = Rev /\ Rows' = Rows /\ Rev \in Nat
  BY <1>1, HistoryIs DEF Rev, Rows
<1> QED BY <1>1, <1>2, WritingMerges

LEMMA AskMerges ==
  ASSUME RepoInv, NEW kind, NEW anchor, kind \in MergeKinds, kind = "thread" => anchor \in Posts, Ask(kind, anchor)
  PROVE  MergeInv'
<1>1. log' = log /\ changed' = changed /\ Rev' = Rev /\ Rows' = Rows /\ Rev \in Nat \ {0} /\ Rows = log[Rev]
  BY HistoryIs DEF Ask, Unread, repoVars, Rev, Rows
<1>2. /\ reader' = [f \in MergeFields |-> reader'[f]] /\ DOMAIN reader' = MergeFields
      /\ reader'.op = "merge" /\ reader'.at = "upstream" /\ reader'.kind = kind /\ reader'.anchor = anchor
      /\ reader'.since = Rev /\ reader'.seen = 0 /\ reader'.notFound = FALSE /\ reader'.original = <<>>
      /\ reader'.view = <<>> /\ reader'.local = {} /\ reader'.todo = {} /\ reader'.limit = 0
  BY DEF Ask, MergeFields
<1>3. IsView(<<>>)
  BY EmptyView
<1>4. MergeShape'
  BY <1>1, <1>2, <1>3 DEF MergeShape, MergeStages
<1>5. Kept' /\ LocalKept'
  BY <1>1, <1>2 DEF Kept, LocalKept, Before
<1>6. Gathering' /\ Placing' /\ ReadYourWrites'
  BY <1>2 DEF Gathering, Placing, ReadYourWrites, Reading
<1> QED BY <1>4, <1>5, <1>6 DEF MergeInv

-----------------------------------------------------------------------------
(***************************************************************************)
(* The steps of a request.                                                 *)
(***************************************************************************)
\* A step that leaves the request what it is about.
SameRequest ==
  /\ reader'.since = reader.since /\ reader'.kind = reader.kind /\ reader'.anchor = reader.anchor

LEMMA RequestKept ==
  ASSUME MergeShape, Kept, Unread, SameRequest
  PROVE  /\ Before' = Before /\ Kept' /\ Rev' = Rev /\ Rows' = Rows /\ changed' = changed /\ down' = down
         /\ (Steady' <=> Steady)
         /\ reader'.seen = reader.seen => \A p : Newer(p)' = Newer(p) /\ (Old(p)' <=> Old(p))
<1>1. log' = log /\ changed' = changed /\ status' = status /\ down' = down
  BY DEF Unread, repoVars
<1>2. Before' = Before /\ Rev' = Rev /\ Rows' = Rows
  BY <1>1 DEF Before, SameRequest, Rev, Rows
<1> QED BY <1>1, <1>2 DEF Kept, SameRequest, Steady, Newer, Old, Existing

\* An answer that ends the request: it is as promised, if what is promised at its end
\* is what it shows.
LEMMA AnswerIs ==
  ASSUME MergeShape, Kept, Unread, NEW answer, Answer(reader, answer) \/ Refuse(reader, answer)
  PROVE  /\ SameRequest /\ reader'.at = "done"
         /\ MergeShape' /\ Kept' /\ LocalKept' /\ Gathering' /\ Placing'
         /\ Answer(reader, answer) => /\ reader'.original = reader.original /\ reader'.view = reader.view
                                      /\ reader'.failed = reader.failed /\ reader'.limit = reader.limit
                                      /\ reader'.seen = reader.seen /\ reader'.notFound = reader.notFound
         /\ Refuse(reader, answer) => reader'.failed = TRUE /\ MergeInv'
<1>1. /\ SameRequest /\ reader'.at = "done" /\ reader'.local = {} /\ reader'.todo = {} /\ reader'.op = "merge"
      /\ reader' = [f \in MergeFields |-> reader'[f]] /\ DOMAIN reader' = MergeFields
      /\ reader'.limit = reader.limit /\ reader'.seen = reader.seen /\ reader'.notFound = reader.notFound
  BY DEF MergeShape, MergeFields, Answer, Refuse, SameRequest
<1>2. Answer(reader, answer) =>
        reader'.original = reader.original /\ reader'.view = reader.view /\ reader'.failed = reader.failed
  BY DEF MergeShape, MergeFields, Answer
<1>3. Refuse(reader, answer) => reader'.original = <<>> /\ reader'.view = <<>> /\ reader'.failed = TRUE
  BY DEF MergeShape, MergeFields, Answer, Refuse
<1>4. Rev' = Rev /\ Kept'
  BY <1>1, RequestKept
<1>5. MergeShape'
  <2>1. IsView(reader'.original) /\ IsView(reader'.view) /\ (reader.original = <<>> => reader'.original = <<>>)
    BY <1>2, <1>3, EmptyView DEF MergeShape
  <2> QED BY <1>1, <1>4, <2>1 DEF MergeShape, MergeStages, SameRequest
<1>6. LocalKept' /\ Gathering' /\ Placing'
  BY <1>1 DEF LocalKept, Gathering, Placing
<1>7. reader'.failed = TRUE => ReadYourWrites'
  BY DEF ReadYourWrites, Promised
<1> QED BY <1>1, <1>2, <1>3, <1>4, <1>5, <1>6, <1>7 DEF MergeInv

LEMMA NothingPromised ==
  ASSUME MergeShape, Kept, Unread, NEW answer, Answer(reader, answer) \/ Refuse(reader, answer),
         \A p \in Paths : ~Promised(p)'
  PROVE  MergeInv'
BY AnswerIs DEF MergeInv, ReadYourWrites, Paths

LEMMA SomeAnswer ==
  ASSUME NEW s, NEW kind \in MergeKinds \ {"thread"}, NEW anchor
  PROVE  ViewsOf(s, kind, anchor) # {}
<1>1. CASE kind \in {"timeline", "author"}
  <2>1. <<>> \in FeedsOf(s, kind)
    BY DEF FeedsOf
  <2> QED BY <1>1, <2>1 DEF ViewsOf
<1>2. CASE kind \notin {"timeline", "author"}
  BY <1>2 DEF ViewsOf, ProfilesOf, MergeKinds
<1> QED BY <1>1, <1>2

LEMMA PipethroughKeeps ==
  ASSUME RepoInv, MergeInv, Pipethrough
  PROVE  MergeInv'
<1>1. /\ reader.op = "merge" /\ reader.at = "upstream" /\ Unread
      /\ MergeShape /\ Kept /\ LocalKept /\ Gathering
  BY DEF MergeInv, Pipethrough, Reading
<1>2. Rev \in Nat
  BY HistoryIs
<1>3. ASSUME NEW answer, Refuse(reader, answer) PROVE MergeInv'
  BY <1>1, <1>3, AnswerIs
<1>4. ASSUME NEW s \in 0..Rev, SameRequest, reader'.at = "records", reader'.seen = s, reader'.op = "merge",
             reader' = [f \in MergeFields |-> reader'[f]], DOMAIN reader' = MergeFields,
             reader'.local = reader.local, reader'.todo = reader.todo, reader'.limit = reader.limit,
             reader'.view = reader'.original, IsView(reader'.view),
             reader'.notFound => reader.kind = "thread" /\ reader'.original = <<>>
      PROVE  MergeInv'
  <2>1. Before' = Before /\ Kept' /\ Rev' = Rev
    BY <1>1, <1>4, RequestKept
  <2>2. MergeShape'
    BY <1>1, <1>4, <2>1 DEF MergeShape, MergeStages, SameRequest
  <2>3. LocalKept'
    BY <1>1, <1>4, <2>1 DEF LocalKept, LocalRecord, Unread, repoVars
  <2>4. Gathering' /\ Placing' /\ ReadYourWrites'
    BY <1>1, <1>4 DEF Gathering, Placing, ReadYourWrites, Reading
  <2> QED BY <2>1, <2>2, <2>3, <2>4 DEF MergeInv
<1>5. ASSUME NEW s \in 0..Rev, NEW v, IsView(v),
             reader' = [[reader EXCEPT !.at = "records", !.seen = s] EXCEPT !.original = v, !.view = v]
      PROVE  MergeInv'
  <2>1. /\ SameRequest /\ reader'.at = "records" /\ reader'.seen = s /\ reader'.op = "merge"
        /\ reader' = [f \in MergeFields |-> reader'[f]] /\ DOMAIN reader' = MergeFields
        /\ reader'.local = reader.local /\ reader'.todo = reader.todo /\ reader'.limit = reader.limit
        /\ reader'.view = v /\ reader'.original = v /\ reader'.notFound = reader.notFound
    BY <1>1, <1>5 DEF MergeShape, MergeFields, SameRequest
  <2>2. ~reader.notFound
    BY <1>1 DEF Gathering
  <2> QED BY <1>4, <1>5, <2>1, <2>2
<1>6. ASSUME NEW s \in 0..Rev, reader.kind = "thread",
             reader' = [[reader EXCEPT !.at = "records", !.seen = s] EXCEPT !.notFound = TRUE]
      PROVE  MergeInv'
  <2>1. /\ SameRequest /\ reader'.at = "records" /\ reader'.seen = s /\ reader'.op = "merge"
        /\ reader' = [f \in MergeFields |-> reader'[f]] /\ DOMAIN reader' = MergeFields
        /\ reader'.local = reader.local /\ reader'.todo = reader.todo /\ reader'.limit = reader.limit
        /\ reader'.view = reader.view /\ reader'.original = reader.original
    BY <1>1, <1>6 DEF MergeShape, MergeFields, SameRequest
  <2>2. reader.view = reader.original /\ reader.original = <<>> /\ IsView(reader.view)
    BY <1>1 DEF Gathering, MergeShape
  <2> QED BY <1>4, <1>6, <2>1, <2>2
<1>7. ASSUME NEW s \in 0..Rev, NEW told \in BOOLEAN,
             LET views == ViewsOf(s, reader.kind, reader.anchor)
                 r == [reader EXCEPT !.at = "records", !.seen = s]
             IN  \/ told /\ \E v \in views : reader' = [r EXCEPT !.original = v, !.view = v]
                 \/ told /\ views = {} /\ reader' = [r EXCEPT !.notFound = TRUE]
                 \/ ~told /\ Refuse(reader, IF views = {} THEN "NotFound" ELSE "ok")
      PROVE  MergeInv'
  <2> DEFINE views == ViewsOf(s, reader.kind, reader.anchor)
             r == [reader EXCEPT !.at = "records", !.seen = s]
  <2>1. \/ \E v \in views : reader' = [r EXCEPT !.original = v, !.view = v]
        \/ views = {} /\ reader' = [r EXCEPT !.notFound = TRUE]
        \/ Refuse(reader, IF views = {} THEN "NotFound" ELSE "ok")
    BY <1>7
  <2>2. ASSUME NEW v \in views, reader' = [r EXCEPT !.original = v, !.view = v] PROVE MergeInv'
    BY <1>5, <2>2, AnswersAreViews
  <2>3. CASE views = {} /\ reader' = [r EXCEPT !.notFound = TRUE]
    <3>1. reader.kind = "thread"
      BY <1>1, <2>3, SomeAnswer DEF MergeShape
    <3> QED BY <1>6, <2>3, <3>1
  <2> QED BY <1>3, <2>1, <2>2, <2>3
<1> QED BY <1>3, <1>7 DEF Pipethrough

\* The limit is of what is newer, the oldest first: what the account had written when
\* it asked is before what it writes meanwhile.
LEMMA OldestTaken ==
  ASSUME RepoInv, MergeShape, Kept, NEW p \in Paths, NEW limit \in Nat,
         Before[p] # None, p \notin changed, Before[p].rev > reader.seen, Cardinality(Newer(p)) <= limit
  PROVE  LET newer == {q \in Existing(Rows) : Rows[q].rev > reader.seen}
             older == {q \in newer : Rows[q].rev < Rows[p].rev}
         IN  p \in newer /\ Cardinality(older) < limit /\ LocalRecord(Rows, p) = LocalRecord(Before, p)
<1> DEFINE newer == {q \in Existing(Rows) : Rows[q].rev > reader.seen}
           older == {q \in newer : Rows[q].rev < Rows[p].rev}
<1>1. Rows[p] = Before[p]
  BY DEF Kept
<1>2. p \in newer /\ LocalRecord(Rows, p) = LocalRecord(Before, p)
  BY <1>1 DEF Existing, LocalRecord
<1>3. reader.since \in 1..Rev /\ Rev \in Nat /\ Before[p] \in RecordRow /\ Before[p].rev \in 1..reader.since
  BY HistoryIs DEF MergeShape, Before
<1>4. ASSUME NEW q \in older PROVE q \in Newer(p) /\ q # p
  <2>1. q \in Paths /\ Rows[q] # None /\ Rows[q].rev < Before[p].rev /\ Rows[q].rev > reader.seen
    BY <1>1, <1>4 DEF Existing
  <2>2. Rows[q] \in RecordRow /\ Rows[q].rev \in Nat
    BY <2>1, HistoryIs DEF RecordRow
  <2>3. Rows[q].rev <= reader.since
    BY <1>3, <2>1, <2>2
  <2>4. Rows[q] = Before[q]
    BY <2>1, <2>3 DEF Kept
  <2>5. Rows[q].rev <= Before[p].rev /\ Rows[q].rev # Before[p].rev
    BY <1>3, <2>1, <2>2
  <2> QED BY <2>1, <2>4, <2>5 DEF Newer, Existing
<1>5. p \in Newer(p)
  BY <1>3 DEF Newer, Existing
<1>6. IsFiniteSet(Newer(p)) /\ older \in SUBSET Newer(p)
  <2>1. Newer(p) \in SUBSET Paths
    BY DEF Newer, Existing
  <2> QED BY <1>4, <2>1, PathsAre, FS_Subset
<1> HIDE DEF newer, older
<1>7. Cardinality(older) <= Cardinality(Newer(p)) /\ Cardinality(older) # Cardinality(Newer(p))
      /\ Cardinality(older) \in Nat /\ Cardinality(Newer(p)) \in Nat
  <2>1. older # Newer(p)
    BY <1>4, <1>5
  <2>2. IsFiniteSet(older)
    BY <1>6, FS_Subset
  <2> QED BY <1>6, <2>1, <2>2, FS_Subset, FS_CardinalityType
<1>8. Cardinality(older) < limit
  BY <1>7
<1> QED BY <1>2, <1>8 DEF newer, older

LEMMA GetRecordsSinceRevKeeps ==
  ASSUME RepoInv, MergeInv, GetRecordsSinceRev
  PROVE  MergeInv'
<1> DEFINE newer == {p \in Existing(Rows) : Rows[p].rev > reader.seen}
           older(p) == {q \in newer : Rows[q].rev < Rows[p].rev}
           taken(limit) == {p \in newer : Cardinality(older(p)) < limit}
           local(limit) == {LocalRecord(Rows, p) : p \in taken(limit)}
<1>1. /\ reader.op = "merge" /\ reader.at = "records" /\ Unread
      /\ MergeShape /\ Kept /\ LocalKept /\ Gathering
  BY DEF MergeInv, GetRecordsSinceRev, Reading
<1>2. PICK limit \in LocalLimits :
        \/ PassOn
        \/ reader' = [reader EXCEPT !.at = "sanity", !.limit = limit, !.local = local(limit)]
  BY DEF GetRecordsSinceRev
<1>3. limit \in Nat
  BY LimitAssumption
<1>4. CASE PassOn
  <2>1. PICK answer : Answer(reader, answer)
    BY <1>4 DEF PassOn
  <2>2. reader'.limit = 0 /\ SameRequest
    BY <1>1, <2>1, AnswerIs DEF Gathering
  <2>3. reader'.seen = reader.seen
    BY <1>1, <2>1, AnswerIs
  <2>4. Before' = Before /\ \A p : Newer(p)' = Newer(p)
    BY <1>1, <2>2, <2>3, RequestKept
  <2>5. ASSUME NEW p \in Paths, Promised(p)' PROVE FALSE
    <3>1. Before[p] # None /\ Before[p].rev > reader.seen /\ Cardinality(Newer(p)) <= 0
      BY <2>2, <2>3, <2>4, <2>5 DEF Promised
    <3>2. Before \in RecordTable
      BY <1>1, HistoryIs DEF Before, MergeShape
    <3>3. Before[p].rev \in Nat
      BY <3>1, <3>2 DEF RecordTable, RecordRow
    <3>4. p \in Newer(p)
      BY <3>1, <3>3 DEF Newer, Existing
    <3>5. IsFiniteSet(Newer(p))
      <4>1. Newer(p) \in SUBSET Paths
        BY DEF Newer, Existing
      <4> QED BY <4>1, PathsAre, FS_Subset
    <3>6. Cardinality(Newer(p)) \in Nat /\ Cardinality(Newer(p)) # 0
      BY <3>4, <3>5, FS_CardinalityType, FS_EmptySet
    <3> QED BY <3>1, <3>6
  <2> QED BY <1>1, <2>1, <2>5, NothingPromised
<1>5. CASE reader' = [reader EXCEPT !.at = "sanity", !.limit = limit, !.local = local(limit)]
  <2>1. /\ SameRequest /\ reader'.at = "sanity" /\ reader'.limit = limit /\ reader'.local = local(limit)
        /\ reader'.op = "merge" /\ reader' = [f \in MergeFields |-> reader'[f]] /\ DOMAIN reader' = MergeFields
        /\ reader'.todo = reader.todo /\ reader'.seen = reader.seen /\ reader'.notFound = reader.notFound
        /\ reader'.view = reader.view /\ reader'.original = reader.original
    <3> HIDE DEF local
    <3> QED BY <1>1, <1>5 DEF MergeShape, MergeFields, SameRequest
  <2>2. Before' = Before /\ Kept' /\ Rev' = Rev /\ Rows' = Rows /\ changed' = changed /\ \A p : Newer(p)' = Newer(p)
    BY <1>1, <2>1, RequestKept
  <2>3. reader.todo = {}
    BY <1>1 DEF Gathering
  <2>4. ASSUME NEW r \in local(limit) PROVE \E p \in Existing(Rows) : r = LocalRecord(Rows, p)
    BY <2>4
  <2>5. \A p \in Existing(Rows) : Rows[p] \in RecordRow /\ Rows[p].rev \in 1..Rev /\ p \in Paths
    BY HistoryIs DEF Existing
  <2>6. local(limit) \subseteq [path : Paths, text : Texts, rev : 1..Rev]
    <3>1. SUFFICES ASSUME NEW r \in local(limit) PROVE r \in [path : Paths, text : Texts, rev : 1..Rev]
      OBVIOUS
    <3>2. PICK p \in Existing(Rows) : r = LocalRecord(Rows, p)
      BY <2>4
    <3> QED BY <2>5, <3>2 DEF LocalRecord, RecordRow
  <2>7. \A r \in local(limit) : r.path \notin changed => Before[r.path] # None /\ r = LocalRecord(Before, r.path)
    <3> SUFFICES ASSUME NEW r \in local(limit), r.path \notin changed
                 PROVE  Before[r.path] # None /\ r = LocalRecord(Before, r.path)
      OBVIOUS
    <3>1. PICK p \in Existing(Rows) : r = LocalRecord(Rows, p)
      BY <2>4
    <3>2. r.path = p /\ p \in Paths /\ Rows[p] # None
      BY <3>1 DEF LocalRecord, Existing
    <3>3. Rows[p] = Before[p]
      BY <1>1, <3>2 DEF Kept
    <3> QED BY <3>1, <3>2, <3>3 DEF LocalRecord
  <2>8. ASSUME NEW p \in Paths, Wanted(p)' PROVE LocalRecord(Before, p) \in local(limit)
    <3>1. Before[p] # None /\ p \notin changed /\ Before[p].rev > reader.seen /\ Cardinality(Newer(p)) <= limit
      BY <2>1, <2>2, <2>8 DEF Wanted
    <3>2. p \in newer /\ Cardinality(older(p)) < limit /\ LocalRecord(Rows, p) = LocalRecord(Before, p)
      BY <1>1, <1>3, <3>1, OldestTaken
    <3> QED BY <3>2
  <2> HIDE DEF local
  <2>9. MergeShape'
    BY <1>1, <1>3, <2>1, <2>2, <2>3, <2>6 DEF MergeShape, MergeStages, SameRequest
  <2>10. LocalKept'
    BY <2>1, <2>2, <2>7 DEF LocalKept, LocalRecord
  <2>11. Gathering' /\ Placing' /\ ReadYourWrites'
    BY <1>1, <2>1, <2>2, <2>8 DEF Gathering, Placing, ReadYourWrites, Reading, LocalRecord
  <2> QED BY <2>2, <2>9, <2>10, <2>11 DEF MergeInv
<1> QED BY <1>2, <1>4, <1>5

\* On to the next stage, with nothing else.
LEMMA NextStage ==
  ASSUME RepoInv, MergeInv, reader.op = "merge", reader.at \in {"sanity", "buffer"}, Unread,
         NEW at \in {"buffer", "munge"}, reader' = [reader EXCEPT !.at = at]
  PROVE  MergeInv'
<1>1. MergeShape /\ Kept /\ LocalKept /\ Gathering
  BY DEF MergeInv
<1>2. /\ SameRequest /\ reader'.at = at /\ reader'.limit = reader.limit /\ reader'.local = reader.local
      /\ reader'.op = "merge" /\ reader' = [f \in MergeFields |-> reader'[f]] /\ DOMAIN reader' = MergeFields
      /\ reader'.todo = reader.todo /\ reader'.seen = reader.seen /\ reader'.notFound = reader.notFound
      /\ reader'.view = reader.view /\ reader'.original = reader.original
  BY <1>1 DEF MergeShape, MergeFields, SameRequest
<1>3. Before' = Before /\ Kept' /\ Rev' = Rev /\ changed' = changed /\ \A p : Newer(p)' = Newer(p)
  BY <1>1, <1>2, RequestKept
<1>4. MergeShape'
  BY <1>1, <1>2, <1>3 DEF MergeShape, MergeStages, SameRequest
<1>5. LocalKept'
  BY <1>1, <1>2, <1>3 DEF LocalKept, LocalRecord
<1>6. Gathering' /\ Placing' /\ ReadYourWrites'
  BY <1>1, <1>2, <1>3 DEF Gathering, Placing, ReadYourWrites, Reading, Wanted, LocalRecord
<1> QED BY <1>3, <1>4, <1>5, <1>6 DEF MergeInv

LEMMA SanityCheckKeeps ==
  ASSUME RepoInv, MergeInv, SanityCheck
  PROVE  MergeInv'
<1>1. reader.op = "merge" /\ reader.at = "sanity" /\ Unread /\ MergeShape /\ Kept
  BY DEF MergeInv, SanityCheck, Reading
<1>2. CASE \E p \in Existing(Rows) : Rows[p].rev <= reader.seen
  BY <1>1, <1>2, NextStage DEF SanityCheck
<1>3. CASE ~\E p \in Existing(Rows) : Rows[p].rev <= reader.seen
  <2>1. PICK answer : Answer(reader, answer)
    BY <1>3 DEF SanityCheck, PassOn
  <2>2. SameRequest /\ reader'.seen = reader.seen
    BY <1>1, <2>1, AnswerIs
  <2>3. changed' = changed /\ \A p : Old(p)' <=> Old(p)
    BY <1>1, <2>2, RequestKept
  <2>4. \A q \in Paths \ changed : ~Old(q)
    BY <1>1, <1>3 DEF Kept, Old, Existing
  <2>5. \A p \in Paths : ~Promised(p)'
    BY <2>3, <2>4 DEF Promised
  <2> QED BY <1>1, <2>1, <2>5, NothingPromised
<1> QED BY <1>2, <1>3

LEMMA BufferAnswerKeeps ==
  ASSUME RepoInv, MergeInv, BufferAnswer
  PROVE  MergeInv'
<1>1. reader.op = "merge" /\ reader.at = "buffer" /\ Unread /\ MergeShape /\ Kept
  BY DEF MergeInv, BufferAnswer, Reading
<1>2. ASSUME NEW answer, Refuse(reader, answer) PROVE MergeInv'
  BY <1>1, <1>2, AnswerIs
<1> QED BY <1>1, <1>2, NextStage DEF BufferAnswer, GiveUp

LEMMA LocalPostsAre ==
  ASSUME MergeShape, NEW p \in Posts, LocalRecord(Before, p) \in reader.local
  PROVE  LocalRecord(Before, p) \in LocalPosts /\ LocalRecord(Before, p).path = p /\ LocalRecord(Before, p).rev = Before[p].rev
BY PathsAre DEF LocalPosts, LocalRecord, Profile

LEMMA ToPostsKeeps ==
  ASSUME RepoInv, MergeInv, reader.op = "merge", reader.at = "munge", Unread,
         NEW view, IsView(view), NEW posts \in SUBSET LocalPosts, ToPosts(view, posts),
         reader.notFound /\ reader.anchor \notin changed /\ (\E r \in posts : r.path = reader.anchor) => view = <<>>,
         \A q \in Posts : In(q, reader.original) => In(q, view),
         \A p \in Posts : Wanted(p) /\ Due(p) => LocalRecord(Before, p) \in posts,
         Wanted(Profile) /\ ShowsAProfile => \A i \in DOMAIN view : Own(view[i]) => view[i].look = Before[Profile].text
  PROVE  MergeInv'
<1>1. MergeShape /\ Kept /\ LocalKept /\ Gathering
  BY DEF MergeInv
<1>2. /\ SameRequest /\ reader'.at = "posts" /\ reader'.view = view /\ reader'.todo = posts
      /\ reader'.limit = reader.limit /\ reader'.local = reader.local
      /\ reader'.op = "merge" /\ reader' = [f \in MergeFields |-> reader'[f]] /\ DOMAIN reader' = MergeFields
      /\ reader'.seen = reader.seen /\ reader'.notFound = reader.notFound /\ reader'.original = reader.original
  BY <1>1 DEF ToPosts, MergeShape, MergeFields, SameRequest
<1>3. Before' = Before /\ Kept' /\ Rev' = Rev /\ changed' = changed /\ \A p : Newer(p)' = Newer(p)
  BY <1>1, <1>2, RequestKept
<1>4. posts \subseteq reader.local /\ \A r \in posts : r.path \in Posts
  BY <1>1 DEF LocalPosts, MergeShape, Paths
<1>5. MergeShape'
  BY <1>1, <1>2, <1>3, <1>4 DEF MergeShape, MergeStages, SameRequest
<1>6. LocalKept'
  BY <1>1, <1>2, <1>3 DEF LocalKept, LocalRecord
<1>7. Gathering' /\ ReadYourWrites'
  BY <1>2 DEF Gathering, ReadYourWrites, Reading
<1>8. Placing'
  <2>1. \A p : (Wanted(p)' <=> Wanted(p)) /\ LocalRecord(Before, p)' = LocalRecord(Before, p)
    BY <1>2, <1>3 DEF Wanted, LocalRecord
  <2>2. \A p : Due(p)' <=> Due(p)
    <3>1. \A p : IsOfThread(p)' <=> IsOfThread(p)
      BY <1>2 DEF IsOfThread, SameRequest
    <3>2. reader.kind # "thread" => \A p : Reaches(p)' <=> Reaches(p)
      BY <1>2, <1>3 DEF Reaches, IsUsersFeed, SameRequest
    <3> QED BY <1>2, <3>1, <3>2 DEF Due, SameRequest
  <2>3. Wanted(Profile) /\ ShowsAProfile => ShowsProfile'
    BY <1>2, <1>3 DEF ShowsProfile
  <2>4. ShowsAProfile' <=> ShowsAProfile
    BY <1>2 DEF ShowsAProfile, IsUsersFeed, SameRequest
  <2>5. \A q \in Posts : In(q, reader'.original) => In(q, reader'.view)
    BY <1>2
  <2>6. reader'.notFound /\ reader'.anchor \notin changed' /\ (\E r \in reader'.todo : r.path = reader'.anchor) => reader'.view = <<>>
    BY <1>2, <1>3 DEF SameRequest
  <2> QED BY <1>2, <1>3, <2>1, <2>2, <2>3, <2>4, <2>5, <2>6 DEF Placing
<1> QED BY <1>3, <1>5, <1>6, <1>7, <1>8 DEF MergeInv

\* A post that a feed reaches is newer than the end of it.
LEMMA FeedTakesAll ==
  ASSUME RepoInv, MergeInv, reader.op = "merge", reader.at = "munge", reader.kind \in {"timeline", "author"},
         NEW p \in Posts, Wanted(p), Due(p)
  PROVE  LocalRecord(Before, p) \in InFeed(reader.view)
<1>1. MergeShape /\ Gathering /\ reader.view = reader.original
  BY DEF MergeInv, Gathering
<1>2. LocalRecord(Before, p) \in LocalPosts /\ LocalRecord(Before, p).rev = Before[p].rev
  BY <1>1, LocalPostsAre, PathsAre DEF Gathering, Paths
<1>3. Before[p].rev > LastTime(reader.view)
  <2>1. CASE reader.view = <<>>
    <3>1. Before[p] \in RecordRow /\ Before[p].rev \in 1..Rev
      BY <1>1, HistoryIs, PathsAre DEF MergeShape, Before, Wanted
    <3> QED BY <2>1, <3>1, HistoryIs DEF LastTime
  <2>2. CASE reader.view # <<>>
    BY <1>1, <2>2 DEF LastTime, Due, Reaches
  <2> QED BY <2>1, <2>2
<1> QED BY <1>2, <1>3 DEF InFeed

LEMMA ProfileTaken ==
  ASSUME RepoInv, MergeInv, reader.op = "merge", reader.at = "munge", Wanted(Profile)
  PROVE  LET new == UpdateProfile(reader.view)
         IN  \A i \in DOMAIN new : Own(new[i]) => new[i].look = Before[Profile].text
<1>1. MergeShape /\ LocalKept /\ Gathering
  BY DEF MergeInv
<1>2. LocalRecord(Before, Profile) \in LocalProfile
  BY <1>1 DEF Gathering, LocalProfile, LocalRecord, Paths
<1>3. (CHOOSE r \in LocalProfile : TRUE) \in LocalProfile
  BY <1>2
<1>4. (CHOOSE r \in LocalProfile : TRUE).text = Before[Profile].text
  BY <1>1, <1>3 DEF LocalProfile, LocalKept, LocalRecord, Wanted
<1>5. IsView(reader.view)
  BY <1>1 DEF MergeShape
<1> QED BY <1>2, <1>4, <1>5, ProfileUpdated DEF Own

LEMMA MungeKeeps ==
  ASSUME RepoInv, MergeInv, Munge
  PROVE  MergeInv'
<1> DEFINE new == UpdateProfile(reader.view)
<1>1. /\ reader.op = "merge" /\ reader.at = "munge" /\ Unread
      /\ MergeShape /\ Kept /\ LocalKept /\ Gathering /\ reader.view = reader.original
  BY DEF MergeInv, Munge, Reading, Gathering
<1>2. IsView(reader.view) /\ IsView(new) /\ \A q \in Posts : In(q, reader.original) => In(q, new)
  <2>1. IsView(reader.view)
    BY <1>1 DEF MergeShape
  <2>2. IsView(new) /\ DOMAIN new = DOMAIN reader.view /\ \A i \in DOMAIN reader.view : new[i].post = reader.view[i].post
    BY <2>1, ProfileUpdated
  <2> HIDE DEF new
  <2> QED BY <1>1, <2>1, <2>2 DEF In
<1>3. \A view : InFeed(view) \in SUBSET LocalPosts
  BY DEF InFeed
<1>4. Wanted(Profile) => \A i \in DOMAIN new : Own(new[i]) => new[i].look = Before[Profile].text
  BY <1>1, ProfileTaken
<1> HIDE DEF new
<1>5. reader.kind # "thread" => ~reader.notFound
  BY <1>1 DEF MergeShape
<1>6. ASSUME NEW answer, Answer(reader, answer)
      PROVE  /\ SameRequest /\ reader'.at = "done" /\ reader'.view = reader.view /\ reader'.original = reader.original
             /\ reader'.seen = reader.seen /\ reader'.limit = reader.limit /\ reader'.notFound = reader.notFound
             /\ MergeShape' /\ Kept' /\ LocalKept' /\ Gathering' /\ Placing'
             /\ Before' = Before /\ changed' = changed /\ \A p : Newer(p)' = Newer(p)
  BY <1>1, <1>6, AnswerIs, RequestKept
<1>7. CASE reader.kind = "timeline"
  <2>1. ToPosts(reader.view, InFeed(reader.view))
    BY <1>7 DEF Munge, GetTimelineMunge
  <2>2. \A p \in Posts : Wanted(p) /\ Due(p) => LocalRecord(Before, p) \in InFeed(reader.view)
    BY <1>1, <1>7, FeedTakesAll
  <2>3. ~ShowsAProfile
    BY <1>7 DEF ShowsAProfile
  <2> QED BY <1>1, <1>2, <1>3, <1>5, <1>7, <2>1, <2>2, <2>3, ToPostsKeeps
<1>8. CASE reader.kind = "author" /\ IsUsersFeed(reader.view)
  <2>1. ToPosts(new, InFeed(reader.view))
    BY <1>8 DEF Munge, GetAuthorMunge, new
  <2>2. \A p \in Posts : Wanted(p) /\ Due(p) => LocalRecord(Before, p) \in InFeed(reader.view)
    BY <1>1, <1>8, FeedTakesAll
  <2> QED BY <1>1, <1>2, <1>3, <1>4, <1>5, <1>8, <2>1, <2>2, ToPostsKeeps
<1>9. CASE reader.kind = "author" /\ ~IsUsersFeed(reader.view)
  <2>1. PICK answer : Answer(reader, answer)
    BY <1>9 DEF Munge, GetAuthorMunge, PassOn
  <2>2. ReadYourWrites'
    BY <1>1, <1>6, <1>9, <2>1 DEF ReadYourWrites, ShowsAProfile, Reaches, IsUsersFeed, SameRequest
  <2> QED BY <1>6, <2>1, <2>2 DEF MergeInv
<1>10. CASE reader.kind \in {"likes", "profile", "profiles"}
  <2>1. ToPosts(new, {})
    BY <1>10 DEF Munge, GetActorLikesMunge, GetProfileMunge, GetProfilesMunge, new
  <2>2. \A p \in Posts : ~Due(p)
    BY <1>10 DEF Due, Reaches
  <2> QED BY <1>1, <1>2, <1>4, <1>5, <1>10, <2>1, <2>2, ToPostsKeeps
<1>11. CASE reader.kind = "thread" /\ ~reader.notFound
  <2>1. ToPosts(reader.view, InThread(LocalPosts))
    BY <1>11 DEF Munge, GetPostThreadMunge
  <2>2. ASSUME NEW p \in Posts, Wanted(p), Due(p) PROVE LocalRecord(Before, p) \in InThread(LocalPosts)
    <3>1. LocalRecord(Before, p) \in LocalPosts /\ LocalRecord(Before, p).path = p
      BY <1>1, <2>2, LocalPostsAre DEF Gathering, Paths
    <3> QED BY <1>11, <2>2, <3>1 DEF InThread, Due
  <2>3. InThread(LocalPosts) \in SUBSET LocalPosts /\ ~ShowsAProfile
    BY <1>11 DEF InThread, ShowsAProfile
  <2> QED BY <1>1, <1>2, <1>11, <2>1, <2>2, <2>3, ToPostsKeeps
<1>12. CASE reader.kind = "thread" /\ reader.notFound
  <2> DEFINE top == {r \in LocalPosts : r.path = reader.anchor}
             posts == top \cup InThread(LocalPosts \ top)
  <2>1. ReadAfterWriteNotFound /\ reader.original = <<>> /\ reader.anchor \in Posts
    BY <1>1, <1>12 DEF Munge, MergeShape
  <2>2. ASSUME NEW p \in Posts, Wanted(p)
        PROVE  LocalRecord(Before, p) \in LocalPosts /\ LocalRecord(Before, p).path = p
    BY <1>1, <2>2, LocalPostsAre DEF Gathering, Paths
  <2>3. CASE top = {}
    <3>1. PICK answer : Answer(reader, answer)
      BY <2>1, <2>3 DEF ReadAfterWriteNotFound, PassOn
    <3>2. ASSUME NEW p \in Posts, Promised(p)', Reaches(p)' PROVE FALSE
      <4>1. Wanted(p)
        BY <1>6, <3>1, <3>2 DEF Promised, Wanted
      <4>2. p # reader.anchor
        BY <2>2, <2>3, <4>1
      <4>3. \A q : ~In(q, reader.original) /\ ~In(q, reader.view)
        BY <1>1, <2>1 DEF In
      <4> QED BY <1>6, <1>12, <3>1, <3>2, <4>2, <4>3 DEF Reaches, SameRequest
    <3>3. ~ShowsAProfile'
      BY <1>6, <1>12, <3>1 DEF ShowsAProfile, SameRequest
    <3>4. ReadYourWrites'
      BY <3>2, <3>3 DEF ReadYourWrites
    <3> QED BY <1>6, <3>1, <3>4 DEF MergeInv
  <2>4. CASE top # {}
    <3>1. ToPosts(<<>>, posts)
      BY <2>1, <2>4 DEF ReadAfterWriteNotFound
    <3>2. posts \in SUBSET LocalPosts /\ ~ShowsAProfile
      BY <1>12 DEF InThread, ShowsAProfile
    <3>3. ASSUME NEW p \in Posts, Wanted(p), Due(p) PROVE LocalRecord(Before, p) \in posts
      <4>1. LocalRecord(Before, p) \in LocalPosts /\ LocalRecord(Before, p).path = p
        BY <2>2, <3>3
      <4> QED BY <1>12, <3>3, <4>1 DEF InThread, Due
    <3>4. \A q \in Posts : In(q, reader.original) => In(q, <<>>)
      BY <2>1
    <3> HIDE DEF posts
    <3> QED BY <1>1, <3>1, <3>2, <3>3, <3>4, EmptyView, ToPostsKeeps
  <2> QED BY <2>3, <2>4
<1> QED BY <1>1, <1>7, <1>8, <1>9, <1>10, <1>11, <1>12 DEF MergeShape, MergeKinds

LEMMA NextPostIs ==
  ASSUME RepoInv, MergeShape, reader.todo # {}
  PROVE  NextPost \in reader.todo /\ \A q \in reader.todo : ~Precedes(q, NextPost)
<1> DEFINE revs == {r.rev : r \in reader.todo}
<1>1. Rev \in Nat /\ \A r \in reader.todo : r.rev \in 1..Rev
  BY HistoryIs DEF MergeShape
<1>2. revs \in SUBSET (1..Rev) /\ revs \in SUBSET Nat /\ revs # {}
  BY <1>1
<1>3. \E r \in reader.todo : \A q \in reader.todo : ~Precedes(q, r)
  <2>1. CASE reader.kind # "thread"
    <3>1. PICK n \in revs : \A m \in revs : m <= n
      BY <1>1, <1>2, Greatest
    <3>2. PICK r \in reader.todo : n = r.rev
      OBVIOUS
    <3>3. \A q \in reader.todo : ~(q.rev > r.rev)
      BY <1>1, <3>1, <3>2
    <3> QED BY <2>1, <3>3 DEF Precedes
  <2>2. CASE reader.kind = "thread" /\ \E r \in reader.todo : IsFirst(r)
    BY <2>2 DEF Precedes
  <2>3. CASE reader.kind = "thread" /\ ~\E r \in reader.todo : IsFirst(r)
    <3>1. PICK n \in revs : \A m \in revs : n <= m
      BY <1>2, Least
    <3>2. PICK r \in reader.todo : n = r.rev
      OBVIOUS
    <3>3. \A q \in reader.todo : ~(q.rev < r.rev)
      BY <1>1, <3>1, <3>2
    <3> QED BY <2>3, <3>3 DEF Precedes
  <2> QED BY <2>1, <2>2, <2>3
<1> QED BY <1>3 DEF NextPost

LEMMA ShownIs ==
  /\ \A p, view : In(p, view) <=> \E x \in ItemsIn(view) : x.post = p
  /\ \A p : ShowsPost(p) <=> \E x \in ItemsIn(reader.view) : x.post = p /\ x.text = Before[p].text
  /\ ShowsProfile <=> \A x \in ItemsIn(reader.view) : Own(x) => x.look = Before[Profile].text
BY DEF In, ShowsPost, ShowsProfile, ItemsIn

\* A post has been looked at: it is left out, or it is among the items.
LEMMA PostKeeps ==
  ASSUME RepoInv, MergeInv, reader.op = "merge", reader.at = "posts", Unread, reader.todo # {}, NEW view, IsView(view),
         reader' = [[reader EXCEPT !.todo = @ \ {NextPost}] EXCEPT !.view = view],
         \/ /\ view = reader.view
            /\ Steady => ~IsPlaced(NextPost.path)
         \/ /\ ItemsIn(view) = ItemsIn(reader.view) \cup {Item(NextPost.path, NextPost.text, NextPost.rev, Look(Rows), TRUE)}
  PROVE  MergeInv'
<1> DEFINE next == NextPost
           item == Item(next.path, next.text, next.rev, Look(Rows), TRUE)
<1>1. MergeShape /\ Kept /\ LocalKept /\ Placing
  BY DEF MergeInv
<1>2. next \in reader.todo /\ \A q \in reader.todo : ~Precedes(q, next)
  BY <1>1, NextPostIs
<1> HIDE DEF next
<1>3. /\ SameRequest /\ reader'.at = "posts" /\ reader'.view = view /\ reader'.todo = reader.todo \ {next}
      /\ reader'.limit = reader.limit /\ reader'.local = reader.local
      /\ reader'.op = "merge" /\ reader' = [f \in MergeFields |-> reader'[f]] /\ DOMAIN reader' = MergeFields
      /\ reader'.seen = reader.seen /\ reader'.notFound = reader.notFound /\ reader'.original = reader.original
  BY <1>1 DEF MergeShape, MergeFields, SameRequest, next
<1>4. /\ Before' = Before /\ Kept' /\ Rev' = Rev /\ changed' = changed /\ (Steady' <=> Steady)
      /\ \A p : Newer(p)' = Newer(p)
  BY <1>1, <1>3, RequestKept
<1>5. MergeShape'
  BY <1>1, <1>3, <1>4 DEF MergeShape, MergeStages, SameRequest
<1>6. LocalKept'
  BY <1>1, <1>3, <1>4 DEF LocalKept, LocalRecord
<1>7. Gathering' /\ ReadYourWrites'
  BY <1>3 DEF Gathering, ReadYourWrites, Reading
<1>8. item.post = next.path /\ item.text = next.text /\ item.look = Look(Rows)
  BY DEF Item
<1>9. ItemsIn(view) = ItemsIn(reader.view) \/ ItemsIn(view) = ItemsIn(reader.view) \cup {item}
  BY DEF next
<1> HIDE DEF item
<1>10. \A r \in reader.todo : r.path \in Posts /\ (r.path \notin changed => r = LocalRecord(Before, r.path))
  BY <1>1 DEF MergeShape, LocalKept
<1>11. ASSUME reader.notFound, reader.anchor \notin changed, NEW r \in reader.todo \ {next}, r.path = reader.anchor
       PROVE  FALSE
  <2>1. ~Precedes(r, next) /\ reader.kind = "thread"
    BY <1>1, <1>2, <1>11 DEF MergeShape
  <2>2. next.path = reader.anchor
    BY <1>11, <2>1 DEF Precedes, IsFirst
  <2> QED BY <1>2, <1>10, <1>11, <2>2
<1>12. \A q \in Posts : In(q, reader'.original) => In(q, reader'.view)
  <2>1. \A q \in Posts : In(q, reader.original) => In(q, reader.view)
    BY <1>1 DEF Placing
  <2>2. \A q : In(q, reader.view) => In(q, view)
    BY <1>9, ShownIs
  <2> QED BY <1>3, <2>1, <2>2
<1>13. Wanted(Profile)' /\ ShowsAProfile' => ShowsProfile'
  <2> SUFFICES ASSUME Wanted(Profile)', ShowsAProfile' PROVE ShowsProfile'
    OBVIOUS
  <2>1. Wanted(Profile) /\ ShowsAProfile
    BY <1>3, <1>4 DEF Wanted, ShowsAProfile, IsUsersFeed, SameRequest
  <2>2. ShowsProfile
    BY <1>1, <2>1 DEF Placing
  <2>3. Look(Rows) = Before[Profile].text
    BY <1>1, <2>1 DEF Kept, Wanted, Look, Paths
  <2>4. \A x \in ItemsIn(view) : Own(x) => x.look = Before[Profile].text
    BY <1>8, <1>9, <2>2, <2>3, ShownIs
  <2> QED BY <1>3, <1>4, <2>4 DEF ShowsProfile, ItemsIn
<1>14. ASSUME Steady, NEW p \in Posts, Wanted(p), Due(p)
       PROVE  (\E x \in ItemsIn(view) : x.post = p /\ x.text = Before[p].text)
              \/ LocalRecord(Before, p) \in reader.todo \ {next} \/ PassedOver(p)'
  <2>1. ShowsPost(p) \/ LocalRecord(Before, p) \in reader.todo \/ PassedOver(p)
    BY <1>1, <1>14 DEF Placing
  <2>2. CASE ShowsPost(p)
    BY <1>9, <2>2, ShownIs
  <2>3. CASE PassedOver(p)
    <3>1. PassedOver(p)'
      <4> DEFINE parent == Reply[p].parent
      <4>1. reader'.kind = "thread" /\ p # reader'.anchor /\ ~In(parent, reader'.original)
        BY <1>3, <2>3 DEF PassedOver, SameRequest
      <4>2. ASSUME parent \notin changed', Before'[parent] # None, Before'[parent].rev < Before'[p].rev
            PROVE  ~In(parent, reader'.view) /\ \A r \in reader'.todo : r.path # parent
        <5>1. ~In(parent, reader.view) /\ \A r \in reader.todo : r.path # parent
          BY <1>4, <2>3, <4>2 DEF PassedOver
        <5>2. ~In(parent, view)
          BY <1>2, <1>8, <1>9, <5>1, ShownIs
        <5> QED BY <1>3, <5>1, <5>2
      <4> QED BY <4>1, <4>2 DEF PassedOver, In
    <3> QED BY <3>1
  <2>4. CASE LocalRecord(Before, p) = next /\ ItemsIn(view) = ItemsIn(reader.view) \cup {item}
    BY <1>8, <2>4 DEF LocalRecord
  <2>5. CASE LocalRecord(Before, p) = next /\ view = reader.view /\ ~IsPlaced(next.path)
    <3>1. next.path = p /\ next.rev = Before[p].rev /\ reader.kind = "thread" /\ ~IsTop /\ p \notin changed
      BY <1>14, <2>5 DEF LocalRecord, IsPlaced, Wanted
    <3>2. p # reader.anchor
      <4>1. SUFFICES ASSUME p = reader.anchor PROVE FALSE
        OBVIOUS
      <4>2. reader.notFound
        BY <1>14, <3>1, <4>1 DEF Due
      <4>3. reader.view = <<>>
        BY <1>1, <1>2, <3>1, <4>1, <4>2 DEF Placing
      <4> QED BY <3>1, <4>2, <4>3 DEF IsTop
    <3>3. Reply[p] # None /\ Reply[p].parent \in Posts
      BY <1>14, <3>1, <3>2, ReplyAssumption DEF Due, IsOfThread, Root
    <3>4. ~In(Reply[p].parent, reader.view)
      BY <2>5, <3>1, <3>3 DEF IsPlaced
    <3>5. ~In(Reply[p].parent, reader.original)
      BY <1>1, <3>3, <3>4 DEF Placing
    <3>6. ASSUME Reply[p].parent \notin changed, Before[Reply[p].parent].rev < Before[p].rev, NEW r \in reader.todo
          PROVE  r.path # Reply[p].parent
      <4>1. SUFFICES ASSUME r.path = Reply[p].parent PROVE FALSE
        OBVIOUS
      <4>2. r.rev < next.rev
        BY <1>10, <3>1, <3>6, <4>1 DEF LocalRecord
      <4>3. Precedes(r, next)
        BY <3>1, <3>2, <4>2 DEF Precedes, IsFirst
      <4> QED BY <1>2, <4>3
    <3>7. PassedOver(p)'
      <4> DEFINE parent == Reply[p].parent
      <4>1. reader'.kind = "thread" /\ p # reader'.anchor /\ ~In(parent, reader'.original)
        BY <1>3, <3>1, <3>2, <3>5 DEF SameRequest
      <4>2. ASSUME parent \notin changed', Before'[parent] # None, Before'[parent].rev < Before'[p].rev
            PROVE  ~In(parent, reader'.view) /\ \A r \in reader'.todo : r.path # parent
        BY <1>3, <1>4, <2>5, <3>4, <3>6, <4>2
      <4> QED BY <4>1, <4>2 DEF PassedOver, In
    <3> QED BY <3>7
  <2> QED BY <1>14, <2>1, <2>2, <2>3, <2>4, <2>5 DEF item, next
<1>15. Placing'
  <2>1. \A p : (Wanted(p)' <=> Wanted(p)) /\ LocalRecord(Before, p)' = LocalRecord(Before, p)
    BY <1>3, <1>4 DEF Wanted, LocalRecord
  <2>2. \A p : Due(p)' <=> Due(p)
    <3>1. \A p : IsOfThread(p)' <=> IsOfThread(p)
      BY <1>3 DEF IsOfThread, SameRequest
    <3>2. reader.kind # "thread" => \A p : Reaches(p)' <=> Reaches(p)
      BY <1>3, <1>4 DEF Reaches, IsUsersFeed, SameRequest
    <3> QED BY <1>3, <3>1, <3>2 DEF Due, SameRequest
  <2>3. \A p : ShowsPost(p)' <=> \E x \in ItemsIn(view) : x.post = p /\ x.text = Before[p].text
    BY <1>3, <1>4 DEF ShowsPost, ItemsIn
  <2>4. Steady' => \A p \in Posts : Wanted(p)' /\ Due(p)' =>
          ShowsPost(p)' \/ LocalRecord(Before, p)' \in reader'.todo \/ PassedOver(p)'
    BY <1>3, <1>4, <1>14, <2>1, <2>2, <2>3
  <2>5. reader'.notFound /\ reader'.anchor \notin changed' /\ (\E r \in reader'.todo : r.path = reader'.anchor) => reader'.view = <<>>
    BY <1>3, <1>4, <1>11 DEF SameRequest
  <2> QED BY <1>3, <1>12, <1>13, <2>4, <2>5 DEF Placing
<1> QED BY <1>4, <1>5, <1>6, <1>7, <1>15 DEF MergeInv

LEMMA GetPostKeeps ==
  ASSUME RepoInv, MergeInv, GetPost
  PROVE  MergeInv'
<1> DEFINE next == NextPost
           skipped == [reader EXCEPT !.todo = @ \ {next}]
           item == Item(next.path, next.text, next.rev, Look(Rows), TRUE)
<1>1. /\ reader.op = "merge" /\ reader.at = "posts" /\ reader.todo # {} /\ Unread
      /\ MergeShape /\ Kept /\ IsView(reader.view)
  BY DEF MergeInv, GetPost, Reading, MergeShape
<1>2. GetProfileBasic = None => ~Steady
  <2>1. Look(Rows) \in Said
    BY HistoryIs DEF Look, Said, RecordRow, Paths
  <2>2. [look |-> Look(Rows)] # None
    BY <2>1, LookAssumption
  <2> QED BY <2>2 DEF GetProfileBasic, Steady
<1>3. ASSUME reader' = skipped, Steady => ~IsPlaced(next.path) PROVE MergeInv'
  <2>1. reader' = [skipped EXCEPT !.view = reader.view]
    BY <1>1, <1>3 DEF MergeShape, MergeFields
  <2> QED BY <1>1, <1>3, <2>1, PostKeeps
<1>4. CASE ~IsPlaced(next.path)
  BY <1>3, <1>4 DEF GetPost
<1>5. CASE IsPlaced(next.path) /\ GetProfileBasic = None
  <2>1. PassOn \/ reader' = skipped
    BY <1>5 DEF GetPost
  <2>2. ASSUME PassOn PROVE MergeInv'
    <3>1. PICK answer : Answer(reader, answer)
      BY <2>2 DEF PassOn
    <3>2. ~Steady'
      BY <1>1, <1>2, <1>5, <3>1, AnswerIs, RequestKept
    <3>3. \A p \in Paths : ~Promised(p)'
      BY <3>2 DEF Promised
    <3> QED BY <1>1, <3>1, <3>3, NothingPromised
  <2> QED BY <1>2, <1>3, <1>5, <2>1, <2>2
<1>6. CASE IsPlaced(next.path) /\ GetProfileBasic # None
  <2> DEFINE view == InsertPost(item)
  <2>1. GetProfileBasic.look = Look(Rows)
    BY <1>6 DEF GetProfileBasic
  <2>2. reader' = [skipped EXCEPT !.view = view]
    BY <1>6, <2>1 DEF GetPost
  <2>3. IsView(view) /\ ItemsIn(view) = ItemsIn(reader.view) \cup {item}
    <3>1. IsItem(item)
      BY ItemIs
    <3> HIDE DEF item
    <3> QED BY <1>1, <3>1, PostInserted
  <2> HIDE DEF view
  <2> QED BY <1>1, <2>2, <2>3, PostKeeps
<1> QED BY <1>4, <1>5, <1>6

LEMMA RespondKeeps ==
  ASSUME RepoInv, MergeInv, Respond
  PROVE  MergeInv'
<1>1. /\ reader.op = "merge" /\ reader.at = "posts" /\ reader.todo = {} /\ Unread
      /\ MergeShape /\ Kept /\ Placing /\ Answer(reader, "ok")
  BY DEF MergeInv, Respond, Reading
<1>2. /\ SameRequest /\ reader'.view = reader.view /\ reader'.original = reader.original
      /\ reader'.seen = reader.seen /\ reader'.limit = reader.limit /\ reader'.notFound = reader.notFound
      /\ MergeShape' /\ Kept' /\ LocalKept' /\ Gathering' /\ Placing'
  BY <1>1, AnswerIs
<1>3. Before' = Before /\ changed' = changed /\ (Steady' <=> Steady) /\ \A p : Newer(p)' = Newer(p)
  BY <1>1, <1>2, RequestKept
<1>4. \A p : Promised(p)' => Wanted(p) /\ Steady
  BY <1>2, <1>3 DEF Promised, Wanted
<1>5. ASSUME NEW p \in Posts, Promised(p)', Reaches(p)' PROVE ShowsPost(p)'
  <2>1. Reaches(p)
    BY <1>2, <1>3, <1>5 DEF Reaches, IsUsersFeed, IsOfThread, In, SameRequest
  <2>2. Due(p) /\ ~PassedOver(p)
    <3>1. CASE reader.kind = "thread"
      BY <2>1, <3>1 DEF Due, PassedOver, Reaches
    <3>2. CASE reader.kind # "thread"
      BY <2>1, <3>2 DEF Due, PassedOver
    <3> QED BY <3>1, <3>2
  <2>3. ShowsPost(p)
    BY <1>1, <1>4, <1>5, <2>2 DEF Placing
  <2> QED BY <1>2, <1>3, <2>3 DEF ShowsPost
<1>6. Promised(Profile)' /\ ShowsAProfile' => ShowsProfile'
  <2>1. ShowsAProfile' <=> ShowsAProfile
    BY <1>2 DEF ShowsAProfile, IsUsersFeed, SameRequest
  <2>2. ShowsProfile' <=> ShowsProfile
    BY <1>2, <1>3 DEF ShowsProfile
  <2> QED BY <1>1, <1>4, <2>1, <2>2 DEF Placing
<1>7. ReadYourWrites'
  BY <1>5, <1>6 DEF ReadYourWrites
<1> QED BY <1>2, <1>7 DEF MergeInv

LEMMA MergeStepKeeps ==
  ASSUME RepoInv, MergeInv, Merge
  PROVE  MergeInv'
<1>1. CASE \/ GetTimeline \/ GetAuthorFeed \/ GetActorLikes \/ GetProfile \/ GetProfiles
           \/ \E p \in Posts : GetPostThread(p)
  BY <1>1, AskMerges DEF GetTimeline, GetAuthorFeed, GetActorLikes, GetProfile, GetProfiles, GetPostThread, MergeKinds
<1>2. CASE FormatRecordEmbed
  <2>1. reader.op = "merge" /\ Unread /\ MergeShape /\ Kept
    BY <1>2 DEF FormatRecordEmbed, Reading, MergeInv
  <2> QED BY <1>2, <2>1, AnswerIs DEF FormatRecordEmbed, GiveUp
<1>3. CASE Pipethrough \/ GetRecordsSinceRev \/ SanityCheck \/ BufferAnswer
  BY <1>3, PipethroughKeeps, GetRecordsSinceRevKeeps, SanityCheckKeeps, BufferAnswerKeeps
<1>4. CASE Munge \/ GetPost \/ Respond
  BY <1>4, MungeKeeps, GetPostKeeps, RespondKeeps
<1> QED BY <1>1, <1>2, <1>3, <1>4 DEF Merge

\* What exports does not complete answers.
LEMMA ExportStays ==
  ASSUME RepoInv, reader.op # "merge", Export
  PROVE  reader'.op # "merge"
<1>1. ASSUME NEW q, Formed(q), NEW answer, Done(q, answer) PROVE reader'.op # "merge"
  BY <1>1, DoneFormed DEF Formed
<1>2. ASSUME Formed(reader') PROVE reader'.op # "merge"
  BY <1>2 DEF Formed
<1>3. \A op \in Operations \ {"merge"} : Formed(Request(op))
  BY RequestFormed
<1>4. ASSUME NEW q, Formed(q), NEW mine, AssertRepoAvailability(q, mine) PROVE reader'.op # "merge"
  <2>1. Done(q, "unavailable") \/ reader' = [q EXCEPT !.at = "available"]
    BY <1>4 DEF AssertRepoAvailability
  <2>2. Formed([q EXCEPT !.at = "available"])
    BY <1>4, FormedMore
  <2> QED BY <1>1, <1>2, <1>4, <2>1, <2>2
<1>5. ASSUME NEW mine, NEW p, NEW since, NEW cids,
             \/ GetRepo(since, mine) \/ GetRecordProof(p, mine) \/ GetBlocks(cids, mine) \/ GetCheckout(mine)
             \/ GetLatestCommit(mine) \/ GetHead(mine) \/ DescribeRepo
      PROVE  reader'.op # "merge"
  <2>1. /\ \A v : Formed([Request("getRepo") EXCEPT !.since = v])
        /\ Formed([Request("getRecord") EXCEPT !.path = p]) /\ Formed([Request("getBlocks") EXCEPT !.cids = cids])
        /\ Formed(Request("getLatestCommit")) /\ Formed(Request("getHead")) /\ Formed(Request("describeRepo"))
    BY <1>3, FormedMore DEF Operations
  <2> QED BY <1>4, <1>5, <2>1
      DEF GetRepo, GetCheckout, GetRecordProof, GetBlocks, GetLatestCommit, GetHead, DescribeRepo
<1>6. ASSUME NEW q \in {Request("getRepoStatus"), Request("read"), Request("listRecords")}
      PROVE  Formed(q) /\ q.op # "merge"
  BY <1>3 DEF Operations, Formed
<1>7. ASSUME NEW p, NEW dir, NEW limit, GetRepoStatus \/ GetRecord(p) \/ ListRecords(dir, limit)
      PROVE  reader'.op # "merge"
  BY <1>7 DEF GetRepoStatus, GetRecord, ListRecords, Done, Request
<1>8. ASSUME reader.op \in Operations, reader'.op = reader.op PROVE reader'.op # "merge"
  BY <1>8
<1>9. ASSUME \/ GetCarStream \/ GetBlockRange \/ GetRoot \/ GetBytes \/ ReadBlocks \/ ReadCommit \/ ReadStatusRev
             \/ GetDidForActor \/ ReadRecord \/ ListRecordsForCollection \/ ListCollections
      PROVE  reader'.op # "merge"
  <2>1. reader.op \in Operations
    BY <1>9 DEF GetCarStream, GetBlockRange, GetRoot, GetBytes, ReadBlocks, ReadCommit, ReadStatusRev,
                GetDidForActor, ReadRecord, ListRecordsForCollection, ListCollections, Operations
  <2>2. Formed(reader)
    BY <2>1, ReaderFormed
  <2>3. "op" \in DOMAIN reader
    BY <2>2 DEF Formed, Fields
  <2>4. reader'.op = reader.op
    BY <1>9, <2>3 DEF GetCarStream, GetBlockRange, GetRoot, GetBytes, ReadBlocks, ReadCommit, ReadStatusRev,
                GetDidForActor, ReadRecord, ListRecordsForCollection, ListCollections, Done
  <2> QED BY <2>4
<1> QED BY <1>5, <1>7, <1>9 DEF Export

-----------------------------------------------------------------------------
(***************************************************************************)
(* The invariant of the listings.                                          *)
(***************************************************************************)
TableRow == [at : (1..clock) \cup Names, uses : Nat, blob : Blobs \cup {None}]
TableShape ==
  /\ table \in [Names -> TableRow \cup {None}] /\ stored \subseteq Blobs
  /\ clock \in 1..MaxClock /\ touched \subseteq Names
  /\ listing.subject = "blobs" => \A n \in Present : table[n].blob \in Blobs

ByOf(subject) ==
  CASE subject = "actors" -> {"repos"}
    [] subject = "codes" -> {"recent", "usage"}
    [] OTHER -> {"blobs", "missing"}
ListingShape ==
  /\ listing \in [subject : Subjects, by : ByOf(listing.subject) \cup {None}, at : {None, "pages", "done"},
                  limit : Nat, since : Nat, cursor : Keys \cup {<<>>}, listed : Seq(SUBSET Nat), start : SUBSET Names]
  /\ listing.at = None => listing.cursor = <<>> /\ listing.listed = <<>>
  /\ listing.at # None => listing.limit > 0 /\ listing.by \in ByOf(listing.subject)

\* What was there at the start and was not touched has been listed once if the
\* cursor has passed it, and else not yet.
ListedSoFar(n) ==
  LET key == KeyOf(listing.by, n)
      item == ItemOf(listing.by, key)
  IN  /\ Open => Marked(listing.listed, item, listing.cursor, key, Direction(listing.by))
      /\ listing.at = "done" => Cardinality(Times(listing.listed, item)) = 1
ListingRows ==
  listing.at # None =>
    \A n \in listing.start \ touched : n \in Selected(listing.by, listing.since) /\ ListedSoFar(n)

ListInv == TableShape /\ ListingShape /\ ListingRows

LEMMA ListInit ==
  ASSUME NEW subjects \in SUBSET Subjects, ListingInit(subjects)
  PROVE  ListInv
<1>1. PICK s \in subjects : listing = NoListing(s)
  BY DEF ListingInit
<1>2. TableShape
  BY ListingAssumption, NoneAssumption DEF TableShape, ListingInit, Present
<1>3. <<>> \in Seq(SUBSET Nat)
  OBVIOUS
<1>4. ListingShape
  BY <1>1, <1>3 DEF ListingShape, NoListing
<1>5. ListingRows
  BY <1>1 DEF ListingRows, NoListing
<1> QED BY <1>2, <1>4, <1>5 DEF ListInv

\* A change of rows, while a listing is not done, that remembers which.
LEMMA ChangeKeeps ==
  ASSUME ListInv, TableShape', listing' = listing, Unlisted, NEW T, Touch(T),
         \A m \in Present \ T : table'[m] = table[m] /\ (table[m].blob \notin stored => table[m].blob \notin stored'),
         \A m \in Present \ T : m \in Present'
  PROVE  ListInv'
<1>1. ListingShape'
  BY DEF ListInv, ListingShape
<1>2. ListingRows'
  <2>1. SUFFICES ASSUME listing.at # None, NEW n \in listing.start \ touched'
                 PROVE  n \in Selected(listing.by, listing.since)' /\ ListedSoFar(n)'
    BY DEF ListingRows
  <2>2. Open /\ touched' = touched \cup T
    BY <2>1 DEF ListInv, ListingShape, Unlisted, Open, Touch
  <2>3. n \in listing.start \ touched /\ n \notin T
    BY <2>1, <2>2
  <2>4. n \in Selected(listing.by, listing.since) /\ ListedSoFar(n) /\ n \in Present
    BY <2>1, <2>3 DEF ListInv, ListingRows, Selected
  <2>5. table'[n] = table[n] /\ (table[n].blob \notin stored => table[n].blob \notin stored') /\ n \in Present'
    BY <2>3, <2>4
  <2>6. n \in Selected(listing.by, listing.since)'
    BY <2>4, <2>5 DEF Selected
  <2>7. KeyOf(listing.by, n)' = KeyOf(listing.by, n)
    BY <2>5 DEF KeyOf, TimeDidKeyset, TimeCodeKeyset, UseCodeKeyset, BlobKey
  <2>8. ListedSoFar(n)'
    BY <2>4, <2>7 DEF ListedSoFar, Open
  <2> QED BY <2>6, <2>8
<1> QED BY <1>1, <1>2 DEF ListInv

LEMMA TickKeeps == ListInv /\ Tick => ListInv'
<1> SUFFICES ASSUME ListInv, Tick PROVE ListInv'
  OBVIOUS
<1>1. /\ clock' = clock + 1 /\ clock < MaxClock /\ Unlisted
      /\ table' = table /\ stored' = stored /\ listing' = listing /\ touched' = touched
  BY DEF Tick
<1>2. TableShape'
  <2>1. clock \in Nat /\ clock' \in 1..MaxClock /\ 1..clock \subseteq 1..clock'
    BY <1>1, ListingAssumption DEF ListInv, TableShape
  <2>2. TableRow \subseteq TableRow'
    BY <2>1 DEF TableRow
  <2>3. \A n \in Names : table[n] \in TableRow' \cup {None}
    BY <2>2 DEF ListInv, TableShape
  <2> QED BY <1>1, <2>1, <2>3 DEF ListInv, TableShape, Present
<1>3. Touch({}) /\ Present' = Present
  BY <1>1 DEF Touch, Present
<1> QED BY <1>1, <1>2, <1>3, ChangeKeeps

LEMMA PutKeeps ==
  ASSUME ListInv, NEW S \in SUBSET Names, NEW blob \in Blobs, Put(S, blob)
  PROVE  ListInv'
<1>1. /\ Unlisted /\ table' = [n \in Names |-> IF n \in S THEN Row(n, blob) ELSE table[n]] /\ Touch(S)
      /\ stored' = stored /\ clock' = clock /\ listing' = listing
  BY DEF Put
<1>2. \A n \in S : Row(n, blob) \in TableRow /\ (listing.subject = "blobs" => Row(n, blob).blob \in Blobs)
  <2>1. clock \in 1..clock
    BY DEF ListInv, TableShape
  <2> QED BY <2>1 DEF Row, TableRow
<1>3. TableShape'
  <2>1. touched' \subseteq Names
    BY <1>1 DEF Touch, ListInv, TableShape
  <2>2. \A n \in Names : /\ table'[n] \in TableRow \cup {None}
                         /\ listing.subject = "blobs" /\ table'[n] # None => table'[n].blob \in Blobs
    BY <1>1, <1>2 DEF ListInv, TableShape, Present
  <2> QED BY <1>1, <2>1, <2>2 DEF ListInv, TableShape, TableRow, Present
<1>4. \A m \in Present \ S : table'[m] = table[m] /\ m \in Present'
  BY <1>1 DEF Present
<1> QED BY <1>1, <1>3, <1>4, ChangeKeeps

LEMMA DeleteKeeps ==
  ASSUME ListInv, NEW n \in Names, Delete(n) \/ UseCode(n)
  PROVE  ListInv'
<1>1. \E row : /\ table' = [table EXCEPT ![n] = row]
               /\ row \in TableRow \cup {None}
               /\ listing.subject = "blobs" => row = None
  <2>1. CASE Delete(n)
    BY <2>1 DEF Delete
  <2>2. CASE UseCode(n)
    <3> DEFINE row == [table[n] EXCEPT !.uses = @ + 1]
    <3>1. table' = [table EXCEPT ![n] = row] /\ n \in Present /\ listing.subject = "codes"
      BY <2>2 DEF UseCode
    <3>2. table[n] \in TableRow
      BY <3>1 DEF ListInv, TableShape, Present
    <3>3. row \in TableRow
      BY <3>2 DEF TableRow
    <3> QED BY <3>1, <3>3
  <2> QED BY <2>1, <2>2
<1>2. Unlisted /\ Touch({n}) /\ stored' = stored /\ clock' = clock /\ listing' = listing
  BY DEF Delete, UseCode
<1>3. PICK row : /\ table' = [table EXCEPT ![n] = row]
                 /\ row \in TableRow \cup {None}
                 /\ listing.subject = "blobs" => row = None
  BY <1>1
<1>4. DOMAIN table = Names /\ table'[n] = row /\ \A m \in Names \ {n} : table'[m] = table[m]
  BY <1>3 DEF ListInv, TableShape
<1>5. TableShape'
  <2>1. touched' \subseteq Names
    BY <1>2 DEF Touch, ListInv, TableShape
  <2>2. table' \in [Names -> TableRow \cup {None}]
    BY <1>3 DEF ListInv, TableShape
  <2>3. \A m \in Names : listing.subject = "blobs" /\ table'[m] # None => table'[m].blob \in Blobs
    BY <1>3, <1>4 DEF ListInv, TableShape, Present
  <2> QED BY <1>2, <2>1, <2>2, <2>3 DEF ListInv, TableShape, TableRow, Present
<1>6. \A m \in Present \ {n} : table'[m] = table[m] /\ m \in Present'
  BY <1>4 DEF Present
<1> QED BY <1>2, <1>5, <1>6, ChangeKeeps

LEMMA UploadKeeps ==
  ASSUME ListInv, NEW b \in Blobs, Upload(b)
  PROVE  ListInv'
<1> DEFINE T == {n \in Present : table[n].blob = b}
<1>1. /\ Unlisted /\ stored' = stored \cup {b} /\ Touch(T) /\ table' = table /\ clock' = clock /\ listing' = listing
  BY DEF Upload
<1>2. T \subseteq Names /\ Present' = Present
  BY <1>1 DEF Present
<1>3. TableShape'
  BY <1>1, <1>2 DEF Touch, ListInv, TableShape, TableRow
<1>4. \A m \in Present \ T : table[m].blob \notin stored => table[m].blob \notin stored'
  BY <1>1
<1> QED BY <1>1, <1>2, <1>3, <1>4, ChangeKeeps

LEMMA ListKeeps ==
  ASSUME ListInv, NEW subject \in Subjects, NEW by \in ByOf(subject), NEW limit \in 1..PageSize, NEW since \in Nat,
         List(subject, by, limit, since)
  PROVE  ListInv'
<1> DEFINE start == Selected(by, since)
<1>1. /\ listing.subject = subject /\ listing.at = None
      /\ listing' = [listing EXCEPT !.by = by, !.at = "pages", !.limit = limit, !.since = since, !.start = start]
      /\ table' = table /\ stored' = stored /\ clock' = clock /\ touched' = touched
  BY DEF List
<1>2. start \in SUBSET Names /\ Selected(by, since)' = start
  BY <1>1 DEF Selected, Present
<1>3. limit \in Nat /\ limit > 0
  BY PageAssumption
<1> HIDE DEF start
<1>4. listing.cursor = <<>> /\ listing.listed = <<>>
  BY <1>1 DEF ListInv, ListingShape
<1>5. /\ listing'.subject = subject /\ listing'.by = by /\ listing'.at = "pages" /\ listing'.limit = limit
      /\ listing'.since = since /\ listing'.start = start /\ listing'.cursor = <<>> /\ listing'.listed = <<>>
  BY <1>1, <1>4 DEF ListInv, ListingShape
<1>6. "pages" # None /\ "done" # None
  BY NoneAssumption
<1>7. ListingShape'
  BY <1>1, <1>2, <1>3, <1>5, <1>6 DEF ListInv, ListingShape
<1>8. TableShape'
  BY <1>1, <1>5 DEF ListInv, TableShape, TableRow, Present
<1>9. ListingRows'
  <2>1. SUFFICES ASSUME NEW n \in listing'.start \ touched'
                 PROVE  n \in Selected(listing.by, listing.since)' /\ ListedSoFar(n)'
    BY DEF ListingRows
  <2>2. n \in Selected(listing.by, listing.since)'
    BY <1>1, <1>2, <1>5, <2>1 DEF Selected, Present
  <2>3. ListedSoFar(n)'
    BY <1>5, StartsUnlisted DEF ListedSoFar
  <2> QED BY <2>2, <2>3
<1> QED BY <1>7, <1>8, <1>9 DEF ListInv

LEMMA CloseKeeps == ListInv /\ Close => ListInv'
<1> SUFFICES ASSUME ListInv, Close PROVE ListInv'
  OBVIOUS
<1>1. /\ listing' = NoListing(listing.subject) /\ touched' = {}
      /\ table' = table /\ stored' = stored /\ clock' = clock
  BY DEF Close
<1>2. listing'.subject = listing.subject /\ listing'.at = None
  BY <1>1 DEF NoListing
<1>3. TableShape'
  BY <1>1, <1>2 DEF ListInv, TableShape, TableRow, Present
<1>4. <<>> \in Seq(SUBSET Nat)
  OBVIOUS
<1>5. ListingShape'
  BY <1>1, <1>4 DEF ListInv, ListingShape, NoListing
<1>6. ListingRows'
  BY <1>2 DEF ListingRows
<1> QED BY <1>3, <1>5, <1>6 DEF ListInv

\* The keys of rows, and what is listed for them.
LEMMA KeysAre ==
  ASSUME ListInv, listing.at # None, NEW n \in Present
  PROVE  /\ KeyOf(listing.by, n) \in Keys
         /\ ItemOf(listing.by, KeyOf(listing.by, n)) \in Nat
         /\ \A m \in Present : ItemOf(listing.by, KeyOf(listing.by, m)) = ItemOf(listing.by, KeyOf(listing.by, n))
                                 => KeyOf(listing.by, m) = KeyOf(listing.by, n)
<1>1. \A m \in Present :
        /\ m \in Nat /\ table[m].at \in Nat /\ table[m].uses \in Nat
        /\ listing.subject = "blobs" => table[m].blob \in Nat
  <2> TAKE m \in Present
  <2>1. m \in Names /\ table[m] \in TableRow
    BY DEF Present, ListInv, TableShape
  <2>2. listing.subject = "blobs" => table[m].blob \in Blobs
    BY DEF ListInv, TableShape
  <2>3. clock \in Nat /\ Names \subseteq Nat /\ Blobs \subseteq Nat
    BY ListingAssumption DEF ListInv, TableShape
  <2>4. \A x \in (1..clock) \cup Names : x \in Nat
    BY <2>3
  <2>5. table[m].at \in (1..clock) \cup Names /\ table[m].uses \in Nat
    BY <2>1 DEF TableRow
  <2> QED BY <2>1, <2>2, <2>3, <2>4, <2>5
<1>2. \/ listing.by = "repos" \/ listing.by \in {"recent", "usage"}
      \/ listing.by \in {"blobs", "missing"} /\ listing.subject = "blobs"
  BY DEF ListInv, ListingShape, ByOf, Subjects
<1>3. CASE listing.by = "repos"
  BY <1>1, <1>3 DEF KeyOf, ItemOf, TimeDidKeyset, Keys
<1>4. CASE listing.by = "recent"
  BY <1>1, <1>4 DEF KeyOf, ItemOf, TimeCodeKeyset, Keys
<1>5. CASE listing.by = "usage"
  BY <1>1, <1>5 DEF KeyOf, ItemOf, UseCodeKeyset, Keys
<1>6. CASE listing.by \in {"blobs", "missing"} /\ listing.subject = "blobs"
  BY <1>1, <1>6 DEF KeyOf, ItemOf, BlobKey, Keys
<1> QED BY <1>2, <1>3, <1>4, <1>5, <1>6

LEMMA ListPageOfRowsKeeps == ListInv /\ ListPage => ListInv'
<1> SUFFICES ASSUME ListInv, ListPage PROVE ListInv'
  OBVIOUS
<1> DEFINE by == listing.by
           selected == Selected(by, listing.since)
           keys == {KeyOf(by, n) : n \in selected}
           page == Page(keys, listing.cursor, Direction(by), listing.limit)
           items == {ItemOf(by, k) : k \in page}
           cursor == Cursor(page, Direction(by))
<1>1. /\ Open
      /\ listing' = IF page = {} THEN [listing EXCEPT !.at = "done"]
                    ELSE [listing EXCEPT !.cursor = cursor, !.listed = Append(@, items)]
      /\ table' = table /\ stored' = stored /\ clock' = clock /\ touched' = touched
  BY DEF ListPage
<1>2. "pages" # None /\ "done" # None /\ listing.at = "pages" /\ listing.at # None
  BY <1>1, NoneAssumption DEF Open
<1>3. /\ listing.limit \in Nat \ {0} /\ listing.cursor \in Keys \cup {<<>>}
      /\ listing.listed \in Seq(SUBSET Nat) /\ listing.start \subseteq Names
  BY <1>2 DEF ListInv, ListingShape
<1>4. \A n \in listing.start \ touched :
        n \in selected /\ Marked(listing.listed, ItemOf(by, KeyOf(by, n)), listing.cursor, KeyOf(by, n), Direction(by))
  BY <1>1, <1>2 DEF ListInv, ListingRows, ListedSoFar
<1>5. \A n, by2, since2 : /\ KeyOf(by2, n)' = KeyOf(by2, n)
                          /\ Selected(by2, since2)' = Selected(by2, since2)
  BY <1>1 DEF KeyOf, TimeDidKeyset, TimeCodeKeyset, UseCodeKeyset, BlobKey, Selected, Present
<1>6. selected \subseteq Present /\ IsFiniteSet(selected)
  <2>1. selected \in SUBSET Names /\ selected \subseteq Present
    BY DEF Selected, Present
  <2> QED BY <2>1, ListingAssumption, FS_Subset
<1> HIDE DEF selected
<1>7. keys \in SUBSET Keys /\ IsFiniteSet(keys)
  <2>1. \A n \in selected : KeyOf(by, n) \in Keys
    BY <1>2, <1>6, KeysAre
  <2>2. [n \in selected |-> KeyOf(by, n)] \in Surjection(selected, keys)
    BY DEF Surjection
  <2> QED BY <1>6, <2>1, <2>2, FS_Surjection
<1>8. /\ \A n \in selected : KeyOf(by, n) \in keys
      /\ \A k \in keys : \E n \in selected : k = KeyOf(by, n)
  OBVIOUS
<1> HIDE DEF keys
<1>9. page \subseteq keys /\ (page # {} => cursor \in page)
  BY <1>3, <1>7, PageIs
<1> HIDE DEF page, cursor
<1>10. items \in SUBSET Nat /\ \A n \in selected : ItemOf(by, KeyOf(by, n)) \in items <=> KeyOf(by, n) \in page
  <2>1. ASSUME NEW k \in page
        PROVE  /\ ItemOf(by, k) \in Nat
               /\ \A n \in selected : ItemOf(by, KeyOf(by, n)) = ItemOf(by, k) => KeyOf(by, n) = k
    <3>1. PICK m \in selected : k = KeyOf(by, m)
      BY <1>8, <1>9
    <3> QED BY <1>2, <1>6, <3>1, KeysAre
  <2>2. items \in SUBSET Nat
    BY <2>1
  <2>3. ASSUME NEW n \in selected, ItemOf(by, KeyOf(by, n)) \in items PROVE KeyOf(by, n) \in page
    <3>1. PICK k \in page : ItemOf(by, KeyOf(by, n)) = ItemOf(by, k)
      BY <2>3
    <3> QED BY <2>1, <3>1
  <2>4. \A n \in selected : KeyOf(by, n) \in page => ItemOf(by, KeyOf(by, n)) \in items
    OBVIOUS
  <2> QED BY <2>2, <2>3, <2>4
<1> HIDE DEF items
<1>11. ASSUME NEW n \in listing.start \ touched
       PROVE  /\ n \in selected
              /\ page = {} => Cardinality(Times(listing.listed, ItemOf(by, KeyOf(by, n)))) = 1
              /\ page # {} => Marked(Append(listing.listed, items), ItemOf(by, KeyOf(by, n)), cursor, KeyOf(by, n), Direction(by))
  <2> DEFINE key == KeyOf(by, n)
             item == ItemOf(by, key)
  <2>1. n \in selected /\ Marked(listing.listed, item, listing.cursor, key, Direction(by))
    BY <1>4
  <2>2. key \in keys /\ (item \in items <=> key \in page)
    BY <1>8, <1>10, <2>1
  <2> HIDE DEF key, item
  <2>3. /\ page = {} => Cardinality(Times(listing.listed, item)) = 1
        /\ page # {} => Marked(Append(listing.listed, items), item, cursor, key, Direction(by))
    BY <1>3, <1>7, <1>10, <2>1, <2>2, PageMarks DEF page, cursor
  <2> QED BY <2>1, <2>3 DEF key, item
<1>12. CASE page = {}
  <2>1. /\ listing' = [listing EXCEPT !.at = "done"] /\ listing'.subject = listing.subject /\ listing'.at = "done"
        /\ listing'.by = by /\ listing'.since = listing.since /\ listing'.start = listing.start
        /\ listing'.listed = listing.listed
    BY <1>1, <1>12 DEF ListInv, ListingShape
  <2>2. ListingShape'
    BY <1>2, <2>1 DEF ListInv, ListingShape
  <2>3. TableShape'
    BY <1>1, <2>1 DEF ListInv, TableShape, TableRow, Present
  <2>4. ListingRows'
    <3>1. SUFFICES ASSUME NEW n \in listing.start \ touched PROVE n \in Selected(listing.by, listing.since)' /\ ListedSoFar(n)'
      BY <1>1, <2>1 DEF ListingRows
    <3>2. n \in selected /\ Cardinality(Times(listing.listed, ItemOf(by, KeyOf(by, n)))) = 1
      BY <1>11, <1>12
    <3>3. KeyOf(listing.by, n)' = KeyOf(by, n)
      BY <1>1, <2>1 DEF KeyOf, TimeDidKeyset, TimeCodeKeyset, UseCodeKeyset, BlobKey
    <3>4. ListedSoFar(n)'
      BY <2>1, <3>2, <3>3 DEF ListedSoFar, Open
    <3>5. Selected(listing.by, listing.since)' = Selected(listing.by, listing.since)
      BY <1>1, <2>1 DEF Selected, Present
    <3> QED BY <3>2, <3>4, <3>5 DEF selected
  <2> QED BY <2>2, <2>3, <2>4 DEF ListInv
<1>13. CASE page # {}
  <2>1. /\ listing' = [listing EXCEPT !.cursor = cursor, !.listed = Append(@, items)]
        /\ listing'.subject = listing.subject /\ listing'.at = "pages"
        /\ listing'.by = by /\ listing'.since = listing.since /\ listing'.start = listing.start
        /\ listing'.listed = Append(listing.listed, items) /\ listing'.cursor = cursor
    BY <1>1, <1>2, <1>13 DEF ListInv, ListingShape
  <2>2. ListingShape'
    <3>1. cursor \in Keys /\ Append(listing.listed, items) \in Seq(SUBSET Nat)
      BY <1>3, <1>7, <1>9, <1>10, <1>13, OnePageMore
    <3> QED BY <1>2, <2>1, <3>1 DEF ListInv, ListingShape
  <2>3. TableShape'
    BY <1>1, <2>1 DEF ListInv, TableShape, TableRow, Present
  <2>4. ListingRows'
    <3>1. SUFFICES ASSUME NEW n \in listing.start \ touched PROVE n \in Selected(listing.by, listing.since)' /\ ListedSoFar(n)'
      BY <1>1, <2>1 DEF ListingRows
    <3>2. n \in selected /\ Marked(Append(listing.listed, items), ItemOf(by, KeyOf(by, n)), cursor, KeyOf(by, n), Direction(by))
      BY <1>11, <1>13
    <3>3. KeyOf(listing.by, n)' = KeyOf(by, n)
      BY <1>1, <2>1 DEF KeyOf, TimeDidKeyset, TimeCodeKeyset, UseCodeKeyset, BlobKey
    <3>4. ListedSoFar(n)'
      BY <2>1, <3>2, <3>3 DEF ListedSoFar, Open
    <3>5. Selected(listing.by, listing.since)' = Selected(listing.by, listing.since)
      BY <1>1, <2>1 DEF Selected, Present
    <3> QED BY <3>2, <3>4, <3>5 DEF selected
  <2> QED BY <2>2, <2>3, <2>4 DEF ListInv
<1> QED BY <1>12, <1>13

LEMMA OfTableKeeps ==
  ASSUME ListInv, Change \/ ListRows
  PROVE  ListInv'
<1>1. ASSUME Change PROVE ListInv'
  BY <1>1, TickKeeps, PutKeeps, DeleteKeeps, UploadKeeps DEF Change
<1>2. ASSUME NEW limit \in 1..PageSize,
             \/ ListRepos(limit) \/ ListMissingBlobs(limit)
             \/ \E sort \in {"recent", "usage"} : GetInviteCodes(sort, limit)
             \/ \E since \in {0, 1} : ListBlobs(since, limit)
      PROVE  ListInv'
  <2>1. /\ "repos" \in ByOf("actors") /\ {"recent", "usage"} \subseteq ByOf("codes")
        /\ "blobs" \in ByOf("blobs") /\ "missing" \in ByOf("blobs")
        /\ {"actors", "codes", "blobs"} \subseteq Subjects
    BY DEF ByOf, Subjects
  <2> QED BY <1>2, <2>1, ListKeeps DEF ListRepos, ListMissingBlobs, GetInviteCodes, ListBlobs
<1> QED BY <1>1, <1>2, ListPageOfRowsKeeps, CloseKeeps DEF ListRows

-----------------------------------------------------------------------------
(***************************************************************************)
(* The whole.                                                              *)
(***************************************************************************)
TopicOk ==
  /\ topic \in Topics /\ listing.subject = IF OfRepository THEN "actors" ELSE topic
  /\ reader.op = "merge" => topic = "merge"
IInv == RepoInv /\ MergeInv /\ ListInv /\ TopicOk

LEMMA InitIInv == Init => IInv
<1> SUFFICES ASSUME Init PROVE IInv
  OBVIOUS
<1>1. topic \in Topics /\ ListingInit({IF OfRepository THEN "actors" ELSE topic}) /\ HistoryInit
  BY DEF Init
<1>2. (IF OfRepository THEN "actors" ELSE topic) \in Subjects
  BY <1>1, TopicAssumption DEF OfRepository, Subjects
<1>3. ListInv
  BY <1>1, <1>2, ListInit
<1>4. reader.op # "merge"
  BY <1>1, NoneAssumption DEF HistoryInit, Idle, Operations
<1>5. MergeInv /\ TopicOk
  BY <1>1, <1>4 DEF MergeInv, TopicOk, ListingInit, NoListing
<1> QED BY <1>1, <1>3, <1>5, RepoInit DEF IInv

LEMMA SubjectStays == ListInv /\ (Change \/ ListRows) => listing'.subject = listing.subject
<1>1. ListInv => \A subject, by, limit, since : List(subject, by, limit, since) => listing'.subject = listing.subject
  BY DEF List, ListInv, ListingShape
<1>2. ListInv /\ ListPage => listing'.subject = listing.subject
  BY DEF ListPage, ListInv, ListingShape
<1>3. Close => listing'.subject = listing.subject
  BY DEF Close, NoListing
<1>4. Change => listing' = listing
  BY DEF Change, Tick, Put, Delete, UseCode, Upload
<1>5. ListInv /\ ListRows => listing'.subject = listing.subject
  BY <1>1, <1>2, <1>3 DEF ListRows, ListRepos, ListMissingBlobs, GetInviteCodes, ListBlobs
<1> QED BY <1>4, <1>5

\* A step of another topic or of a writer: what is promised stays so.
LEMMA OfRepoMerges ==
  ASSUME RepoInv, RepoInv', MergeInv, reader.op = "merge" => topic = "merge", OfRepo
  PROVE  MergeInv' /\ (reader'.op = "merge" => topic = "merge")
<1>1. ASSUME NEW p \in Paths, NEW t \in Says[p] \cup {None}, Commit(p, t)
      PROVE  MergeInv' /\ (reader'.op = "merge" => topic = "merge")
  <2>1. reader' = reader
    BY <1>1 DEF Commit
  <2>2. MergeInv'
    <3>1. CASE reader.op = "merge"
      BY <1>1, <3>1, CommitMerges
    <3>2. CASE reader.op # "merge"
      BY <2>1, <3>2 DEF MergeInv
    <3> QED BY <3>1, <3>2
  <2> QED BY <2>1, <2>2
<1>2. CASE ChangeStatus
  <2>1. reader' = reader
    BY <1>2 DEF ChangeStatus
  <2>2. MergeInv'
    <3>1. CASE reader.op = "merge"
      BY <1>2, <3>1, StatusMerges
    <3>2. CASE reader.op # "merge"
      BY <2>1, <3>2 DEF MergeInv
    <3> QED BY <3>1, <3>2
  <2> QED BY <2>1, <2>2
<1>3. CASE Leave
  <2>1. reader'.op # "merge"
    BY <1>3, NoneAssumption DEF Leave, Idle, Operations
  <2> QED BY <2>1 DEF MergeInv
<1>4. CASE topic = "export" /\ (Export \/ \E p \in Paths : TakedownRecord(p))
  <2>1. reader.op # "merge"
    BY <1>4
  <2>2. ASSUME NEW p, TakedownRecord(p) PROVE reader' = reader
    BY <2>2 DEF TakedownRecord
  <2>3. reader'.op # "merge"
    BY <1>4, <2>1, <2>2, ExportStays
  <2> QED BY <2>3 DEF MergeInv
<1>5. CASE topic = "merge" /\ Merge
  BY <1>5, MergeStepKeeps
<1> QED BY <1>1, <1>2, <1>3, <1>4, <1>5 DEF OfRepo, Write

LEMMA NextIInv == IInv /\ [Next]_vars => IInv'
<1> SUFFICES ASSUME IInv, [Next]_vars PROVE IInv'
  OBVIOUS
<1>1. ASSUME UNCHANGED listVars, topic' = topic, reader'.op = "merge" => topic = "merge" PROVE ListInv' /\ TopicOk'
  <2>1. table' = table /\ stored' = stored /\ clock' = clock /\ listing' = listing /\ touched' = touched
    BY <1>1 DEF listVars
  <2>2. TableShape' /\ ListingShape'
    BY <2>1 DEF IInv, ListInv, TableShape, TableRow, Present, ListingShape
  <2>3. \A n, by, since : KeyOf(by, n)' = KeyOf(by, n) /\ Selected(by, since)' = Selected(by, since)
    BY <2>1 DEF KeyOf, TimeDidKeyset, TimeCodeKeyset, UseCodeKeyset, BlobKey, Selected, Present
  <2>4. \A n : ListedSoFar(n)' <=> ListedSoFar(n)
    BY <2>1, <2>3 DEF ListedSoFar, Open
  <2>5. ListingRows'
    BY <2>1, <2>3, <2>4 DEF IInv, ListInv, ListingRows
  <2> QED BY <1>1, <2>1, <2>2, <2>5 DEF IInv, ListInv, TopicOk, OfRepository
<1>2. ASSUME UNCHANGED repoVars, reader' = reader PROVE RepoInv' /\ MergeInv'
  <2>1. Existing(Rows)' = Existing(Rows) /\ Rev' = Rev /\ (\A r : Blocks(r)' = Blocks(r)) /\ down' = down
        /\ changed' = changed /\ deleted' = deleted /\ blocks' = blocks /\ ReadOnly
    BY <1>2 DEF repoVars, Existing, Rows, Rev, Blocks, Tree, ReadOnly
  <2>2. ReaderShape' /\ Exporting' /\ ListingRecords'
    BY <1>2, <2>1 DEF IInv, RepoInv, ReaderShape, Idle, Exporting, ListingRecords
  <2>3. MergeInv'
    <3>1. Before' = Before /\ changed' = changed /\ down' = down /\ Rev' = Rev /\ Rows' = Rows /\ (Steady' <=> Steady)
      BY <1>2 DEF repoVars, Before, Rev, Rows, Steady
    <3>2. \A p : (Wanted(p)' <=> Wanted(p)) /\ (Due(p)' <=> Due(p)) /\ (Reaches(p)' <=> Reaches(p))
                 /\ (Promised(p)' <=> Promised(p)) /\ (ShowsPost(p)' <=> ShowsPost(p)) /\ (PassedOver(p)' <=> PassedOver(p))
                 /\ LocalRecord(Before, p)' = LocalRecord(Before, p)
      BY <1>2, <3>1 DEF Wanted, Newer, Existing, Due, Reaches, IsOfThread, IsUsersFeed, In, Promised, Old, ShowsPost,
                       PassedOver, LocalRecord
    <3>3. (ShowsProfile' <=> ShowsProfile) /\ (ShowsAProfile' <=> ShowsAProfile)
      BY <1>2, <3>1 DEF ShowsProfile, ShowsAProfile, IsUsersFeed
    <3>4. MergeShape' <=> MergeShape
      BY <1>2, <3>1 DEF MergeShape
    <3>5. (Kept' <=> Kept) /\ (LocalKept' <=> LocalKept)
      BY <1>2, <3>1 DEF Kept, LocalKept, LocalRecord
    <3>6. (Gathering' <=> Gathering) /\ (Placing' <=> Placing)
      BY <1>2, <3>1, <3>2, <3>3 DEF Gathering, Placing, In
    <3>7. ReadYourWrites' <=> ReadYourWrites
      BY <1>2, <3>1, <3>2, <3>3 DEF ReadYourWrites, Reading
    <3> QED BY <1>2, <3>4, <3>5, <3>6, <3>7 DEF IInv, MergeInv
  <2> QED BY <2>1, <2>2, <2>3, ReadKeeps DEF IInv
<1>3. CASE OfRepo
  <2>1. RepoInv'
    BY <1>3, OfRepoKeeps DEF IInv
  <2>2. MergeInv' /\ (reader'.op = "merge" => topic = "merge")
    BY <1>3, <2>1, OfRepoMerges DEF IInv, TopicOk
  <2> QED BY <1>1, <1>3, <2>1, <2>2 DEF IInv, OfRepo
<1>4. CASE OfTable
  <2>1. ListInv' /\ listing'.subject = listing.subject
    BY <1>4, OfTableKeeps, SubjectStays DEF IInv, OfTable
  <2>2. TopicOk'
    BY <1>4, <2>1 DEF IInv, TopicOk, OfTable, OfRepository
  <2> QED BY <1>2, <1>4, <2>1, <2>2 DEF IInv, OfTable
<1>5. CASE UNCHANGED vars
  <2>1. UNCHANGED listVars /\ topic' = topic /\ UNCHANGED repoVars /\ reader' = reader
    BY <1>5 DEF vars
  <2>2. reader'.op = "merge" => topic = "merge"
    BY <2>1 DEF IInv, TopicOk
  <2> QED BY <1>1, <1>2, <2>1, <2>2 DEF IInv
<1> QED BY <1>3, <1>4, <1>5 DEF Next

THEOREM Invariant == Spec => []IInv
BY InitIInv, NextIInv, PTL DEF Spec

\* The tables of the repository and of the listings are those that their writers make.
THEOREM TypeCorrect == Spec => []TypeOK
<1>1. IInv => TypeOK
  <2> SUFFICES ASSUME IInv PROVE TypeOK
    OBVIOUS
  <2>1. HistoryTypeOK
    BY DEF IInv, RepoInv, LogShape, RecordTable, RecordRow, BlocksKeepRev, StateShape, HistoryTypeOK, Rev
  <2>2. \A n \in Present : table[n].at \in (1..clock) \cup Names
    BY DEF IInv, ListInv, TableShape, TableRow, Present
  <2> QED BY <2>1, <2>2 DEF IInv, ListInv, TableShape, TypeOK
<1> QED BY <1>1, Invariant, PTL

\* An export of a repository, whole or since a revision, leaves out no block of its
\* root that the client did not have and no commit deleted meanwhile: whatever the
\* commits between its pages.
THEOREM ExportsWhole == Spec => []ExportLosesNothing
<1>1. IInv => ExportLosesNothing
  <2> SUFFICES ASSUME IInv, reader.op = "getRepo", reader.at = "done", reader.answer = "ok",
                      NEW c \in Blocks(reader.root) \ deleted
               PROVE  c \in Held(reader.since) \cup reader.sent
    BY DEF ExportLosesNothing
  <2>1. /\ reader.since \in Nat /\ reader.since <= Rev /\ c \in DOMAIN blocks
        /\ blocks[c] <= reader.since \/ c \in reader.sent
    BY DEF IInv, RepoInv, Exporting
  <2>2. CASE blocks[c] <= reader.since
    <3>1. blocks[c] \in 1..Rev /\ Rev \in Nat
      BY <2>1 DEF IInv, RepoInv, BlocksKeepRev, LogShape, Rev
    <3>2. reader.since \in 1..Rev /\ reader.since # 0
      BY <2>1, <2>2, <3>1
    <3>3. c \in Blocks(reader.since)
      BY <2>1, <2>2, <3>2 DEF IInv, RepoInv, BlocksKeepRev
    <3> QED BY <3>2, <3>3 DEF Held
  <2> QED BY <2>1, <2>2
<1> QED BY <1>1, Invariant, PTL

\* Read in pages of any sizes, each listing has what was there from its start to its
\* end and was not changed, once: whatever comes, goes or moves between the pages.
THEOREM PagesWhole == Spec => []PagesMissNothing
<1>1. IInv => PagesMissNothing
  <2> SUFFICES ASSUME IInv PROVE PagesMissNothing
    OBVIOUS
  <2>1. ASSUME reader.op = "listRecords", reader.at = "done", reader.answer = "ok", NEW p \in reader.start \ changed
        PROVE  ListedOnce(reader.listed, p)
    BY <2>1 DEF IInv, RepoInv, ListingRecords, ListedOnce, Times
  <2>2. ASSUME listing.at = "done", NEW n \in listing.start \ touched
        PROVE  ListedOnce(listing.listed, IF topic = "blobs" THEN table[n].blob ELSE n)
    <3>1. /\ n \in Present
          /\ Cardinality(Times(listing.listed, ItemOf(listing.by, KeyOf(listing.by, n)))) = 1
      BY <2>2, NoneAssumption DEF IInv, ListInv, ListingRows, ListedSoFar, Selected
    <3>2. listing.by \in ByOf(listing.subject) /\ (topic = "blobs" <=> listing.subject = "blobs")
      BY <2>2, NoneAssumption DEF IInv, ListInv, ListingShape, TopicOk, OfRepository
    <3>3. ItemOf(listing.by, KeyOf(listing.by, n)) = IF topic = "blobs" THEN table[n].blob ELSE n
      <4>1. CASE topic = "blobs"
        BY <3>2, <4>1 DEF ByOf, ItemOf, KeyOf, BlobKey
      <4>2. CASE topic # "blobs"
        BY <3>2, <4>2 DEF ByOf, ItemOf, KeyOf, TimeDidKeyset, TimeCodeKeyset, UseCodeKeyset, ListInv, IInv, ListingShape, Subjects
      <4> QED BY <4>1, <4>2
    <3> QED BY <3>1, <3>3 DEF ListedOnce, Times
  <2> QED BY <2>1, <2>2 DEF PagesMissNothing
<1> QED BY <1>1, Invariant, PTL

\* A request of the account itself, whose answer the server can complete, shows what
\* the account wrote before it and left as it is: whatever the app view had seen, and
\* whatever the account writes meanwhile.
THEOREM OwnWritesAreRead == Spec => []ReadYourWrites
<1>1. IInv => ReadYourWrites
  BY DEF IInv, MergeInv, ReadYourWrites, Reading
<1> QED BY <1>1, Invariant, PTL
=============================================================================
