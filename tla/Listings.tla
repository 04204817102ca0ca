------------------------------ MODULE Listings ------------------------------
(***************************************************************************)
(* Listings that a client reads page by page while what they list changes: *)
(* the repositories of the server (listRepos), its invite codes            *)
(* (getInviteCodes, by creation or by use), and the blobs of a repository  *)
(* (listBlobs, listMissingBlobs).  listRecords is in RepoExport.           *)
(*                                                                         *)
(* One table, of one of these subjects.  The rows of actors have the time  *)
(* they were made, those of codes also how often they were used, those of  *)
(* blobs are of a record: its revision and the blob it refers to.          *)
(***************************************************************************)
EXTENDS Naturals, Sequences, FiniteSets, Pages

CONSTANTS
  Names,      \* dids, codes or records: numbers, in the order of the names
  Blobs,      \* blobs that records may refer to, numbers
  MaxClock,   \* bound: instants
  MaxUses     \* bound: uses of a code

ASSUME ListingAssumption ==
  IsFiniteSet(Names) /\ Names \subseteq Nat /\ Blobs \subseteq Nat /\ MaxClock \in Nat \ {0} /\ MaxUses \in Nat

VARIABLES
  table,    \* name -> row, or None
  stored,   \* the blobs whose bytes are here (rows of the table blob)
  clock,
  listing,  \* what is read, its cursor, and what was listed so far
  touched   \* history: names changed while it is read

listVars == <<table, stored, clock, listing, touched>>

Subjects == {"actors", "codes", "blobs"}
(* What was listed is a sequence of pages, each a set. *)
NoListing(subject) == [subject |-> subject, by |-> None, at |-> None, limit |-> 0, since |-> 0,
                       cursor |-> <<>>, listed |-> <<>>, start |-> {}]
Open == listing.at = "pages"
(* Bound: once a listing is complete, nothing happens until it was read. *)
Unlisted == listing.at # "done"
Touch(S) == touched' = IF Open THEN touched \cup S ELSE touched
Present == {n \in Names : table[n] # None}

ListingInit(subjects) ==
  /\ \E s \in subjects : listing = NoListing(s)
  /\ table = [n \in Names |-> None] /\ stored = {} /\ clock = 1 /\ touched = {}

Tick ==
  /\ listing.subject # "blobs" /\ Unlisted /\ clock < MaxClock /\ clock' = clock + 1
  /\ UNCHANGED <<table, stored, listing, touched>>

(* Bound: the revision of a record that refers to blobs is its name.       *)
Row(n, blob) ==
  IF listing.subject # "blobs" THEN [at |-> clock, uses |-> 0, blob |-> None]
  ELSE [at |-> n, uses |-> 0, blob |-> blob]

(* registerActor and the first root; createInviteCodes, a batch with one   *)
(* time; the reference of a record that is created or updated.             *)
Put(S, blob) ==
  /\ Unlisted /\ (listing.subject = "blobs" \/ S \cap Present = {})
  /\ table' = [n \in Names |-> IF n \in S THEN Row(n, blob) ELSE table[n]]
  /\ Touch(S)
  /\ UNCHANGED <<stored, clock, listing>>
Delete(n) ==
  /\ Unlisted /\ listing.subject # "codes" /\ n \in Present
  /\ table' = [table EXCEPT ![n] = None]
  /\ Touch({n})
  /\ UNCHANGED <<stored, clock, listing>>
UseCode(n) ==
  /\ Unlisted /\ listing.subject = "codes" /\ n \in Present /\ table[n].uses < MaxUses
  /\ table' = [table EXCEPT ![n].uses = @ + 1]
  /\ Touch({n})
  /\ UNCHANGED <<stored, clock, listing>>
Upload(b) ==
  /\ Unlisted /\ listing.subject = "blobs" /\ b \notin stored
  /\ stored' = stored \cup {b}
  /\ Touch({n \in Present : table[n].blob = b})
  /\ UNCHANGED <<table, clock, listing>>

(* The keys of the rows, and the direction that they are listed in.       *)
TimeDidKeyset(n) == <<table[n].at, n>>
TimeCodeKeyset(n) == <<table[n].at, n>>
UseCodeKeyset(n) == <<table[n].uses, n>>
BlobKey(n) == <<table[n].blob, 0>>
KeyOf(by, n) ==
  CASE by = "repos" -> TimeDidKeyset(n)
    [] by = "recent" -> TimeCodeKeyset(n)
    [] by = "usage" -> UseCodeKeyset(n)
    [] OTHER -> BlobKey(n)
ItemOf(by, key) == IF by \in {"blobs", "missing"} THEN key[1] ELSE key[2]
Direction(by) == IF by \in {"recent", "usage"} THEN "desc" ELSE "asc"

(* What is selected: of blobs, those of records since a revision, or those *)
(* whose bytes are not here.                                               *)
Selected(by, since) ==
  {n \in Present : (by = "blobs" => table[n].at > since) /\ (by = "missing" => table[n].blob \notin stored)}

List(subject, by, limit, since) ==
  /\ listing.subject = subject /\ listing.at = None
  /\ listing' = [listing EXCEPT !.by = by, !.at = "pages", !.limit = limit, !.since = since,
                                !.start = Selected(by, since)]
  /\ UNCHANGED <<table, stored, clock, touched>>
ListRepos(limit) == List("actors", "repos", limit, 0)
GetInviteCodes(sort, limit) == List("codes", sort, limit, 0)
ListBlobs(since, limit) == List("blobs", "blobs", limit, since)
ListMissingBlobs(limit) == List("blobs", "missing", limit, 0)

(* A handler's call with the cursor of the one before; no row, no cursor. *)
ListPage ==
  /\ Open
  /\ LET keys == {KeyOf(listing.by, n) : n \in Selected(listing.by, listing.since)}
         page == Page(keys, listing.cursor, Direction(listing.by), listing.limit)
     IN  listing' = IF page = {} THEN [listing EXCEPT !.at = "done"]
                    ELSE [listing EXCEPT !.cursor = Cursor(page, Direction(listing.by)),
                            !.listed = Append(@, {ItemOf(listing.by, k) : k \in page})]
  /\ UNCHANGED <<table, stored, clock, touched>>

(* The listing was read: the next one starts from the beginning. *)
Close ==
  /\ listing.at = "done"
  /\ listing' = NoListing(listing.subject) /\ touched' = {}
  /\ UNCHANGED <<table, stored, clock>>

Change ==
  \/ Tick
  \/ \E n \in Names, b \in Blobs : Put({n}, b)
  \/ \E S \in SUBSET Names, b \in Blobs : listing.subject = "codes" /\ S # {} /\ Put(S, b)
  \/ \E n \in Names : Delete(n) \/ UseCode(n)
  \/ \E b \in Blobs : Upload(b)
ListRows ==
  \/ \E limit \in 1..PageSize :
       \/ ListRepos(limit) \/ ListMissingBlobs(limit)
       \/ \E sort \in {"recent", "usage"} : GetInviteCodes(sort, limit)
       \/ \E since \in {0, 1} : ListBlobs(since, limit)
  \/ ListPage \/ Close
=============================================================================
