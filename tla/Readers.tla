------------------------------- MODULE Readers -------------------------------
(***************************************************************************)
(* Requests that read while others write: one at a time, of a repository   *)
(* (RepoExport, ReadAfterWrite) or of a table that is listed (Listings).   *)
(* What is read of one database is independent of the other, so a          *)
(* behaviour is about one of them: its topic, chosen at the start.         *)
(***************************************************************************)
EXTENDS RepoExport, ReadAfterWrite, Listings

CONSTANT Topics   \* of "export", "merge" and the subjects of listings

ASSUME TopicAssumption == Topics \subseteq Subjects \cup {"export", "merge"}

(* What stands for nothing is no operation, and no state of one. *)
Operations == {"getRepo", "getRecord", "getBlocks", "getLatestCommit", "getHead", "getRepoStatus",
               "read", "listRecords", "describeRepo", "merge"}
ASSUME NoneAssumption == None \notin Operations \cup {"pages", "done"}

VARIABLE topic

vars == <<repoVars, reader, listVars, topic>>

OfRepository == topic \in {"export", "merge"}

Init ==
  /\ topic \in Topics
  /\ HistoryInit
  /\ ListingInit({IF OfRepository THEN "actors" ELSE topic})

Write ==
  \/ \E p \in Paths : \E t \in Says[p] \cup {None} : Commit(p, t)
  \/ ChangeStatus
(* What is merged is read without regard to takedowns of records. *)
OfRepo ==
  /\ OfRepository
  /\ \/ Write \/ Leave
     \/ topic = "export" /\ (Export \/ \E p \in Paths : TakedownRecord(p))
     \/ topic = "merge" /\ Merge
  /\ UNCHANGED <<listVars, topic>>

OfTable ==
  /\ ~OfRepository
  /\ Change \/ ListRows
  /\ UNCHANGED <<repoVars, reader, topic>>

Next == OfRepo \/ OfTable

Spec == Init /\ [][Next]_vars

-----------------------------------------------------------------------------
(* The tables are those that the writers can make. *)
TypeOK ==
  /\ HistoryTypeOK
  /\ stored \subseteq Blobs /\ clock \in 1..MaxClock /\ touched \subseteq Names
  /\ \A n \in Present : table[n].at \in 1..clock \cup Names

(* What is there from the first page of a listing to the last one, and is  *)
(* not changed meanwhile, is listed, and once: rows that come, go or move  *)
(* shift no other out of the pages or into two of them.                    *)
ListedOnce(listed, item) == Cardinality({i \in DOMAIN listed : item \in listed[i]}) = 1
PagesMissNothing ==
  /\ reader.op = "listRecords" /\ reader.at = "done" /\ reader.answer = "ok" =>
       \A p \in reader.start \ changed : ListedOnce(reader.listed, p)
  /\ listing.at = "done" =>
       \A n \in listing.start \ touched :
         ListedOnce(listing.listed, IF topic = "blobs" THEN table[n].blob ELSE n)
=============================================================================
