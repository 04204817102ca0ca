-------------------------------- MODULE Pages --------------------------------
(***************************************************************************)
(* Pages of a query, by the key of the last row that was returned: the     *)
(* GenericKeyset of db/pagination.ts, and the queries that are written in  *)
(* the same way by hand.  A key is a pair, compared from its first part.   *)
(***************************************************************************)
EXTENDS Naturals, Sequences, FiniteSets

CONSTANTS
  None,       \* no row, no request
  PageSize    \* rows of a page of blocks, and the most that a client asks for

ASSUME PageAssumption == PageSize \in Nat \ {0}

Directions == {"asc", "desc"}

Less(a, b) == a[1] < b[1] \/ (a[1] = b[1] /\ a[2] < b[2])
Comes(a, b, direction) == IF direction = "asc" THEN Less(a, b) ELSE Less(b, a)

(* Mutants: a cursor that is compared by its first part only; one that is  *)
(* compared as if the order were always ascending.                         *)
AfterPrimary(cursor, key, direction) ==
  cursor = <<>> \/ IF direction = "asc" THEN cursor[1] < key[1] ELSE key[1] < cursor[1]
AfterAscending(cursor, key, direction) == cursor = <<>> \/ Less(cursor, key)

(* getSql, both forms: what comes after the cursor, or all without one. *)
After(cursor, key, direction) == cursor = <<>> \/ Comes(cursor, key, direction)

(* paginate: the rows that come after the cursor, and the first of them,   *)
(* which fewer rows come before than the limit allows.                     *)
Rest(keys, cursor, direction) == {k \in keys : After(cursor, k, direction)}
Earlier(keys, key, direction) == {k \in keys : Comes(k, key, direction)}
Page(keys, cursor, direction, limit) ==
  LET rest == Rest(keys, cursor, direction)
  IN  {k \in rest : Cardinality(Earlier(rest, k, direction)) < limit}

(* packFromResult, and unpack of the next request: the key of the last row. *)
Cursor(page, direction) == CHOOSE k \in page : \A j \in page : ~Comes(k, j, direction)
=============================================================================
