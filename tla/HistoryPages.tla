---------------------------- MODULE HistoryPages ---------------------------
(***************************************************************************)
(* GET /api/history (src/src/api/history.rs) on the history table:         *)
(* History::paginate (db/models.rs) and Paginated (db/pagination.rs), with *)
(* a client that reads one page after the other while the worker inserts   *)
(* rows.                                                                   *)
(*                                                                         *)
(* A row is its rank in `updated`, the default key.  The other keys are    *)
(* not unique and leave the order of equal rows to SQLite; they are not    *)
(* modelled.  Integers have a width and wrap, as in a release build.       *)
(***************************************************************************)
EXTENDS Integers, FiniteSets

CONSTANTS
  Half,       \* 2^63: an i64 goes from -Half to Half - 1, a usize to 2 * Half - 1
  MaxRows     \* bound of the table; in SQLite, where a rowid is an i64, 2^63 - 1

ASSUME WidthAssumption == Half \in Nat \ {0} /\ MaxRows \in 0..(Half - 1)

VARIABLES
  rows,       \* how many rows the table has
  order,      \* SortOrder: "asc" or "desc"
  per_page,
  page,       \* the page the client reads next, 0 once it has read them all
  seen,       \* the rows it was answered with
  start       \* how many rows there were when it began

vars == <<rows, order, per_page, page, seen, start>>

DefaultPerPage == 10

-----------------------------------------------------------------------------
(* Integers of a width. *)

Usize == 0..(2 * Half - 1)
I64 == (-Half)..(Half - 1)
AsI64(n) == ((n + Half) % (2 * Half)) - Half

-----------------------------------------------------------------------------
(* Paginated *)

\* MUTANT of Offset: per_page leaves the offset that paginate computed.
OffsetOfDefault(p, n) == AsI64((AsI64(p) - 1) * DefaultPerPage)

\* MUTANT of Offset: pages begin with 0.
OffsetFromZero(p, n) == AsI64(AsI64(p) * n)

Offset(p, n) == AsI64((AsI64(p) - 1) * n)

\* The row at a place of the ordered table, places counted from 0.
RowAt(i) == IF order = "asc" THEN i + 1 ELSE rows - i

\* SELECT ... LIMIT n OFFSET m of SQLite: a negative limit is none, a negative
\* offset is 0.
Limited(n, m) ==
  LET first == IF m < 0 THEN 0 ELSE m
  IN  {RowAt(i) : i \in {k \in 0..(rows - 1) : k >= first /\ (n >= 0 => k < first + n)}}

Records(p, n) == Limited(n, Offset(p, n))

\* COUNT(*) OVER () is a column of the rows: without rows there is no total.
Total(p, n) == IF Records(p, n) = {} THEN 0 ELSE rows

-----------------------------------------------------------------------------
Init ==
  /\ rows \in 0..MaxRows
  /\ start = rows
  /\ order \in {"asc", "desc"}
  /\ per_page \in {n \in I64 : n > 0}
  /\ page = 1
  /\ seen = {}

\* History::insert_v4 and insert_v6.
InsertHistory ==
  /\ rows < MaxRows
  /\ rows' = rows + 1
  /\ UNCHANGED <<order, per_page, page, seen, start>>

\* The client reads on until it has had as many rows as the total says.
ReadPage ==
  /\ page # 0
  /\ seen' = seen \cup Records(page, per_page)
  /\ page' = IF page * per_page < Total(page, per_page) THEN page + 1 ELSE 0
  /\ UNCHANGED <<rows, order, per_page, start>>

Next == InsertHistory \/ ReadPage

Spec == Init /\ [][Next]_vars

-----------------------------------------------------------------------------
(* Properties. *)

\* What a page is: the rows whose place, counted from 1, falls into it.
Slice(p, n) == {r \in 1..rows : LET place == IF order = "asc" THEN r ELSE rows - r + 1
                                IN  (p - 1) * n < place /\ place <= p * n}

\* Numbers whose offset fits an integer; the page itself may wrap.
Fits(p, n) == (AsI64(p) - 1) * n \in I64

\* A page is the slice of its number; page 0, and one whose cast wraps to a
\* negative number, is page 1.  A negative per_page lists everything.
PageIsSlice ==
  \A p \in Usize, n \in I64 : Fits(p, n) =>
    /\ p \in 1..(Half - 1) /\ n >= 0 => Records(p, n) = Slice(p, n)
    /\ p \in 1..(Half - 1) /\ n < 0 => Records(p, n) = 1..rows
    /\ p \notin 1..(Half - 1) /\ n >= 0 => Records(p, n) = Slice(1, n)

\* A client that reads page after page misses no row that was there when it
\* began, although the worker's inserts shift the rows of the default order
\* between its requests.
WalkMissesNothing ==
  page = 0 => 1..start \subseteq seen

-----------------------------------------------------------------------------
(* The inductive invariant behind the second. *)

TypeOK ==
  /\ rows \in 0..MaxRows /\ start \in 0..rows
  /\ order \in {"asc", "desc"}
  /\ per_page \in {n \in I64 : n > 0}
  /\ page \in Nat
  /\ seen \subseteq 1..rows

\* Of the rows that were there the client has those that are now on the pages
\* before the one it reads next: an insert may push rows back to that page, and
\* brings none forward.
PagesRead ==
  page # 0 => \A r \in 1..start :
    (IF order = "asc" THEN r ELSE rows - r + 1) <= (page - 1) * per_page => r \in seen

\* It reads no page that begins behind the last row.
WithinTable == page > 1 => (page - 1) * per_page < rows

IInv == TypeOK /\ PagesRead /\ WithinTable /\ WalkMissesNothing
=============================================================================
