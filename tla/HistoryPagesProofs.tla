------------------------- MODULE HistoryPagesProofs -------------------------
(***************************************************************************)
(* Proofs about HistoryPages, for integers of every width and tables of    *)
(* every size they can count: what a page is, and that a client that reads *)
(* them all misses no row.                                                 *)
(***************************************************************************)
EXTENDS HistoryPages, TLAPS

-----------------------------------------------------------------------------
(* Lemmas about the integers and the pages. *)

\* An integer that fits its width is what it is cast to.
LEMMA CastKeeps ==
  ASSUME NEW n \in I64
  PROVE  AsI64(n) = n
<1>1. /\ Half \in Nat \ {0} /\ n \in Int
      /\ 0 <= n + Half /\ n + Half < 2 * Half
  BY WidthAssumption DEF I64
<1>2. ASSUME NEW a \in Int, NEW m \in Nat \ {0}, 0 <= a, a < m
      PROVE  a % m = a
  BY <1>2
<1>3. (n + Half) % (2 * Half) = n + Half
  BY <1>1, <1>2
<1>. QED
  BY <1>1, <1>3 DEF AsI64

\* The upper half of an unsigned integer is cast to the negative ones.
LEMMA CastWraps ==
  ASSUME NEW p \in Usize, p >= Half
  PROVE  AsI64(p) = p - 2 * Half /\ AsI64(p) \in Int /\ AsI64(p) < 0
<1>1. /\ Half \in Nat \ {0} /\ p \in Int
      /\ 2 * Half <= p + Half /\ p < 2 * Half
  BY WidthAssumption DEF Usize
<1>2. ASSUME NEW a \in Int, NEW m \in Nat \ {0}, m <= a, a < 2 * m
      PROVE  a % m = a - m
  BY <1>2, SMTT(30)
<1>. DEFINE a == p + Half
            m == 2 * Half
<1>3. a \in Int /\ m \in Nat \ {0} /\ m <= a /\ a < 2 * m
  BY <1>1
<1>4. a % m = a - m
  <2>. HIDE DEF a, m
  <2>. QED
    BY <1>2, <1>3
<1>5. AsI64(p) = (a % m) - Half
  BY DEF AsI64
<1>. QED
  BY <1>1, <1>4, <1>5

\* The offset of a page, as long as it does not leave its width.
LEMMA OffsetIs ==
  ASSUME NEW p, NEW n \in I64, Fits(p, n)
  PROVE  Offset(p, n) = (AsI64(p) - 1) * n
BY CastKeeps DEF Offset, Fits

\* The page before and the page's own rows.
LEMMA NextOffset ==
  ASSUME NEW p \in Int, NEW n \in Int
  PROVE  p * n = (p - 1) * n + n /\ (p + 1 - 1) * n = p * n /\ p * n \in Int
OBVIOUS

\* The rows from one place to another.
Places(from, to) ==
  {r \in 1..rows : LET place == IF order = "asc" THEN r ELSE rows - r + 1
                   IN  from < place /\ place <= to}

\* A limit and an offset that is not negative give the places behind the offset.
LEMMA LimitedIs ==
  ASSUME rows \in Nat, order \in {"asc", "desc"}, NEW n \in Int, NEW m \in Int
  PROVE  /\ n >= 0 /\ m >= 0 => Limited(n, m) = Places(m, m + n)
         /\ n >= 0 /\ m < 0 => Limited(n, m) = Places(0, n)
         /\ n < 0 /\ m <= 0 => Limited(n, m) = 1..rows
<1>. DEFINE first == IF m < 0 THEN 0 ELSE m
            taken == {k \in 0..(rows - 1) : k >= first /\ (n >= 0 => k < first + n)}
<1>1. first \in Nat /\ Limited(n, m) = {RowAt(i) : i \in taken}
  BY DEF Limited
<1>2. ASSUME NEW r \in 1..rows
      PROVE  LET place == IF order = "asc" THEN r ELSE rows - r + 1
             IN  /\ place - 1 \in 0..(rows - 1) /\ RowAt(place - 1) = r
                 /\ \A i \in 0..(rows - 1) : RowAt(i) = r => i = place - 1
  BY DEF RowAt
<1>3. ASSUME NEW i \in 0..(rows - 1) PROVE RowAt(i) \in 1..rows
  BY DEF RowAt
<1>4. ASSUME NEW r \in 1..rows
      PROVE  LET place == IF order = "asc" THEN r ELSE rows - r + 1
             IN  r \in Limited(n, m) <=> place - 1 \in taken
  BY <1>1, <1>2
<1>5. Limited(n, m) \subseteq 1..rows
  BY <1>1, <1>3
<1>6. ASSUME n >= 0, m >= 0 PROVE Limited(n, m) = Places(m, m + n)
  BY <1>1, <1>4, <1>5, <1>6 DEF Places
<1>7. ASSUME n >= 0, m < 0 PROVE Limited(n, m) = Places(0, n)
  BY <1>1, <1>4, <1>5, <1>7 DEF Places
<1>8. ASSUME n < 0, m <= 0 PROVE Limited(n, m) = 1..rows
  BY <1>1, <1>4, <1>5, <1>8
<1>. QED
  BY <1>6, <1>7, <1>8

\* A page of rows is the places behind the pages before it.
LEMMA PageIs ==
  ASSUME rows \in Nat, order \in {"asc", "desc"},
         NEW p \in Nat \ {0}, p \in I64, NEW n \in I64, n >= 0, Fits(p, n)
  PROVE  /\ Records(p, n) = Places((p - 1) * n, p * n)
         /\ (p - 1) * n \in Nat /\ p * n \in Nat /\ p * n = (p - 1) * n + n
<1>1. Offset(p, n) = (p - 1) * n
  BY OffsetIs, CastKeeps
<1>2. n \in Nat
  BY WidthAssumption DEF I64
<1>a. ASSUME NEW a \in Nat, NEW b \in Nat PROVE a * b \in Nat
  OBVIOUS
<1>3. (p - 1) * n \in Nat /\ p * n \in Nat /\ p * n = (p - 1) * n + n
  <2>1. p - 1 \in Nat /\ p \in Nat
    OBVIOUS
  <2>2. (p - 1) * n \in Nat /\ p * n \in Nat
    BY <1>2, <1>a, <2>1
  <2>. QED
    BY <1>2, <2>1, <2>2, NextOffset
<1>4. ASSUME NEW m \in Nat PROVE Limited(n, m) = Places(m, m + n)
  BY <1>2, LimitedIs
<1>. QED
  BY <1>1, <1>3, <1>4 DEF Records

-----------------------------------------------------------------------------
(* The invariant. *)

LEMMA TypeStep == TypeOK /\ [Next]_vars => TypeOK'
<1>. SUFFICES ASSUME TypeOK, [Next]_vars PROVE TypeOK'
  OBVIOUS
<1>. USE WidthAssumption DEF TypeOK
<1>1. CASE InsertHistory
  BY <1>1 DEF InsertHistory
<1>2. CASE ReadPage
  <2>1. Records(page, per_page) \subseteq 1..rows
    <3>1. ASSUME NEW i \in 0..(rows - 1) PROVE RowAt(i) \in 1..rows
      BY DEF RowAt
    <3>2. ASSUME NEW n, NEW m PROVE Limited(n, m) \subseteq 1..rows
      <4>. SUFFICES ASSUME NEW r \in Limited(n, m) PROVE r \in 1..rows
        OBVIOUS
      <4>1. \E i \in 0..(rows - 1) : r = RowAt(i)
        BY DEF Limited
      <4>. QED
        BY <3>1, <4>1
    <3>. QED
      BY <3>2 DEF Records
  <2>2. page' \in {page + 1, 0}
    BY <1>2 DEF ReadPage
  <2>3. seen' \subseteq 1..rows /\ UNCHANGED <<rows, order, per_page, start>>
    BY <1>2, <2>1 DEF ReadPage
  <2>. QED
    BY <2>2, <2>3
<1>3. CASE UNCHANGED vars
  BY <1>3 DEF vars
<1>. QED
  BY <1>1, <1>2, <1>3 DEF Next

\* The numbers of the page the client reads never leave their width.
LEMMA PageFits ==
  ASSUME TypeOK, WithinTable, page # 0
  PROVE  /\ Fits(page, per_page) /\ page \in Nat \ {0} /\ page \in I64
         /\ per_page \in I64 /\ per_page \in Nat \ {0}
<1>t. /\ page \in Nat \ {0} /\ per_page \in I64 /\ per_page \in Nat \ {0}
      /\ Half \in Nat /\ rows \in Nat /\ rows < Half
  BY WidthAssumption DEF TypeOK, I64
<1>1. ASSUME NEW a \in Nat, NEW n \in Nat \ {0} PROVE a <= a * n /\ a * n \in Nat
  OBVIOUS
<1>2. page - 1 <= (page - 1) * per_page /\ (page - 1) * per_page \in Nat
  BY <1>t, <1>1
<1>3. page \in I64 /\ (page - 1) * per_page \in I64
  <2>1. CASE page > 1
    BY <1>t, <1>2, <2>1 DEF WithinTable, I64
  <2>2. CASE page = 1
    <3>1. (page - 1) * per_page = 0 /\ Half > 1
      BY <1>t, <2>2, WidthAssumption DEF I64
    <3>. QED
      BY <1>t, <2>2, <3>1 DEF I64
  <2>. QED
    BY <1>t, <2>1, <2>2
<1>. QED
  BY <1>t, <1>3, CastKeeps DEF Fits

\* An insert pushes the rows of the default order back and leaves those of the
\* other where they are.
LEMMA InsertStep == IInv /\ InsertHistory => (PagesRead /\ WithinTable /\ WalkMissesNothing)'
<1>. SUFFICES ASSUME IInv, InsertHistory PROVE (PagesRead /\ WithinTable /\ WalkMissesNothing)'
  OBVIOUS
<1>1. /\ rows' = rows + 1 /\ UNCHANGED <<order, per_page, page, seen, start>>
      /\ rows \in Nat /\ start \in Nat /\ page \in Nat /\ per_page \in Int
  BY WidthAssumption DEF InsertHistory, IInv, TypeOK, I64
<1>. DEFINE before == (page - 1) * per_page
<1>2. before \in Int /\ before' = before
  BY <1>1
<1>. HIDE DEF before
<1>3. PagesRead'
  <2>. SUFFICES ASSUME page # 0, NEW r \in 1..start,
                       (IF order = "asc" THEN r ELSE rows + 1 - r + 1) <= before
                PROVE  r \in seen
    BY <1>1, <1>2 DEF PagesRead, before
  <2>1. (IF order = "asc" THEN r ELSE rows - r + 1) <= before
    BY <1>1, <1>2
  <2>. QED
    BY <2>1 DEF IInv, PagesRead, before
<1>4. WithinTable'
  BY <1>1, <1>2 DEF IInv, WithinTable, before
<1>. QED
  BY <1>1, <1>3, <1>4 DEF IInv, WalkMissesNothing

\* A page adds the rows whose place falls into it to those of the pages before;
\* the client stops when no row is left behind it.
LEMMA ReadStep == IInv /\ ReadPage => (PagesRead /\ WithinTable /\ WalkMissesNothing)'
<1>. SUFFICES ASSUME IInv, ReadPage PROVE (PagesRead /\ WithinTable /\ WalkMissesNothing)'
  OBVIOUS
<1>t. /\ rows \in Nat /\ start \in 0..rows /\ order \in {"asc", "desc"}
      /\ page # 0 /\ UNCHANGED <<rows, order, per_page, start>>
      /\ page \in Nat \ {0} /\ page \in I64 /\ Fits(page, per_page)
      /\ per_page \in Nat \ {0} /\ per_page \in I64
  BY PageFits DEF ReadPage, IInv, TypeOK
<1>. DEFINE from == (page - 1) * per_page
            to == page * per_page
            Place(r) == IF order = "asc" THEN r ELSE rows - r + 1
<1>1. /\ Records(page, per_page) = Places(from, to)
      /\ from \in Nat /\ to \in Nat /\ from <= to
  BY <1>t, PageIs
<1>2. /\ seen' = seen \cup Places(from, to)
      /\ page' = IF to < Total(page, per_page) THEN page + 1 ELSE 0
  BY <1>1 DEF ReadPage
<1>3. \A r \in 1..start : Place(r) \in Int /\ Place(r) >= 1 /\ Place(r) <= rows
  BY <1>t
<1>4. \A r \in 1..start : Place(r) <= to => r \in seen'
  <2>. SUFFICES ASSUME NEW r \in 1..start, Place(r) <= to PROVE r \in seen'
    OBVIOUS
  <2>1. CASE Place(r) <= from
    BY <1>t, <1>2, <2>1 DEF IInv, PagesRead
  <2>2. CASE ~ (Place(r) <= from)
    <3>1. r \in Places(from, to)
      BY <1>t, <1>1, <1>3, <2>2 DEF Places
    <3>. QED
      BY <1>2, <3>1
  <2>. QED
    BY <2>1, <2>2
<1>5. Total(page, per_page) \in {0, rows}
  BY DEF Total
<1>6. CASE to < Total(page, per_page)
  <2>1. page' = page + 1 /\ to < rows /\ page' # 0
    BY <1>t, <1>1, <1>2, <1>5, <1>6
  <2>2. (page' - 1) * per_page' = to
    BY <1>t, <2>1
  <2>3. PagesRead'
    BY <1>t, <1>4, <2>2 DEF PagesRead
  <2>. QED
    BY <1>t, <2>1, <2>2, <2>3 DEF WithinTable, WalkMissesNothing
<1>7. CASE ~ (to < Total(page, per_page))
  <2>1. page' = 0
    BY <1>2, <1>7
  <2>2. ASSUME NEW r \in 1..start PROVE r \in seen'
    <3>1. CASE Total(page, per_page) = rows
      BY <1>t, <1>1, <1>3, <1>4, <1>7, <3>1
    <3>2. CASE Records(page, per_page) = {}
      <4>. DEFINE next == IF order = "asc" THEN from + 1 ELSE rows - from
      <4>1. from < rows
        BY <1>t, <1>1 DEF IInv, WithinTable
      <4>2. next \in 1..rows /\ Place(next) = from + 1
        BY <1>t, <1>1, <4>1
      <4>3. from + 1 <= to
        BY <1>t, <1>1, NextOffset
      <4>4. next \in Places(from, to)
        BY <1>1, <4>2, <4>3 DEF Places
      <4>. QED
        BY <1>1, <3>2, <4>4
    <3>. QED
      BY <3>1, <3>2 DEF Total
  <2>. QED
    BY <1>t, <2>1, <2>2 DEF PagesRead, WithinTable, WalkMissesNothing
<1>. QED
  BY <1>6, <1>7

\* The client has the rows of the pages it read, wherever inserts have pushed them.
THEOREM Inductive == Spec => []IInv
<1>1. Init => IInv
  BY WidthAssumption DEF Init, IInv, TypeOK, PagesRead, WithinTable, WalkMissesNothing, I64
<1>2. IInv /\ [Next]_vars => IInv'
  <2>. SUFFICES ASSUME IInv, [Next]_vars PROVE IInv'
    OBVIOUS
  <2>1. TypeOK'
    BY TypeStep DEF IInv
  <2>2. (PagesRead /\ WithinTable /\ WalkMissesNothing)'
    <3>1. CASE UNCHANGED vars
      BY <3>1 DEF vars, IInv, PagesRead, WithinTable, WalkMissesNothing
    <3>. QED
      BY <3>1, InsertStep, ReadStep DEF Next
  <2>. QED
    BY <2>1, <2>2 DEF IInv
<1>. QED
  BY <1>1, <1>2, PTL DEF Spec

\* A client that reads page after page has had every row that was there when it
\* began, however many were inserted meanwhile and in either order.
THEOREM NoRowMissed == Spec => []WalkMissesNothing
<1>1. IInv => WalkMissesNothing
  BY DEF IInv
<1>. QED
  BY <1>1, Inductive, PTL

\* For every page and page size whose offset fits an integer a page is the slice
\* of its number; a negative size lists everything, and page 0 and a page whose
\* cast is negative are page 1.
THEOREM PagesAreSlices == Spec => []PageIsSlice
<1>1. IInv => PageIsSlice
  <2>. SUFFICES ASSUME IInv, NEW p \in Usize, NEW n \in I64, Fits(p, n)
                PROVE  /\ p \in 1..(Half - 1) /\ n >= 0 => Records(p, n) = Slice(p, n)
                       /\ p \in 1..(Half - 1) /\ n < 0 => Records(p, n) = 1..rows
                       /\ p \notin 1..(Half - 1) /\ n >= 0 => Records(p, n) = Slice(1, n)
    BY DEF PageIsSlice
  <2>t. /\ rows \in Nat /\ order \in {"asc", "desc"} /\ p \in Nat /\ n \in Int
        /\ Half \in Nat \ {0}
    BY WidthAssumption DEF IInv, TypeOK, Usize, I64
  <2>p. ASSUME p \in 1..(Half - 1)
        PROVE  p \in Nat \ {0} /\ p \in I64 /\ AsI64(p) = p
    BY <2>t, <2>p, CastKeeps DEF I64
  <2>1. ASSUME p \in 1..(Half - 1), n >= 0 PROVE Records(p, n) = Slice(p, n)
    <3>1. Records(p, n) = Places((p - 1) * n, p * n)
      BY <2>t, <2>p, <2>1, PageIs
    <3>. QED
      BY <3>1 DEF Places, Slice
  <2>2. ASSUME p \in 1..(Half - 1), n < 0 PROVE Records(p, n) = 1..rows
    <3>1. ASSUME NEW a \in Nat, NEW b \in Int, b < 0 PROVE a * b <= 0 /\ a * b \in Int
      BY <3>1
    <3>2. p - 1 \in Nat
      BY <2>t, <2>2
    <3>3. (p - 1) * n <= 0 /\ (p - 1) * n \in Int
      BY <2>t, <2>2, <3>1, <3>2
    <3>4. Offset(p, n) = (p - 1) * n
      BY <2>p, <2>2, OffsetIs
    <3>5. Limited(n, (p - 1) * n) = 1..rows
      BY <2>t, <2>2, <3>3, LimitedIs
    <3>. QED
      BY <3>4, <3>5 DEF Records
  <2>3. ASSUME p \notin 1..(Half - 1), n >= 0 PROVE Records(p, n) = Slice(1, n)
    <3>. DEFINE m == (AsI64(p) - 1) * n
    <3>1. AsI64(p) \in Int /\ AsI64(p) <= 0
      <4>1. CASE p = 0
        BY <2>t, <4>1, CastKeeps DEF I64
      <4>2. CASE p >= Half
        BY <2>t, <4>2, CastWraps
      <4>. QED
        BY <2>t, <2>3, <4>1, <4>2
    <3>2. ASSUME NEW a \in Nat \ {0}, NEW b \in Nat
          PROVE  a * b \in Nat /\ (b > 0 => a * b > 0) /\ (0 - a) * b = 0 - a * b
      OBVIOUS
    <3>3. 1 - AsI64(p) \in Nat \ {0} /\ n \in Nat /\ AsI64(p) - 1 = 0 - (1 - AsI64(p))
      BY <2>t, <2>3, <3>1
    <3>4. m \in Int /\ (n > 0 => m < 0) /\ (n = 0 => m = 0)
      BY <3>2, <3>3
    <3>5. Limited(n, m) = Places(0, n)
      <4>. HIDE DEF m
      <4>1. CASE n = 0
        BY <2>t, <3>4, <4>1, LimitedIs
      <4>2. CASE n # 0
        BY <2>t, <2>3, <3>4, <4>2, LimitedIs
      <4>. QED
        BY <4>1, <4>2
    <3>6. Places(0, n) = Slice(1, n)
      BY <2>t DEF Places, Slice
    <3>. QED
      BY <3>5, <3>6, OffsetIs DEF Records
  <2>. QED
    BY <2>1, <2>2, <2>3
<1>. QED
  BY <1>1, Inductive, PTL
=============================================================================
