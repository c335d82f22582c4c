----------------------------- MODULE HistoryQuery -----------------------------
(***************************************************************************)
(* How the encrypted history is read: the order of its rows, the cursor    *)
(* that says where the last page ended, the page that follows it, and what *)
(* the codec can decrypt (repository.py, contract.py and codec.py of       *)
(* history-sqlite).  A table is a function from the identifiers of its     *)
(* rows to what the rows hold; SQLite's NULL rating is 0.                  *)
(***************************************************************************)
EXTENDS Integers, Sequences, SequencesExt, FiniteSets

CONSTANTS
  Ids,        \* identifiers of records: numbers, compared as the texts are
  CreatedAt,  \* when each was created, as the client says it
  Naming,     \* the records whose texts contain the keyword
  PageSize,   \* page_size of the requests
  Batch       \* rows that a search or an export selects at once (100)

ASSUME QueryAssumption ==
  /\ Ids \subseteq Nat /\ CreatedAt \in [Ids -> Nat] /\ Naming \subseteq Ids
  /\ PageSize \in Nat \ {0} /\ Batch \in Nat \ {0}

Garbage == -1  \* a ciphertext that no key and no metadata open
NoRating == 0

\* encrypt: the two texts are sealed for one record; a hash of its columns is
\* part of what is authenticated, its rating and tags are not.
Sealed(i) == i

\* What save inserts: the columns that the properties tell apart.
Row(i) == [created_at |-> CreatedAt[i], rating |-> NoRating, sealed |-> Sealed(i)]

\* decrypt: the texts open only in the row they were sealed for.
Readable(table, i) == table[i].sealed = Sealed(i)

\* _detail_row: a record that cannot be read is shown as corrupted.
Corrupted == -2
Shown(table, i) == IF Readable(table, i) THEN i ELSE Corrupted

Sorts == {"created_at", "rating"}
Directions == {"asc", "desc"}
\* What HistoryListRequest.from_payload lets through: a sort, a direction, a
\* keyword or none, and dates in their order.
Requests ==
  {r \in [sort : Sorts, direction : Directions, keyword : BOOLEAN,
          from : 0..9, to : 0..9] : r.from <= r.to}

\* An export is asked for by filters only.
ExportOf(request) ==
  [request EXCEPT !.sort = "created_at", !.direction = "asc", !.keyword = FALSE]

\* _encode_cursor: the place of a row, signed together with the request.
NoRequest == [sort |-> "none"]
NoCursor == [id |-> -1, value |-> -1, request |-> NoRequest]
CursorAt(request, table, i) == [id |-> i, value |-> table[i][request.sort], request |-> request]

\* _decode_cursor refuses the cursor of another request.
Accepted(cursor, request) == cursor = NoCursor \/ cursor.request = request

Past(request, a, b) == IF request.direction = "asc" THEN a > b ELSE a < b

-----------------------------------------------------------------------------
\* ORDER BY: ratings that are NULL come last, in both directions.
Later(request, table, i, j) ==
  LET a == table[i][request.sort]
      b == table[j][request.sort]
      unrated(v) == request.sort = "rating" /\ v = NoRating
  IN IF unrated(a) # unrated(b) THEN unrated(a)
     ELSE \/ Past(request, a, b)
          \/ a = b /\ Past(request, i, j)

\* Mutated forms: the rows without a rating forgotten; the identifier not compared.
BehindRated(request, table, cursor, i) ==
  LET v == table[i][request.sort]
  IN Past(request, v, cursor.value) \/ (v = cursor.value /\ Past(request, i, cursor.id))
BehindValue(request, table, cursor, i) ==
  LET v == table[i][request.sort]
  IN v = NoRating \/ v = cursor.value \/ Past(request, v, cursor.value)

\* WHERE: the rows behind the cursor ...
BehindCursor(request, table, cursor, i) ==
  LET v == table[i][request.sort]
      tie == v = cursor.value /\ Past(request, i, cursor.id)
  IN IF request.sort = "created_at"
       THEN Past(request, v, cursor.value) \/ tie
       ELSE IF cursor.value = NoRating THEN tie
            ELSE v = NoRating \/ Past(request, v, cursor.value) \/ tie

\* ... that pass the filters.
Fits(request, table, i) == table[i].created_at \in request.from..request.to

Prefix(rows, limit) == SubSeq(rows, 1, IF Len(rows) < limit THEN Len(rows) ELSE limit)

\* The k-th of some rows: k - 1 of them come before it.
Nth(request, table, rows, k) ==
  CHOOSE i \in rows : Cardinality({j \in rows : Later(request, table, i, j)}) = k - 1

Selectable(request, table, cursor) ==
  {i \in DOMAIN table : /\ Fits(request, table, i)
                        /\ cursor # NoCursor => BehindCursor(request, table, cursor, i)}

SelectRows(request, table, cursor, limit) ==
  LET rows == Selectable(request, table, cursor)
      found == Cardinality(rows)
  IN [k \in 1..(IF found < limit THEN found ELSE limit) |-> Nth(request, table, rows, k)]

\* The rows at some places of a list, in its order.
Picked(rows, places) ==
  [n \in 1..Cardinality(places) |->
     rows[CHOOSE k \in places : Cardinality({j \in places : j < k}) = n - 1]]

\* What a search finds in the rows of a batch: a row that cannot be decrypted
\* is passed over.
Matching(rows, table) ==
  Picked(rows, {k \in DOMAIN rows : Readable(table, rows[k]) /\ rows[k] \in Naming})

\* _page: one row more than asked for says that another page follows.
PageOf(rows) == Prefix(rows, PageSize)
HasMore(rows) == Len(rows) > PageSize

\* Mutated form: the order of the identifiers.
LowerId(table, i, j) == i < j

\* ORDER BY created_at, id: the order in which retention takes the rows ...
Older(table, i, j) ==
  \/ table[i].created_at < table[j].created_at
  \/ table[i].created_at = table[j].created_at /\ i < j

\* ... and LIMIT: the rows that have fewer than n before them.
Oldest(table, ids, n) == {i \in ids : Cardinality({j \in ids : Older(table, j, i)}) < n}
==============================================================================
