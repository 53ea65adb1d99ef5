-------------------------------- MODULE Paging --------------------------------
(***************************************************************************)
(* Reads that take more than one statement, while other connections write: *)
(*                                                                         *)
(*   - cursor pagination (QueryPk and Scan, src/src/op/query_pk.rs and     *)
(*     src/src/op/scan.rs): every page is a SELECT of its own that resumes *)
(*     after the sort key of the last row of the page before;              *)
(*   - an index lookup (src/src/op/find_pk_by_index.rs): the keys of the   *)
(*     matching rows first, then a GetByKey of those keys.                 *)
(*                                                                         *)
(* A statement sees one committed state of the table.  The driver keeps    *)
(* nothing between two calls: what a reader resumes from is what it was    *)
(* answered.                                                               *)
(***************************************************************************)
EXTENDS Integers, FiniteSets

CONSTANTS
    Keys,      \* record ids
    Sort,      \* Sort[k]: the last primary-key column of k
    Values,    \* contents of a row, as far as filters tell them apart
    NoRow,     \* content of an absent row
    Queries,   \* what readers ask for
    Readers    \* connections that read

(* range: the keys the primary-key filter admits (all of them for a Scan);
   wanted: the contents the filter admits; order: the direction asked for.  *)
Query == [range : SUBSET Keys, wanted : SUBSET Values,
          order : {"None", "Asc", "Desc"}, page_size : Nat \ {0}]

ASSUME KeysAssumption  == IsFiniteSet(Keys) /\ Sort \in [Keys -> Int]
ASSUME RowsAssumption  == NoRow \notin Values
ASSUME QueryAssumption == Queries \subseteq Query

VARIABLES
    rows,    \* the committed table
    read     \* read[r]: the read of r in progress

vars == <<rows, read>>

(* after: the cursor to resume from, a set of at most one sort key; page: the
   rows last answered; keys: the answer of FindPkByIndex.  `seen` (the rows of
   the pages before), `resumed` (the cursors used) and `stable` (the rows that
   have matched since the read began) are history: no step depends on them.  *)
Read == [at : {"idle", "paging", "lookup", "fetch", "done"}, query : Queries,
         after : SUBSET Int, page : SUBSET Keys, keys : SUBSET Keys,
         seen : SUBSET Keys, resumed : SUBSET Int, stable : SUBSET Keys]

Matching(q) == {k \in q.range : rows[k] \in q.wanted}

-----------------------------------------------------------------------------
(* The SELECT of a page. *)

EffectiveOrder(q) == IF q.order = "None" THEN "Asc" ELSE q.order

Before(q, m, n) == IF EffectiveOrder(q) = "Desc" THEN n < m ELSE m < n

(* Mutants: `>=` instead of `>`; the direction is not looked at. *)
ResumesAt(q, after, k) == \A c \in after : ~Before(q, Sort[k], c)
ResumesUp(q, after, k) == \A c \in after : c < Sort[k]

(* The keyset predicate: `sort_ref > $cursor`, or `<` when descending. *)
Resumes(q, after, k) == \A c \in after : Before(q, c, Sort[k])

Remaining(q, after) == {k \in Matching(q) : Resumes(q, after, k)}

(* `ORDER BY .. LIMIT page_size`: rows that share a sort key come in any order. *)
IsPage(q, rest, P) ==
    /\ Cardinality(P) <= q.page_size
    /\ Cardinality(P) < q.page_size => P = rest
    /\ \A k \in P, l \in rest \ P : ~Before(q, Sort[l], Sort[k])

(* Mutants: no cursor for a page that is just full; the record id itself. *)
CursorOfLonger(q, P) ==
    IF Cardinality(P) <= q.page_size THEN {}
    ELSE {Sort[k] : k \in {j \in P : \A l \in P : ~Before(q, Sort[j], Sort[l])}}
CursorOfId(q, P) ==
    IF Cardinality(P) < q.page_size THEN {}
    ELSE {k \in P : \A l \in P : ~Before(q, Sort[k], Sort[l])}

(* The sort key of the last row of a full page; none for a short page. *)
keyset_cursor(q, P) ==
    IF Cardinality(P) < q.page_size THEN {}
    ELSE {Sort[k] : k \in {j \in P : \A l \in P : ~Before(q, Sort[j], Sort[l])}}

-----------------------------------------------------------------------------
NewRead(place, q, S) ==
    [at |-> place, query |-> q, after |-> {}, page |-> {}, keys |-> {},
     seen |-> {}, resumed |-> {}, stable |-> S]

Init ==
    /\ rows \in [Keys -> Values \cup {NoRow}]
    /\ read \in [Readers -> {NewRead("idle", q, {}) : q \in Queries}]

Begin(r, q, place) ==
    /\ read[r].at \in {"idle", "done"}
    /\ read' = [read EXCEPT ![r] = NewRead(place, q, Matching(q))]
    /\ UNCHANGED rows

BeginPaging(r) == \E q \in Queries : Begin(r, q, "paging")
BeginLookup(r) == \E q \in Queries : Begin(r, q, "lookup")

(* The read once it was answered the page P and the cursor `next`. *)
Answered(rd, P, next) ==
    [rd EXCEPT !.at = IF next = {} THEN "done" ELSE "paging",
               !.after = next, !.page = P,
               !.seen = rd.seen \cup rd.page, !.resumed = rd.resumed \cup next]

(* The reader asks for the next page as long as it is answered a cursor. *)
run_keyset_select(r) ==
    LET q    == read[r].query
        rest == Remaining(q, read[r].after)
    IN  /\ read[r].at = "paging"
        /\ \E P \in SUBSET rest :
              /\ IsPage(q, rest, P)
              /\ read' = [read EXCEPT ![r] = Answered(@, P, keyset_cursor(q, P))]
        /\ UNCHANGED rows

exec_find_pk_by_index(r) ==
    /\ read[r].at = "lookup"
    /\ read' = [read EXCEPT ![r] =
           [@ EXCEPT !.at = "fetch", !.keys = Matching(read[r].query)]]
    /\ UNCHANGED rows

(* Keys without a row are answered no row; the index filter is not evaluated
   again.                                                                   *)
exec_get_by_key(r) ==
    /\ read[r].at = "fetch"
    /\ read' = [read EXCEPT ![r] =
           [@ EXCEPT !.at = "done", !.page = {k \in read[r].keys : rows[k] # NoRow}]]
    /\ UNCHANGED rows

(* Another connection commits an insert, an update or a delete. *)
Write(k, v) ==
    /\ rows[k] # v
    /\ rows' = [rows EXCEPT ![k] = v]
    /\ read' = [r \in Readers |->
           IF v \in read[r].query.wanted THEN read[r]
           ELSE [read[r] EXCEPT !.stable = @ \ {k}]]

Advance(r) == run_keyset_select(r) \/ exec_find_pk_by_index(r) \/ exec_get_by_key(r)

Next ==
    \/ \E r \in Readers : BeginPaging(r) \/ BeginLookup(r) \/ Advance(r)
    \/ \E k \in Keys, v \in Values \cup {NoRow} : Write(k, v)

Spec == Init /\ [][Next]_vars

(* A reader that was answered a cursor, or keys, asks for what follows. *)
FairSpec == Spec /\ \A r \in Readers : WF_vars(Advance(r))

-----------------------------------------------------------------------------
(* Properties. *)

TypeOK ==
    /\ rows \in [Keys -> Values \cup {NoRow}]
    /\ read \in [Readers -> Read]

Delivered(r) == read[r].seen \cup read[r].page

(* Whatever is written between two pages, every row of a page comes strictly
   after every row of the pages before it: no row is delivered twice, and the
   pages put together are in the order asked for (query_pk.rs:104-116).       *)
PagesInOrder ==
    \A r \in Readers : \A k \in read[r].seen, l \in read[r].page :
        Before(read[r].query, Sort[k], Sort[l])

(* A read that has ended delivered every row that matched from its beginning
   to its end, except rows that share their sort key with the last row of a
   full page; an index lookup delivers all of them (query_pk.rs:167-190,
   find_pk_by_index.rs:24-29).                                               *)
OnlyTiesLost ==
    \A r \in Readers : read[r].at = "done" =>
        \A k \in read[r].stable \ Delivered(r) : Sort[k] \in read[r].resumed

(* Within a range whose sort keys differ (one partition of a composite key, or
   a table with a single-column key) paging loses no row.                    *)
Unique(S) == \A k, l \in S : Sort[k] = Sort[l] => k = l
PagingComplete ==
    \A r \in Readers :
        (read[r].at = "done" /\ Unique(read[r].query.range)) =>
            read[r].stable \subseteq Delivered(r)

(* Paging comes to an end once the others have stopped inserting, whatever they
   still change or delete: every page moves the cursor on past a table that no
   longer grows (query_pk.rs:110-113).  While rows keep being inserted ahead of
   its cursor a read goes on (query_pk.rs:167-190), for ever if they do: finite
   Keys would hide that, so that they stop is the hypothesis.                 *)
Inserts == \E k \in Keys : rows[k] = NoRow /\ rows'[k] # NoRow
ReadsEnd ==
    <>[][~Inserts]_vars => \A r \in Readers : read[r].at # "idle" ~> read[r].at = "done"

(* scan.rs:40-42 says a scan resumes by "the record id via the last
   primary-key column", a stable key: every row that was there throughout is
   delivered.  The last column of a composite key is not the record id.      *)
ScanComplete ==
    \A r \in Readers : read[r].at = "done" => read[r].stable \subseteq Delivered(r)
=============================================================================
