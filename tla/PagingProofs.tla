----------------------------- MODULE PagingProofs -----------------------------
(***************************************************************************)
(* Theorems about Paging, for any table, any sort keys, any queries and any *)
(* concurrent writes.                                                      *)
(***************************************************************************)
EXTENDS Paging, FiniteSetTheorems, WellFoundedInduction, TLAPS

(* What holds of a read besides its type.  A cursor is the sort key of a row
   that was delivered, and no delivered row comes after it; a row that has
   matched throughout was delivered, shares a cursor, or is still to come.    *)
Ordered(rd) ==
    \A k \in rd.seen, l \in rd.page : Before(rd.query, Sort[k], Sort[l])
Sourced(rd) ==
    /\ rd.seen \cup rd.page \subseteq rd.query.range
    /\ rd.keys \subseteq rd.query.range
    /\ \A c \in rd.resumed : \E k \in rd.seen \cup rd.page : Sort[k] = c
Behind(rd) ==
    rd.at = "paging" =>
        /\ rd.after = {} => rd.seen \cup rd.page = {}
        /\ \A c \in rd.after : \A k \in rd.seen \cup rd.page : ~Before(rd.query, c, Sort[k])
Awaited(rd) ==
    /\ rd.at = "paging" =>
           \A k \in rd.stable : \/ k \in rd.seen \cup rd.page
                                \/ Sort[k] \in rd.resumed
                                \/ Resumes(rd.query, rd.after, k)
    /\ rd.at = "fetch" => rd.stable \subseteq rd.keys
    /\ rd.at = "done" => \A k \in rd.stable \ (rd.seen \cup rd.page) : Sort[k] \in rd.resumed
Fresh(rd) ==
    rd.at \in {"idle", "lookup", "fetch"} => rd.seen = {} /\ rd.page = {} /\ rd.resumed = {}

ReadInv(rd) == Ordered(rd) /\ Sourced(rd) /\ Behind(rd) /\ Awaited(rd) /\ Fresh(rd)

Steady == \A r \in Readers : read[r].at # "idle" => read[r].stable \subseteq Matching(read[r].query)

IInv == TypeOK /\ (\A r \in Readers : ReadInv(read[r])) /\ Steady

-----------------------------------------------------------------------------
(* The order of the sort keys is strict and total. *)

LEMMA BeforeOrder ==
    ASSUME NEW q
    PROVE  /\ \A m \in Int : ~Before(q, m, m)
           /\ \A m, n, p \in Int : Before(q, m, n) /\ Before(q, n, p) => Before(q, m, p)
           /\ \A m, n, p \in Int : Before(q, m, n) /\ ~Before(q, p, n) => Before(q, m, p)
           /\ \A m, n \in Int : ~Before(q, m, n) /\ ~Before(q, n, m) => m = n
  BY DEF Before

(* A cursor is the sort key of a row of the page, no row of the page comes
   after it, and rows left out of the page do not come before it.           *)
LEMMA CursorOfPage ==
    ASSUME NEW q \in Query, NEW rest \in SUBSET Keys, NEW P \in SUBSET rest,
           IsPage(q, rest, P), NEW c \in keyset_cursor(q, P)
    PROVE  /\ c \in Int
           /\ \E k \in P : Sort[k] = c
           /\ \A k \in P : ~Before(q, c, Sort[k])
           /\ \A l \in rest \ P : ~Before(q, Sort[l], c)
  BY KeysAssumption DEF IsPage, keyset_cursor

(* Of finitely many rows one is the last. *)
LEMMA LastRow ==
    ASSUME NEW q \in Query, NEW P \in SUBSET Keys, P # {}
    PROVE  \E k \in P : \A l \in P : ~Before(q, Sort[k], Sort[l])
<1> DEFINE Up(k) == {l \in P : ~Before(q, Sort[l], Sort[k])}
           Ups   == {Up(k) : k \in P}
<1>1. IsFiniteSet(P) /\ FiniteSubsetsOf(P) = SUBSET P
  BY KeysAssumption, FS_Subset, FS_FiniteSubsetsOfFinite
<1>2. IsWellFoundedOn(StrictSubsetOrdering(P), SUBSET P)
  BY <1>1, FS_StrictSubsetOrderingWellFounded
<1>3. Ups \subseteq SUBSET P /\ Ups # {}
  OBVIOUS
<1>4. PICK U \in Ups : \A V \in Ups : <<V, U>> \notin StrictSubsetOrdering(P)
  BY <1>2, <1>3, WFMin
<1>5. PICK k \in P : U = Up(k)
  OBVIOUS
<1>6. ASSUME NEW l \in P, Before(q, Sort[k], Sort[l]) PROVE FALSE
  <2>1. \A j \in P : Sort[j] \in Int
    BY KeysAssumption
  <2>2. Up(l) \subseteq Up(k)
    BY <1>6, <2>1, BeforeOrder
  <2>3. k \in Up(k) /\ k \notin Up(l)
    BY <1>6, <2>1, BeforeOrder
  <2>4. <<Up(l), Up(k)>> \in StrictSubsetOrdering(P)
    BY <2>2, <2>3 DEF StrictSubsetOrdering
  <2> QED BY <1>4, <1>5, <2>4
<1> QED BY <1>6

(* Only a short page has no cursor, and a short page holds all that is left. *)
LEMMA NoCursor ==
    ASSUME NEW q \in Query, NEW rest \in SUBSET Keys, NEW P \in SUBSET rest,
           IsPage(q, rest, P), keyset_cursor(q, P) = {}
    PROVE  P = rest
<1>1. CASE Cardinality(P) < q.page_size
  BY <1>1 DEF IsPage
<1>2. CASE ~(Cardinality(P) < q.page_size)
  <2>1. P # {}
    BY <1>2, FS_EmptySet DEF Query
  <2>2. PICK k \in P : \A l \in P : ~Before(q, Sort[k], Sort[l])
    BY <2>1, LastRow
  <2> QED BY <1>2, <2>2 DEF keyset_cursor
<1> QED BY <1>1, <1>2

-----------------------------------------------------------------------------
(* The rows as the statement of a read sees them have the type of a table. *)

LEMMA ReadTyped ==
    ASSUME TypeOK, NEW r \in Readers
    PROVE  /\ read[r] \in Read
           /\ read[r].query \in Query
           /\ Matching(read[r].query) \subseteq read[r].query.range
           /\ Matching(read[r].query) \subseteq Keys
           /\ Remaining(read[r].query, read[r].after) \subseteq Matching(read[r].query)
  BY QueryAssumption DEF TypeOK, Read, Query, Matching, Remaining

LEMMA InitInv == ASSUME Init PROVE IInv
<1>1. TypeOK
  BY DEF Init, TypeOK, Read, NewRead
<1>2. ASSUME NEW r \in Readers PROVE ReadInv(read[r]) /\ read[r].at = "idle"
  <2>1. PICK q \in Queries : read[r] = NewRead("idle", q, {})
    BY DEF Init
  <2> QED BY <2>1 DEF NewRead, ReadInv, Ordered, Sourced, Behind, Awaited, Fresh
<1> QED BY <1>1, <1>2 DEF IInv, Steady

(* A read begins with nothing delivered and everything that matches awaited. *)
LEMMA BeginInv ==
    ASSUME IInv, NEW r \in Readers, NEW q \in Queries, NEW place \in {"paging", "lookup"},
           Begin(r, q, place)
    PROVE  IInv'
<1> DEFINE rd == NewRead(place, q, Matching(q))
<1>0. q \in Query /\ Matching(q) \subseteq Keys
  <2>1. q \in Query
    BY QueryAssumption
  <2> QED BY <2>1 DEF Query, Matching
<1>1. rd = [at |-> place, query |-> q, after |-> {}, page |-> {}, keys |-> {},
            seen |-> {}, resumed |-> {}, stable |-> Matching(q)]
  BY DEF NewRead
<1>2. rd \in Read
  BY <1>0, <1>1 DEF Read
<1>3. ReadInv(rd)
  BY <1>0, <1>1 DEF ReadInv, Ordered, Sourced, Behind, Awaited, Fresh, Resumes
<1>4. read \in [Readers -> Read] /\ read' = [read EXCEPT ![r] = rd] /\ rows' = rows
  BY DEF Begin, IInv, TypeOK
<1> HIDE DEF rd
<1>5. read' \in [Readers -> Read] /\ \A s \in Readers : read'[s] = IF s = r THEN rd ELSE read[s]
  BY <1>2, <1>4
<1>6. TypeOK'
  BY <1>4, <1>5 DEF IInv, TypeOK
<1>7. \A s \in Readers : ReadInv(read'[s])
  BY <1>3, <1>5 DEF IInv
<1>8. ASSUME NEW s \in Readers, read'[s].at # "idle"
      PROVE  (read[s].stable \subseteq Matching(read[s].query))'
  <2>1. CASE s = r
    BY <2>1, <1>1, <1>4, <1>5 DEF Matching
  <2>2. CASE s # r
    BY <2>2, <1>4, <1>5, <1>8 DEF IInv, Steady, Matching
  <2> QED BY <2>1, <2>2
<1> QED BY <1>6, <1>7, <1>8 DEF IInv, Steady

(* What a page changes in a read. *)
LEMMA PageRead ==
    ASSUME NEW rd \in Read, NEW C \in SUBSET Int, NEW P \in SUBSET Keys
    PROVE  /\ Answered(rd, P, C) \in Read
           /\ Answered(rd, P, C).at = IF C = {} THEN "done" ELSE "paging"
           /\ Answered(rd, P, C).query = rd.query /\ Answered(rd, P, C).after = C
           /\ Answered(rd, P, C).page = P /\ Answered(rd, P, C).keys = rd.keys
           /\ Answered(rd, P, C).seen = rd.seen \cup rd.page
           /\ Answered(rd, P, C).resumed = rd.resumed \cup C
           /\ Answered(rd, P, C).stable = rd.stable
<1> DEFINE place == IF C = {} THEN "done" ELSE "paging"
           T     == rd.seen \cup rd.page
           U     == rd.resumed \cup C
           nrd   == [rd EXCEPT !.at = place, !.after = C, !.page = P, !.seen = T, !.resumed = U]
<1>1. place \in {"paging", "done"} /\ T \in SUBSET Keys /\ U \in SUBSET Int
  BY DEF Read
<1>2. Answered(rd, P, C) = nrd
  BY DEF Answered
<1> HIDE DEF place, T, U
<1>3. nrd \in Read
  BY <1>1 DEF Read
<1>4. /\ nrd.at = place /\ nrd.query = rd.query /\ nrd.after = C /\ nrd.page = P
      /\ nrd.keys = rd.keys /\ nrd.seen = T /\ nrd.resumed = U /\ nrd.stable = rd.stable
  BY <1>1 DEF Read
<1> HIDE DEF nrd
<1> QED BY <1>2, <1>3, <1>4 DEF place, T, U

(* A page: the rows left out of a full page share its cursor or come after it,
   and a short page leaves nothing out.                                      *)
LEMMA PageInv ==
    ASSUME IInv, NEW r \in Readers, run_keyset_select(r)
    PROVE  IInv'
<1> DEFINE rd   == read[r]
           q    == rd.query
           rest == Remaining(q, rd.after)
<1>1. /\ rd \in Read /\ q \in Query /\ rest \subseteq Keys /\ rest \subseteq q.range
      /\ rd.stable \subseteq Matching(q) /\ rd.at = "paging" /\ ReadInv(rd)
  BY ReadTyped DEF IInv, Steady, run_keyset_select
<1>2. PICK P \in SUBSET rest :
         /\ IsPage(q, rest, P)
         /\ read' = [read EXCEPT ![r] = Answered(rd, P, keyset_cursor(q, P))]
         /\ rows' = rows
  BY DEF run_keyset_select
<1> DEFINE C == keyset_cursor(q, P)
           nrd == Answered(rd, P, C)
<1>3. \A c \in C : /\ c \in Int
                   /\ \E k \in P : Sort[k] = c
                   /\ \A k \in P : ~Before(q, c, Sort[k])
                   /\ \A l \in rest \ P : ~Before(q, Sort[l], c)
  BY <1>1, <1>2, CursorOfPage
<1>4. C = {} => P = rest
  BY <1>1, <1>2, NoCursor
<1>5. read \in [Readers -> Read]
  BY DEF IInv, TypeOK
<1>6. read' = [read EXCEPT ![r] = nrd]
  BY <1>2
<1>7. /\ nrd \in Read
      /\ nrd.at = IF C = {} THEN "done" ELSE "paging"
      /\ nrd.query = q /\ nrd.after = C /\ nrd.page = P /\ nrd.keys = rd.keys
      /\ nrd.seen = rd.seen \cup rd.page /\ nrd.resumed = rd.resumed \cup C
      /\ nrd.stable = rd.stable
  <2>1. C \in SUBSET Int /\ rd \in Read /\ P \in SUBSET Keys
    BY <1>1, <1>3
  <2> HIDE DEF C, rd
  <2> QED BY <2>1, PageRead
<1> HIDE DEF nrd
<1>8. \A k \in Keys : Sort[k] \in Int
  BY KeysAssumption
<1>9. /\ rd.seen \subseteq Keys /\ rd.page \subseteq Keys /\ rd.stable \subseteq Keys
      /\ rd.after \subseteq Int /\ P \subseteq Keys
  BY <1>1 DEF Read
<1>10. \A k \in P : Resumes(q, rd.after, k)
  BY DEF Remaining
<1>11. \A k \in rd.seen \cup rd.page, l \in P : Before(q, Sort[k], Sort[l])
  <2> SUFFICES ASSUME NEW k \in rd.seen \cup rd.page, NEW l \in P
               PROVE  Before(q, Sort[k], Sort[l])
    OBVIOUS
  <2>1. PICK c \in rd.after : ~Before(q, c, Sort[k])
    BY <1>1 DEF ReadInv, Behind
  <2>2. Before(q, c, Sort[l])
    BY <1>10 DEF Resumes
  <2>3. c \in Int /\ Sort[k] \in Int /\ Sort[l] \in Int
    BY <1>8, <1>9
  <2> QED BY <2>1, <2>2, <2>3 DEF Before
<1>12. Ordered(nrd)
  BY <1>7, <1>11 DEF Ordered
<1>13. Sourced(nrd)
  <2>1. nrd.seen \cup nrd.page \subseteq q.range /\ nrd.keys \subseteq q.range
    BY <1>1, <1>7 DEF ReadInv, Sourced
  <2>2. \A c \in rd.resumed \cup C : \E k \in rd.seen \cup rd.page \cup P : Sort[k] = c
    BY <1>1, <1>3 DEF ReadInv, Sourced
  <2> QED BY <1>7, <2>1, <2>2 DEF Sourced
<1>14. Behind(nrd)
  <2> SUFFICES ASSUME C # {}, NEW c \in C, NEW k \in rd.seen \cup rd.page \cup P
               PROVE  ~Before(q, c, Sort[k])
    BY <1>7 DEF Behind
  <2>1. CASE k \in P
    BY <2>1, <1>3
  <2>2. CASE k \in rd.seen \cup rd.page
    <3>1. PICK l \in P : Sort[l] = c
      BY <1>3
    <3>2. Before(q, Sort[k], c)
      BY <2>2, <1>11, <3>1
    <3>3. Sort[k] \in Int /\ c \in Int
      BY <2>2, <1>3, <1>8, <1>9
    <3> QED BY <3>2, <3>3 DEF Before
  <2> QED BY <2>1, <2>2
<1>15. Awaited(nrd)
  <2> SUFFICES ASSUME NEW k \in rd.stable, k \notin rd.seen \cup rd.page \cup P,
                      Sort[k] \notin rd.resumed \cup C
               PROVE  C # {} /\ Resumes(q, C, k)
    BY <1>7 DEF Awaited
  <2>1. Resumes(q, rd.after, k)
    BY <1>1 DEF ReadInv, Awaited
  <2>2. k \in rest \ P
    BY <2>1, <1>1 DEF Remaining
  <2>3. C # {}
    BY <2>2, <1>4
  <2>4. ASSUME NEW c \in C PROVE Before(q, c, Sort[k])
    <3>1. ~Before(q, Sort[k], c) /\ c \in Int /\ Sort[k] \in Int /\ Sort[k] # c
      BY <1>3, <1>8, <1>9, <2>2
    <3> QED BY <3>1, BeforeOrder
  <2> QED BY <2>3, <2>4 DEF Resumes
<1>16. Fresh(nrd)
  BY <1>7 DEF Fresh
<1>17. \A s \in Readers : read'[s] = IF s = r THEN nrd ELSE read[s]
  BY <1>5, <1>6
<1>19. TypeOK'
  BY <1>2, <1>5, <1>6, <1>7 DEF IInv, TypeOK
<1>20. \A s \in Readers : ReadInv(read'[s])
  BY <1>12, <1>13, <1>14, <1>15, <1>16, <1>17 DEF IInv, ReadInv
<1>21. Steady'
  BY <1>1, <1>2, <1>7, <1>17 DEF IInv, Steady, Matching
<1> QED BY <1>19, <1>20, <1>21 DEF IInv

(* The two statements of an index lookup: a row that has matched throughout is
   among the keys found, and has a row when the keys are fetched.             *)
LEMMA LookupInv ==
    ASSUME IInv, NEW r \in Readers, exec_find_pk_by_index(r)
    PROVE  IInv'
<1> DEFINE rd  == read[r]
           nrd == [rd EXCEPT !.at = "fetch", !.keys = Matching(rd.query)]
<1>1. /\ rd \in Read /\ rd.query \in Query /\ Matching(rd.query) \subseteq rd.query.range
      /\ Matching(rd.query) \subseteq Keys
      /\ rd.stable \subseteq Matching(rd.query) /\ rd.at = "lookup" /\ ReadInv(rd)
  BY ReadTyped DEF IInv, Steady, exec_find_pk_by_index
<1>2. read' = [read EXCEPT ![r] = nrd] /\ rows' = rows /\ read \in [Readers -> Read]
  BY DEF exec_find_pk_by_index, IInv, TypeOK
<1>3. nrd \in Read
  BY <1>1 DEF Read
<1>4. /\ nrd.at = "fetch" /\ nrd.keys = Matching(rd.query) /\ nrd.query = rd.query
      /\ nrd.stable = rd.stable /\ nrd.seen = rd.seen /\ nrd.page = rd.page
      /\ nrd.resumed = rd.resumed
  BY <1>1 DEF Read
<1> HIDE DEF nrd
<1>5. ReadInv(nrd)
  BY <1>1, <1>4 DEF ReadInv, Ordered, Sourced, Behind, Awaited, Fresh
<1>6. \A s \in Readers : read'[s] = IF s = r THEN nrd ELSE read[s]
  BY <1>2
<1>7. TypeOK'
  BY <1>2, <1>3 DEF IInv, TypeOK
<1>8. Steady'
  BY <1>1, <1>2, <1>4, <1>6 DEF IInv, Steady, Matching
<1> QED BY <1>5, <1>6, <1>7, <1>8 DEF IInv

LEMMA FetchInv ==
    ASSUME IInv, NEW r \in Readers, exec_get_by_key(r)
    PROVE  IInv'
<1> DEFINE rd  == read[r]
           got == {k \in rd.keys : rows[k] # NoRow}
           nrd == [rd EXCEPT !.at = "done", !.page = got]
<1>1. /\ rd \in Read /\ rd.query \in Query
      /\ rd.stable \subseteq Matching(rd.query) /\ rd.at = "fetch" /\ ReadInv(rd)
  BY ReadTyped DEF IInv, Steady, exec_get_by_key
<1>2. read' = [read EXCEPT ![r] = nrd] /\ rows' = rows /\ read \in [Readers -> Read]
  BY DEF exec_get_by_key, IInv, TypeOK
<1>3. nrd \in Read
  BY <1>1 DEF Read
<1>4. /\ nrd.at = "done" /\ nrd.keys = rd.keys /\ nrd.query = rd.query
      /\ nrd.stable = rd.stable /\ nrd.seen = rd.seen /\ nrd.page = got
      /\ nrd.resumed = rd.resumed
  BY <1>1 DEF Read
<1>5. rd.stable \subseteq got
  <2>1. rd.stable \subseteq rd.keys
    BY <1>1 DEF ReadInv, Awaited
  <2>2. \A k \in Matching(rd.query) : rows[k] # NoRow
    BY <1>1, RowsAssumption DEF Matching, Query
  <2> QED BY <1>1, <2>1, <2>2
<1>6. got \subseteq rd.query.range /\ rd.seen = {} /\ rd.resumed = {}
  BY <1>1 DEF ReadInv, Sourced, Fresh
<1> HIDE DEF nrd, got
<1>7. ReadInv(nrd)
  BY <1>1, <1>4, <1>5, <1>6 DEF ReadInv, Ordered, Sourced, Behind, Awaited, Fresh
<1>8. \A s \in Readers : read'[s] = IF s = r THEN nrd ELSE read[s]
  BY <1>2
<1>9. TypeOK'
  BY <1>2, <1>3 DEF IInv, TypeOK
<1>10. Steady'
  BY <1>1, <1>2, <1>4, <1>8 DEF IInv, Steady, Matching
<1> QED BY <1>7, <1>8, <1>9, <1>10 DEF IInv

(* A write only takes from what has matched throughout. *)
LEMMA WriteInv ==
    ASSUME IInv, NEW k \in Keys, NEW v \in Values \cup {NoRow}, Write(k, v)
    PROVE  IInv'
<1>1. /\ rows \in [Keys -> Values \cup {NoRow}] /\ rows' = [rows EXCEPT ![k] = v]
      /\ read \in [Readers -> Read]
  BY DEF IInv, TypeOK, Write
<1>2. ASSUME NEW s \in Readers
      PROVE  /\ read'[s] \in Read /\ ReadInv(read'[s])
             /\ (read[s].at # "idle" => read[s].stable \subseteq Matching(read[s].query))'
  <2> DEFINE rd == read[s]
             S  == IF v \in rd.query.wanted THEN rd.stable ELSE rd.stable \ {k}
  <2>1. read'[s] = IF v \in rd.query.wanted THEN rd ELSE [rd EXCEPT !.stable = @ \ {k}]
    BY DEF Write
  <2>2. rd \in Read /\ ReadInv(rd) /\ (rd.at # "idle" => rd.stable \subseteq Matching(rd.query))
    BY <1>1 DEF IInv, Steady
  <2>3. /\ read'[s] \in Read
        /\ read'[s].at = rd.at /\ read'[s].query = rd.query /\ read'[s].after = rd.after
        /\ read'[s].page = rd.page /\ read'[s].keys = rd.keys /\ read'[s].seen = rd.seen
        /\ read'[s].resumed = rd.resumed /\ read'[s].stable = S
    BY <2>1, <2>2 DEF Read
  <2>4. S \subseteq rd.stable
    OBVIOUS
  <2>5. ReadInv(read'[s])
    BY <2>2, <2>3, <2>4 DEF ReadInv, Ordered, Sourced, Behind, Awaited, Fresh
  <2>6. ASSUME rd.at # "idle", NEW l \in S
        PROVE  l \in rd.query.range /\ rows'[l] \in rd.query.wanted
    <3>1. l \in rd.query.range /\ l \in Keys /\ rows[l] \in rd.query.wanted
      BY <2>2, <2>4, <2>6 DEF Matching, Read
    <3> QED BY <1>1, <3>1
  <2> QED BY <2>3, <2>5, <2>6 DEF Matching
<1>3. TypeOK'
  <2>1. rows' \in [Keys -> Values \cup {NoRow}]
    BY <1>1
  <2>2. read' \in [Readers -> Read]
    BY <1>2 DEF Write
  <2> QED BY <2>1, <2>2 DEF TypeOK
<1> QED BY <1>2, <1>3 DEF IInv, Steady

-----------------------------------------------------------------------------
THEOREM Inductive == Spec => []IInv
<1>1. Init => IInv
  BY InitInv
<1>2. IInv /\ [Next]_vars => IInv'
  <2> SUFFICES ASSUME IInv, [Next]_vars PROVE IInv'
    OBVIOUS
  <2>1. CASE UNCHANGED vars
    BY <2>1 DEF vars, IInv, TypeOK, Steady, Matching
  <2>2. ASSUME NEW r \in Readers, BeginPaging(r) PROVE IInv'
    BY <2>2, BeginInv DEF BeginPaging
  <2>3. ASSUME NEW r \in Readers, BeginLookup(r) PROVE IInv'
    BY <2>3, BeginInv DEF BeginLookup
  <2>4. ASSUME NEW r \in Readers, Advance(r) PROVE IInv'
    BY <2>4, PageInv, LookupInv, FetchInv DEF Advance
  <2>5. ASSUME NEW k \in Keys, NEW v \in Values \cup {NoRow}, Write(k, v) PROVE IInv'
    BY <2>5, WriteInv
  <2> QED BY <2>1, <2>2, <2>3, <2>4, <2>5 DEF Next
<1> QED BY <1>1, <1>2, PTL DEF Spec

(* Type correctness: in particular a cursor is a sort key. *)
THEOREM Typed == Spec => []TypeOK
<1>1. IInv => TypeOK
  BY DEF IInv
<1> QED BY <1>1, Inductive, PTL

(* The pages of a read are disjoint and in order, whatever is written between
   them and whether or not rows share a sort key.                            *)
THEOREM InOrder == Spec => []PagesInOrder
<1>1. IInv => PagesInOrder
  BY DEF IInv, ReadInv, Ordered, PagesInOrder
<1> QED BY <1>1, Inductive, PTL

(* All that a read can miss are rows that share a cursor; a lookup misses none. *)
THEOREM Ties == Spec => []OnlyTiesLost
<1>1. IInv => OnlyTiesLost
  BY DEF IInv, ReadInv, Awaited, OnlyTiesLost, Delivered
<1> QED BY <1>1, Inductive, PTL

(* Where sort keys differ, every row that matched throughout is delivered. *)
THEOREM Complete == Spec => []PagingComplete
<1>1. ASSUME IInv PROVE PagingComplete
  <2> SUFFICES ASSUME NEW r \in Readers, read[r].at = "done", Unique(read[r].query.range),
                      NEW k \in read[r].stable, k \notin Delivered(r)
               PROVE  FALSE
    BY DEF PagingComplete
  <2>1. Sort[k] \in read[r].resumed
    BY <1>1 DEF IInv, ReadInv, Awaited, Delivered
  <2>2. PICK l \in Delivered(r) : Sort[l] = Sort[k]
    BY <1>1, <2>1 DEF IInv, ReadInv, Sourced, Delivered
  <2>3. k \in read[r].query.range /\ l \in read[r].query.range
    BY <1>1 DEF IInv, ReadInv, Sourced, Steady, Matching, Delivered
  <2> QED BY <2>2, <2>3 DEF Unique
<1> QED BY <1>1, Inductive, PTL
=============================================================================
