----------------------------- MODULE SurrealStore -----------------------------
(***************************************************************************)
(* The part of the SurrealDB SDK the driver relies on: rows addressed by   *)
(* record id, single SurrealQL statements, and client transactions with    *)
(* snapshot reads and write-conflict detection at commit.                  *)
(*                                                                         *)
(* The SDK is not part of the repository; it is modelled from the calls in *)
(* src/src/conn.rs (begin, query, commit, cancel, check) and from what     *)
(* src/tests/transactions.rs observes of them.  A row's content is one     *)
(* integer: every property here asks which writes a row has absorbed, not  *)
(* what its columns are.                                                   *)
(***************************************************************************)
EXTENDS Integers

CONSTANTS
    Keys,     \* record ids of one table
    NoRow,    \* "there is no record under this id"
    NoTx,     \* "there is no open client transaction"
    NoPred    \* "no WHERE clause"

ASSUME NoRowAssumption  == NoRow \notin Int
ASSUME NoPredAssumption == NoPred \notin Int

Row    == Int \cup {NoRow}
Rows   == [Keys -> Row]
Pred   == Int \cup {NoPred}
NoRows == [k \in Keys |-> NoRow]

(* What a statement does to one row: leave it, overwrite it, read-modify-write
   it (Add, Subtract and Append all are), or delete it.                      *)
Effect  == [kind : {"keep", "put", "add", "del"}, v : Int]
Keep    == [kind |-> "keep", v |-> 0]
Put(n)  == [kind |-> "put",  v |-> n]
Add(n)  == [kind |-> "add",  v |-> n]
Del     == [kind |-> "del",  v |-> 0]

ApplyEffect(e, row) ==
    CASE e.kind = "keep" -> row
      [] e.kind = "put"  -> e.v
      [] e.kind = "add"  -> IF row = NoRow THEN NoRow ELSE row + e.v
      [] e.kind = "del"  -> NoRow

(* The single effect of performing d and then e on the same row. *)
Compose(d, e) ==
    CASE e.kind = "keep"                      -> d
      [] e.kind = "add" /\ d.kind # "keep"    -> [d EXCEPT !.v = @ + e.v]
      [] OTHER                                -> e

ApplyAll(eff, rows) == [k \in Keys |-> ApplyEffect(eff[k], rows[k])]

-----------------------------------------------------------------------------
(* Statements.  `eff` is what the statement does to a row it finds, `init`
   the content UPSERT creates, `where` the conjuncts of the WHERE clause.
   `build` is how the driver's rendering of the statement ended ("ok", or the
   error its handler returns instead of sending it) and `decode` how decoding
   the rows it returns will end.                                            *)
Verb   == {"SELECT", "SELECT PK", "CREATE", "UPDATE", "UPSERT", "DELETE"}
Coding == {"ok", "unsupported_feature", "serialization_failure", "invalid_statement"}
Statement == [verb : Verb, ids : SUBSET Keys, eff : Effect, init : Int,
              where : SUBSET Pred, build : Coding, decode : Coding]

Hits(s, rows) == {k \in s.ids : rows[k] # NoRow /\ \A p \in s.where : p \in {NoPred, rows[k]}}

(* A CREATE finds its record id taken: the statement fails as a whole. *)
Refused(s, rows) == s.verb = "CREATE" /\ \E k \in s.ids : rows[k] # NoRow

StmtEffect(s, rows) ==
    [k \in Keys |->
        CASE s.verb = "CREATE" /\ k \in s.ids                     -> Put(s.init)
          [] s.verb = "UPSERT" /\ k \in s.ids /\ rows[k] = NoRow  -> Put(s.init)
          [] s.verb \in {"UPSERT", "UPDATE", "DELETE"} /\ k \in Hits(s, rows) -> s.eff
          [] OTHER                                                -> Keep]

(* The rows the statement returns: SELECT and DELETE ... RETURN BEFORE the
   rows as found, the others the rows as left; NoRow for rows not touched.  *)
StmtRows(s, rows) ==
    [k \in Keys |->
        CASE k \notin s.ids                          -> NoRow
          [] s.verb \in {"CREATE", "UPSERT"}         -> ApplyEffect(StmtEffect(s, rows)[k], rows[k])
          [] k \notin Hits(s, rows)                  -> NoRow
          [] s.verb = "SELECT PK"                    -> 0
          [] s.verb = "UPDATE"                       -> ApplyEffect(s.eff, rows[k])
          [] OTHER                                   -> rows[k]]

-----------------------------------------------------------------------------
(* A client transaction: the snapshot it reads from, the effect it has had on
   each row (the write set is where that is not Keep), and the rows other
   sessions have committed since it began.                                  *)
ServerTx == [base : Rows, eff : [Keys -> Effect], stale : SUBSET Keys]

Snapshot == [base : Rows, eff : [Keys -> Effect]]

ASSUME NoTxAssumption == NoTx \notin ServerTx /\ NoTx \notin Snapshot

BeginTx(rows) == [base |-> rows, eff |-> [k \in Keys |-> Keep], stale |-> {}]

TxView(t) == ApplyAll(t.eff, t.base)

Written(eff) == {k \in Keys : eff[k].kind # "keep"}

TxWrite(t, eff) == [t EXCEPT !.eff = [k \in Keys |-> Compose(@[k], eff[k])]]

(* First committer wins: a row written here was committed by someone else. *)
Conflicts(t) == Written(t.eff) \cap t.stale # {}

CommitRows(t, rows) ==
    [k \in Keys |-> IF k \in Written(t.eff) THEN TxView(t)[k] ELSE rows[k]]

(* An open transaction after another session committed the rows `ids`. *)
MarkStale(t, ids) == IF t = NoTx THEN NoTx ELSE [t EXCEPT !.stale = @ \cup ids]

-----------------------------------------------------------------------------
(* What the driver can see of a surrealdb::Error: whether the error or a
   cause carries QueryError::TransactionConflict, and the marker texts its
   Display contains.                                                        *)
ErrorFact      == {"TransactionConflict", "Transaction conflict:", "already exists"}
QueryConflict  == {"TransactionConflict"}
CommitConflict == {"Transaction conflict:"}   \* embedded commit loses the typed detail
RecordExists   == {"already exists"}
OtherError     == {}
=============================================================================
