------------------------------ MODULE Connection ------------------------------
(***************************************************************************)
(* The driver's Connection (src/src/conn.rs) and its operation handlers    *)
(* (src/src/op), for several connections of one pool over one database.    *)
(*                                                                         *)
(* An operation is a call step, which is the handler up to its first       *)
(* await, and completion steps, each the resolution of one await and the   *)
(* code up to the next one or to the return.  `exec` takes &mut self, so a *)
(* connection has at most one call in flight; calls of different           *)
(* connections interleave at every await.                                  *)
(***************************************************************************)
EXTENDS SurrealStore, Sequences

CONSTANTS
    Conns,      \* connections of the pool
    Starts,     \* the Transaction::Start operations the engine may send
    Inserts,    \* ... Insert, also wrapped in QuerySql
    Updates,    \* ... UpdateByKey
    Deletes,    \* ... DeleteByKey
    Upserts,    \* ... Upsert
    Gets,       \* ... GetByKey
    Queries,    \* ... QueryPk, FindPkByIndex and Scan, without pagination
    MaxCalls,   \* bound: operations sent, all connections together
    MaxFaults   \* bound: injected failures and lost answers

StartOp  == [isolation : BOOLEAN, mode : {"Default", "Other"}, read_only : BOOLEAN]
InsertOp == Seq([key : Keys, v : Int, build : Coding, decode : Coding])
UpdateOp == [keys : SUBSET Keys, assignment : Effect, filter : Pred, condition : Pred,
             build : Coding, decode : Coding]
DeleteOp == [keys : SUBSET Keys, filter : Pred, condition : Pred, build : Coding]
UpsertOp == [key : Keys, v : Int, shared : Effect, action : {"Update", "Ignore"},
             build : Coding, decode : Coding]
GetOp    == [keys : SUBSET Keys, build : Coding, decode : Coding]
QueryOp  == [filter : Pred, build : Coding, decode : Coding]

ASSUME OperationsAssumption ==
    /\ Starts \subseteq StartOp    /\ Inserts \subseteq InsertOp
    /\ Updates \subseteq UpdateOp  /\ Deletes \subseteq DeleteOp
    /\ Upserts \subseteq UpsertOp  /\ Gets \subseteq GetOp
    /\ Queries \subseteq QueryOp
ASSUME BoundsAssumption == MaxCalls \in Nat /\ MaxFaults \in Nat

VARIABLES
    store,        \* the committed rows
    srv,          \* srv[c]: the SDK transaction c's handle refers to, or NoTx
    transaction,  \* transaction[c]: Connection.transaction.is_some()
    read_only,    \* read_only[c]: Connection.read_only
    pend,         \* pend[c]: what the call in flight on c awaits
    reply,        \* reply[c]: the result of the last call that returned
    calls,        \* operations sent so far
    faults        \* failures injected so far

data == <<store, srv>>
conn == <<transaction, read_only>>
vars == <<store, srv, transaction, read_only, pend, reply, calls, faults>>

Status  == Coding \cup {"read_only_transaction", "condition_failed", "driver_operation_failed"}
Reply   == [status : Status, rows : Rows]
Waiting == {"idle", "begin", "commit", "cancel", "query"}
(* `todo`: statements still to send; `got`: rows returned by those already
   answered; `condition`, `ignore`: UpdateByKey/DeleteByKey had a condition,
   Upsert's action is Ignore; `read_only`: of the Start being executed.     *)
Pend    == [await : Waiting, todo : Seq(Statement), got : Rows,
            condition : BOOLEAN, ignore : BOOLEAN, read_only : BOOLEAN]
Idle    == [await |-> "idle", todo |-> << >>, got |-> NoRows,
            condition |-> FALSE, ignore |-> FALSE, read_only |-> FALSE]

-----------------------------------------------------------------------------
(* Classification of SDK errors. *)

is_transaction_conflict(facts) == "TransactionConflict" \in facts

(* Mutants: only the typed error counts; anything unknown counts as a conflict. *)
ClassifyTypedOnly(facts) ==
    IF is_transaction_conflict(facts) THEN "serialization_failure"
    ELSE IF "already exists" \in facts THEN "condition_failed"
    ELSE "driver_operation_failed"
ClassifyRetryable(facts) ==
    IF "already exists" \in facts THEN "condition_failed" ELSE "serialization_failure"

classify_error(facts) ==
    IF is_transaction_conflict(facts) \/ "Transaction conflict:" \in facts
    THEN "serialization_failure"
    ELSE IF "already exists" \in facts THEN "condition_failed"
    ELSE "driver_operation_failed"

(* upsert.rs looks for the text, not for the error kind. *)
is_conflict(facts) == "already exists" \in facts

-----------------------------------------------------------------------------
(* The statements the handlers render. *)

CreateStmt(row) ==
    [verb |-> "CREATE", ids |-> {row.key}, eff |-> Keep, init |-> row.v, where |-> {},
     build |-> row.build, decode |-> row.decode]

exec_insert_stmts(rows) == [i \in 1..Len(rows) |-> CreateStmt(rows[i])]

UpdateStmt(op) ==
    [verb |-> "UPDATE", ids |-> op.keys, eff |-> op.assignment, init |-> 0,
     where |-> {op.filter, op.condition}, build |-> op.build, decode |-> op.decode]

DeleteStmt(op) ==
    [verb |-> "DELETE", ids |-> op.keys, eff |-> Del, init |-> 0,
     where |-> {op.filter, op.condition}, build |-> op.build, decode |-> "ok"]

UpsertStmt(op) ==
    IF op.action = "Update"
    THEN [verb |-> "UPSERT", ids |-> {op.key}, eff |-> op.shared, init |-> op.v, where |-> {},
          build |-> op.build, decode |-> op.decode]
    ELSE [verb |-> "CREATE", ids |-> {op.key}, eff |-> Keep, init |-> op.v, where |-> {},
          build |-> op.build, decode |-> op.decode]

GetStmt(op) ==
    [verb |-> "SELECT", ids |-> op.keys, eff |-> Keep, init |-> 0, where |-> {},
     build |-> op.build, decode |-> op.decode]

FilterStmt(verb, op) ==
    [verb |-> verb, ids |-> Keys, eff |-> Keep, init |-> 0, where |-> {op.filter},
     build |-> op.build, decode |-> op.decode]

-----------------------------------------------------------------------------
Init ==
    /\ store = NoRows
    /\ srv = [c \in Conns |-> NoTx]
    /\ transaction = [c \in Conns |-> FALSE]
    /\ read_only = [c \in Conns |-> FALSE]
    /\ pend = [c \in Conns |-> Idle]
    /\ reply = [c \in Conns |-> [status |-> "ok", rows |-> NoRows]]
    /\ calls = 0
    /\ faults = 0

(* The engine sends an operation on an idle connection. *)
Call(c) ==
    /\ pend[c].await = "idle"
    /\ calls < MaxCalls
    /\ calls' = calls + 1
    /\ UNCHANGED <<data, faults>>

(* The call returns. *)
Return(c, status, rows) ==
    /\ pend' = [pend EXCEPT ![c] = Idle]
    /\ reply' = [reply EXCEPT ![c] = [status |-> status, rows |-> rows]]

(* The handler returns before its first await. *)
Refuse(c, status) ==
    /\ Call(c)
    /\ Return(c, status, NoRows)
    /\ UNCHANGED conn

(* The handler reaches its first await. *)
Suspend(c, p) ==
    /\ Call(c)
    /\ pend' = [pend EXCEPT ![c] = p]
    /\ UNCHANGED reply

Query(c, stmts, condition, ignore) ==
    /\ Suspend(c, [Idle EXCEPT !.await = "query", !.todo = stmts,
                               !.condition = condition, !.ignore = ignore])
    /\ UNCHANGED conn

ensure_writable(c) == ~read_only[c]

-----------------------------------------------------------------------------
(* Connection::exec: one action per operation, up to its first await. *)

WriteRefused(c) ==
    /\ ~ensure_writable(c)
    /\ Refuse(c, "read_only_transaction")

Insert(c, rows) ==
    /\ ensure_writable(c)
    /\ IF rows = << >> THEN Refuse(c, "ok")
       ELSE Query(c, exec_insert_stmts(rows), FALSE, FALSE)

ExactlyOne(keys) == \E k \in keys : keys = {k}

UpdateByKey(c, op) ==
    /\ ensure_writable(c)
    /\ IF ExactlyOne(op.keys)
       THEN Query(c, <<UpdateStmt(op)>>, op.condition # NoPred, FALSE)
       ELSE Refuse(c, "invalid_statement")

(* Mutant: ensure_writable is forgotten. *)
DeleteByKeyUnchecked(c, op) ==
    IF ExactlyOne(op.keys)
    THEN Query(c, <<DeleteStmt(op)>>, op.condition # NoPred, FALSE)
    ELSE Refuse(c, "invalid_statement")

DeleteByKey(c, op) ==
    /\ ensure_writable(c)
    /\ IF ExactlyOne(op.keys)
       THEN Query(c, <<DeleteStmt(op)>>, op.condition # NoPred, FALSE)
       ELSE Refuse(c, "invalid_statement")

Upsert(c, op) ==
    /\ ensure_writable(c)
    /\ Query(c, <<UpsertStmt(op)>>, FALSE, op.action = "Ignore")

GetByKey(c, op) ==
    IF op.keys = {} THEN Refuse(c, "ok")
    ELSE Query(c, <<GetStmt(op)>>, FALSE, FALSE)

(* QueryPk and Scan return whole rows, FindPkByIndex only the keys. *)
QueryPkOrScan(c, op) == Query(c, <<FilterStmt("SELECT", op)>>, FALSE, FALSE)
FindPkByIndex(c, op) == Query(c, <<FilterStmt("SELECT PK", op)>>, FALSE, FALSE)

(* RawSql, QuerySql of anything but an insert, and the savepoint operations. *)
Unsupported(c) == Refuse(c, "unsupported_feature")

-----------------------------------------------------------------------------
(* Connection::exec_transaction, up to begin(), commit() or cancel(). *)

(* Mutant: a second Start is not refused. *)
StartUnguarded(c, op) ==
    IF op.isolation \/ op.mode # "Default" THEN Refuse(c, "unsupported_feature")
    ELSE /\ Suspend(c, [Idle EXCEPT !.await = "begin", !.read_only = op.read_only])
         /\ UNCHANGED conn

Start(c, op) ==
    IF op.isolation \/ op.mode # "Default" THEN Refuse(c, "unsupported_feature")
    ELSE IF transaction[c] THEN Refuse(c, "invalid_statement")
    ELSE /\ Suspend(c, [Idle EXCEPT !.await = "begin", !.read_only = op.read_only])
         /\ UNCHANGED conn

(* Mutants: the handle is cloned instead of taken; the flag is not reset. *)
TakeCloned(c, await) ==
    IF ~transaction[c] THEN Refuse(c, "invalid_statement")
    ELSE /\ Suspend(c, [Idle EXCEPT !.await = await])
         /\ read_only' = [read_only EXCEPT ![c] = FALSE]
         /\ UNCHANGED transaction
TakeOnly(c, await) ==
    IF ~transaction[c] THEN Refuse(c, "invalid_statement")
    ELSE /\ Suspend(c, [Idle EXCEPT !.await = await])
         /\ transaction' = [transaction EXCEPT ![c] = FALSE]
         /\ UNCHANGED read_only

(* Option::take: the handle is moved into the call that consumes it. *)
Take(c, await) ==
    IF ~transaction[c] THEN Refuse(c, "invalid_statement")
    ELSE /\ Suspend(c, [Idle EXCEPT !.await = await])
         /\ transaction' = [transaction EXCEPT ![c] = FALSE]
         /\ read_only' = [read_only EXCEPT ![c] = FALSE]

Commit(c)   == Take(c, "commit")
Rollback(c) == Take(c, "cancel")

-----------------------------------------------------------------------------
(* Completions.  `faults` pays for failures of the store or of the link. *)

Fault == faults < MaxFaults /\ faults' = faults + 1

Resolve(c, await) ==
    /\ pend[c].await = await
    /\ UNCHANGED calls

BeginOk(c) ==
    /\ Resolve(c, "begin")
    /\ srv' = [srv EXCEPT ![c] = BeginTx(store)]
    /\ transaction' = [transaction EXCEPT ![c] = TRUE]
    /\ read_only' = [read_only EXCEPT ![c] = pend[c].read_only]
    /\ Return(c, "ok", NoRows)
    /\ UNCHANGED <<store, faults>>

(* begin() failed, or its answer was lost: no handle refers to a transaction. *)
BeginFails(c) ==
    /\ Resolve(c, "begin")
    /\ Fault
    /\ Return(c, classify_error(OtherError), NoRows)
    /\ UNCHANGED <<data, conn>>

(* The transaction of c is published; open transactions elsewhere learn that
   its rows have moved on.                                                  *)
Publish(c) ==
    /\ store' = CommitRows(srv[c], store)
    /\ srv' = [d \in Conns |-> IF d = c THEN NoTx ELSE MarkStale(srv[d], Written(srv[c].eff))]

Discard(c) ==
    /\ srv' = [srv EXCEPT ![c] = NoTx]
    /\ UNCHANGED store

CommitOk(c) ==
    /\ Resolve(c, "commit")
    /\ ~Conflicts(srv[c])
    /\ Publish(c)
    /\ Return(c, "ok", NoRows)
    /\ UNCHANGED <<conn, faults>>

CommitConflicts(c) ==
    /\ Resolve(c, "commit")
    /\ Conflicts(srv[c])
    /\ Discard(c)
    /\ Return(c, classify_error(CommitConflict), NoRows)
    /\ UNCHANGED <<conn, faults>>

CommitFails(c) ==
    /\ Resolve(c, "commit")
    /\ Fault
    /\ Discard(c)
    /\ Return(c, classify_error(OtherError), NoRows)
    /\ UNCHANGED conn

(* The store commits but the answer does not arrive. *)
CommitAnswerLost(c) ==
    /\ Resolve(c, "commit")
    /\ ~Conflicts(srv[c])
    /\ Fault
    /\ Publish(c)
    /\ Return(c, classify_error(OtherError), NoRows)
    /\ UNCHANGED conn

CancelOk(c) ==
    /\ Resolve(c, "cancel")
    /\ Discard(c)
    /\ Return(c, "ok", NoRows)
    /\ UNCHANGED <<conn, faults>>

(* cancel() failed: the handle is gone, so the transaction can never commit. *)
CancelFails(c) ==
    /\ Resolve(c, "cancel")
    /\ Fault
    /\ Discard(c)
    /\ Return(c, classify_error(OtherError), NoRows)
    /\ UNCHANGED conn

-----------------------------------------------------------------------------
(* Statements.  run_query sends each one through the transaction when the
   connection has one, else to the database, where it commits by itself.    *)

View(c) == IF transaction[c] THEN TxView(srv[c]) ELSE store

(* Mutant: every statement goes to the database. *)
run_on_db(c, s) ==
    LET eff == StmtEffect(s, View(c)) IN
    /\ store' = ApplyAll(eff, store)
    /\ srv' = [d \in Conns |-> MarkStale(srv[d], Written(eff))]

run_query(c, s) ==
    LET eff == StmtEffect(s, View(c)) IN
    IF transaction[c]
    THEN /\ srv' = [srv EXCEPT ![c] = TxWrite(@, eff)]
         /\ UNCHANGED store
    ELSE /\ store' = ApplyAll(eff, store)
         /\ srv' = [d \in Conns |-> MarkStale(srv[d], Written(eff))]

Stmt(c) == Head(pend[c].todo)

(* Rendering the next statement fails; the ones sent before it stand. *)
BuildFails(c) ==
    /\ Resolve(c, "query")
    /\ Stmt(c).build # "ok"
    /\ Return(c, Stmt(c).build, NoRows)
    /\ UNCHANGED <<data, conn, faults>>

Sent(c) ==
    /\ Resolve(c, "query")
    /\ Stmt(c).build = "ok"
    /\ UNCHANGED conn

Merge(got, rows) == [k \in Keys |-> IF rows[k] # NoRow THEN rows[k] ELSE got[k]]

(* What the handler makes of the rows of an executed statement. *)
StmtStatus(c, rows) ==
    IF rows = NoRows /\ pend[c].condition THEN "condition_failed"
    ELSE IF rows # NoRows THEN Stmt(c).decode
    ELSE "ok"

QueryOk(c) ==
    /\ Sent(c)
    /\ ~Refused(Stmt(c), View(c))
    /\ run_query(c, Stmt(c))
    /\ LET rows   == StmtRows(Stmt(c), View(c))
           status == StmtStatus(c, rows)
           got    == Merge(pend[c].got, rows)
       IN IF status # "ok" THEN Return(c, status, NoRows)
          ELSE IF Len(pend[c].todo) = 1 THEN Return(c, "ok", got)
          ELSE /\ pend' = [pend EXCEPT ![c].todo = Tail(@), ![c].got = got]
               /\ UNCHANGED reply
    /\ UNCHANGED faults

(* The handler's result for a failed query: Upsert with Ignore turns a
   duplicate into an empty success.                                         *)
QueryError(c, facts) ==
    IF pend[c].ignore /\ is_conflict(facts)
    THEN Return(c, "ok", NoRows)
    ELSE Return(c, classify_error(facts), NoRows)

QueryRefused(c) ==
    /\ Sent(c)
    /\ Refused(Stmt(c), View(c))
    /\ QueryError(c, RecordExists)
    /\ UNCHANGED <<data, faults>>

(* The statement fails and is rolled back by the store. *)
QueryFails(c, facts) ==
    /\ Sent(c)
    /\ Fault
    /\ QueryError(c, facts)
    /\ UNCHANGED data

(* The statement is executed but its answer does not arrive. *)
QueryAnswerLost(c) ==
    /\ Sent(c)
    /\ Fault
    /\ ~Refused(Stmt(c), View(c))
    /\ run_query(c, Stmt(c))
    /\ QueryError(c, OtherError)

-----------------------------------------------------------------------------
(* The pool drops an idle connection and opens another in its slot: the
   unfinished transaction of the old one is rolled back.                    *)
Reconnect(c) ==
    /\ pend[c].await = "idle"
    /\ calls < MaxCalls
    /\ calls' = calls + 1
    /\ Discard(c)
    /\ transaction' = [transaction EXCEPT ![c] = FALSE]
    /\ read_only' = [read_only EXCEPT ![c] = FALSE]
    /\ Return(c, "ok", NoRows)
    /\ UNCHANGED faults

(* The engine's choice of an operation, and the outcomes of an await. *)
Exec(c) ==
    \/ WriteRefused(c) \/ Unsupported(c) \/ Commit(c) \/ Rollback(c)
    \/ \E op \in Starts : Start(c, op)
    \/ \E rows \in Inserts : Insert(c, rows)
    \/ \E op \in Updates : UpdateByKey(c, op)
    \/ \E op \in Deletes : DeleteByKey(c, op)
    \/ \E op \in Upserts : Upsert(c, op)
    \/ \E op \in Gets : GetByKey(c, op)
    \/ \E op \in Queries : QueryPkOrScan(c, op) \/ FindPkByIndex(c, op)

Complete(c) ==
    \/ BeginOk(c) \/ BeginFails(c)
    \/ CommitOk(c) \/ CommitConflicts(c) \/ CommitFails(c) \/ CommitAnswerLost(c)
    \/ CancelOk(c) \/ CancelFails(c)
    \/ BuildFails(c) \/ QueryOk(c) \/ QueryRefused(c) \/ QueryAnswerLost(c)
    \/ \E facts \in {OtherError, QueryConflict} : QueryFails(c, facts)

Next == \E c \in Conns : Exec(c) \/ Complete(c) \/ Reconnect(c)

Spec == Init /\ [][Next]_vars

-----------------------------------------------------------------------------
TypeOK ==
    /\ store \in Rows
    /\ srv \in [Conns -> ServerTx \cup {NoTx}]
    /\ transaction \in [Conns -> BOOLEAN]
    /\ read_only \in [Conns -> BOOLEAN]
    /\ pend \in [Conns -> Pend]
    /\ reply \in [Conns -> Reply]
    /\ calls \in 0..MaxCalls
    /\ faults \in 0..MaxFaults

(* A connection holds a transaction handle exactly while the SDK transaction
   is open and no commit or rollback has been issued for it: it never keeps a
   consumed handle (which could not be finalized any more), never drops an
   open one on a duplicate Start or a failed statement, and never takes a
   handle for a begin() that failed.                                        *)
HandleLive ==
    \A c \in Conns :
        transaction[c] <=> srv[c] # NoTx /\ pend[c].await \notin {"commit", "cancel"}

(* The read-only flag belongs to an open transaction and that transaction has
   written nothing; no commit, rollback or failed begin() leaves it behind on
   the pooled connection, where it would refuse the next user's writes.     *)
ReadOnlyHygiene ==
    \A c \in Conns :
        read_only[c] => transaction[c] /\ Written(srv[c].eff) = {}

SelectsOnly(stmts) == \A i \in 1..Len(stmts) : stmts[i].verb \in {"SELECT", "SELECT PK"}

(* A call in flight agrees with the connection: a query has a statement to
   send, and only SELECTs on a read-only connection; a commit or cancel has
   an open transaction and a begin has none.                                *)
PendLive ==
    \A c \in Conns :
        /\ pend[c].await = "query" => pend[c].todo # << >>
        /\ pend[c].await = "query" /\ read_only[c] => SelectsOnly(pend[c].todo)
        /\ pend[c].await \in {"commit", "cancel"} => srv[c] # NoTx
        /\ pend[c].await = "begin" => srv[c] = NoTx

(* The snapshot of an open transaction is out of date only on rows it knows
   to be stale.  With first-committer-wins this is what rules out lost
   updates.                                                                 *)
SnapshotFresh ==
    \A c \in Conns : srv[c] # NoTx =>
        \A k \in Keys \ srv[c].stale : srv[c].base[k] = store[k]

(* The inductive invariant: no part is preserved on its own, since what a
   completion does depends on the handle, the call and the transaction
   agreeing with each other.                                                *)
ConnInv == TypeOK /\ HandleLive /\ PendLive /\ ReadOnlyHygiene /\ SnapshotFresh

OnlyCreates(stmts) == \A i \in 1..Len(stmts) : stmts[i].verb = "CREATE"

(* Rows are collected over several statements only by an insert, so every
   other operation answers with exactly the rows of its one statement.      *)
GotSound ==
    \A c \in Conns : pend[c].await = "query" =>
        OnlyCreates(pend[c].todo) \/ (Len(pend[c].todo) = 1 /\ pend[c].got = NoRows)

(* What the refinement below rests on. *)
RefInv == ConnInv /\ GotSound

-----------------------------------------------------------------------------
(* What a client can tell: its open transaction, the call in flight and the
   last result; the handle, the flags and the bookkeeping are hidden.       *)
Session(t) == IF t = NoTx THEN NoTx ELSE [base |-> t.base, eff |-> t.eff]

Asked(p) == [what |-> p.await, todo |-> p.todo, strict |-> p.condition, ignore |-> p.ignore]

Abstract == INSTANCE AtomicStore WITH
    session <- [c \in Conns |-> Session(srv[c])],
    asked   <- [c \in Conns |-> Asked(pend[c])],
    answer  <- reply

(* The driver over the SDK implements the transactional store of AtomicStore:
   a statement takes effect at once and in one place, inside the client's
   transaction if it has one; a commit answered "ok" has happened as a whole
   and on top of the current rows, one answered with a serialization failure
   has not happened at all.                                                 *)
ImplementsAtomicStore == Abstract!Spec
=============================================================================
