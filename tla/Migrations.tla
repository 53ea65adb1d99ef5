------------------------------ MODULE Migrations ------------------------------
(***************************************************************************)
(* Applying a set of embedded migrations: Connection::applied_migrations   *)
(* and Connection::apply_migration (src/src/conn.rs), called in turn by    *)
(* several runners, each on a connection of its own, while applications    *)
(* write rows and runners crash.                                           *)
(*                                                                         *)
(* The tracking table is part of the store: the record of a migration is   *)
(* the row under its id.  A migration runs in a transaction of its own     *)
(* (`srv`), never in the one the connection's user may have open.          *)
(***************************************************************************)
EXTENDS SurrealStore, Sequences

CONSTANTS
    Runners,    \* connections on which the migration set is applied
    Users,      \* those on which an application also opens transactions
    Set,        \* the embedded migrations, in order
    Malformed,  \* ids in the tracking table that are not decimal u64s
    Initial,    \* the rows before the first run
    Writes,     \* statements of applications, outside transactions
    MaxRuns,    \* bound: runs of each runner
    MaxTraffic, \* bound: application statements and transactions
    MaxFaults   \* bound: injected failures, lost answers and crashes

(* A statement of a migration: blank text, SurrealQL, or the generated THROW
   that asks for manual work.                                               *)
Step      == [kind : {"blank", "run", "guard"}, stmt : Statement]
Migration == [id : Keys, steps : Seq(Step)]
Indices   == 1..Len(Set)
Tracking  == {Set[n].id : n \in Indices}

ASSUME SetAssumption ==
    /\ Set \in Seq(Migration)
    /\ \A m, n \in Indices : Set[m].id = Set[n].id => m = n
    /\ Malformed \subseteq Keys
    /\ Malformed \cap Tracking = {}
ASSUME TrackingReserved ==
    /\ Writes \subseteq {s \in Statement : s.ids \cap Tracking = {}}
    /\ \A n \in Indices : \A i \in 1..Len(Set[n].steps) :
           Set[n].steps[i].stmt.ids \cap Tracking = {}
ASSUME InitialAssumption ==
    Initial \in Rows /\ \A n \in Indices : Initial[Set[n].id] = NoRow
ASSUME BoundsAssumption ==
    Users \subseteq Runners /\ MaxRuns \in Nat /\ MaxTraffic \in Nat /\ MaxFaults \in Nat

VARIABLES
    store,        \* the committed rows, the tracking table among them
    srv,          \* srv[r]: the transaction of the migration r is applying, or NoTx
    transaction,  \* transaction[r]: Connection.transaction.is_some()
    run,          \* run[r]: where the run of r is
    reply,        \* reply[r]: how the last run of r ended
    runs,         \* runs[r]: runs r has begun
    traffic,      \* application statements and transactions so far
    faults        \* failures injected so far

vars == <<store, srv, transaction, run, reply, runs, traffic, faults>>

Error  == {"serialization_failure", "unsupported_feature", "condition_failed",
           "driver_operation_failed", "invalid_statement"}
Status == Error \cup {"none", "ok"}

(* `listing` .. `selecting`: applied_migrations; `apply`: between two calls;
   the others: apply_migration.  `applied`: the answer of applied_migrations;
   `n`, `i`: the migration being applied and its next statement; `error`:
   what apply_migration will return once the transaction is cancelled.      *)
Place == {"idle", "listing", "selecting", "apply", "preparing", "begin", "step", "commit", "cancel"}
Run   == [at : Place, applied : SUBSET Tracking, n : Nat, i : Nat,
          error : Error \cup {"none"}]
Idle  == [at |-> "idle", applied |-> {}, n |-> 0, i |-> 0, error |-> "none"]

(* The second marker an error may show besides those of SurrealStore. *)
ManualGuard == {"manual migration required:"}

classify_migration_error(facts) ==
    IF {"TransactionConflict", "Transaction conflict:"} \cap facts # {} THEN "serialization_failure"
    ELSE IF "manual migration required:" \in facts THEN "unsupported_feature"
    ELSE IF "already exists" \in facts THEN "condition_failed"
    ELSE "driver_operation_failed"

-----------------------------------------------------------------------------
Init ==
    /\ store = Initial
    /\ srv = [r \in Runners |-> NoTx]
    /\ transaction = [r \in Runners |-> FALSE]
    /\ run = [r \in Runners |-> Idle]
    /\ reply = [r \in Runners |-> "none"]
    /\ runs = [r \in Runners |-> 0]
    /\ traffic = 0
    /\ faults = 0

At(r, place) == run[r].at = place

Goto(r, place) ==
    /\ run' = [run EXCEPT ![r].at = place]
    /\ UNCHANGED reply

Finish(r, status) ==
    /\ run' = [run EXCEPT ![r] = Idle]
    /\ reply' = [reply EXCEPT ![r] = status]

Recorded(n) == store[Set[n].id] # NoRow

(* The next migration after the n-th that was not in the list. *)
Pending(applied, n) == {m \in Indices : m > n /\ Set[m].id \notin applied}
Proceed(r, applied, n) ==
    IF Pending(applied, n) = {} THEN Finish(r, "ok")
    ELSE \E m \in Pending(applied, n) :
            /\ \A l \in Pending(applied, n) : m <= l
            /\ run' = [run EXCEPT ![r] = [Idle EXCEPT !.at = "apply", !.applied = applied, !.n = m]]
            /\ UNCHANGED reply

Fault == faults < MaxFaults /\ faults' = faults + 1
Traffic == traffic < MaxTraffic /\ traffic' = traffic + 1

bookkeeping == <<runs, traffic, faults>>

-----------------------------------------------------------------------------
(* Connection::applied_migrations, begun by a runner that is not done. *)

Begin(r) ==
    /\ At(r, "idle")
    /\ reply[r] # "ok"
    /\ runs[r] < MaxRuns
    /\ runs' = [runs EXCEPT ![r] = @ + 1]
    /\ IF transaction[r] THEN Finish(r, "invalid_statement") ELSE Goto(r, "listing")
    /\ UNCHANGED <<store, srv, transaction, traffic, faults>>

(* ensure_migrations_table answers, in either of the two calls. *)
EnsureOk(r) ==
    /\ \/ At(r, "listing") /\ Goto(r, "selecting")
       \/ At(r, "preparing") /\ Goto(r, "begin")
    /\ UNCHANGED <<store, srv, transaction, bookkeeping>>

SelectOk(r) ==
    /\ At(r, "selecting")
    /\ IF \E k \in Malformed : store[k] # NoRow
       THEN Finish(r, "serialization_failure")
       ELSE Proceed(r, {k \in Tracking : store[k] # NoRow}, 0)
    /\ UNCHANGED <<store, srv, transaction, bookkeeping>>

-----------------------------------------------------------------------------
(* Connection::apply_migration. *)

(* Mutant: the connection may be in a transaction. *)
ApplyUnguarded(r) ==
    /\ At(r, "apply")
    /\ Goto(r, "preparing")
    /\ UNCHANGED <<store, srv, transaction, bookkeeping>>

Apply(r) ==
    /\ At(r, "apply")
    /\ IF transaction[r] THEN Finish(r, "invalid_statement") ELSE Goto(r, "preparing")
    /\ UNCHANGED <<store, srv, transaction, bookkeeping>>

BeginOk(r) ==
    /\ At(r, "begin")
    /\ srv' = [srv EXCEPT ![r] = BeginTx(store)]
    /\ run' = [run EXCEPT ![r].at = "step", ![r].i = 1]
    /\ UNCHANGED <<store, transaction, reply, bookkeeping>>

(* An await outside the migration's transaction fails; classify_error and
   classify_migration_error agree on these.                                 *)
AwaitFails(r, facts) ==
    /\ run[r].at \in {"listing", "selecting", "preparing", "begin"}
    /\ Fault
    /\ Finish(r, classify_migration_error(facts))
    /\ UNCHANGED <<store, srv, transaction, runs, traffic>>

Steps(n) == Set[n].steps

(* Mutant: the tracking record is upserted. *)
TrackUpsert(n) == [verb |-> "UPSERT", ids |-> {Set[n].id}, eff |-> Keep, init |-> 0,
                   where |-> {}, build |-> "ok", decode |-> "ok"]

(* After the statements of the migration, the CREATE of its tracking record. *)
Track(n) == [verb |-> "CREATE", ids |-> {Set[n].id}, eff |-> Keep, init |-> 0, where |-> {},
             build |-> "ok", decode |-> "ok"]
StmtAt(n, i) == IF i <= Len(Steps(n)) THEN Steps(n)[i].stmt ELSE Track(n)
KindAt(n, i) == IF i <= Len(Steps(n)) THEN Steps(n)[i].kind ELSE "run"

(* Mutant: blank text is sent like a statement, and rejected. *)
BlankSent(r) ==
    /\ At(r, "step")
    /\ KindAt(run[r].n, run[r].i) = "blank"
    /\ run' = [run EXCEPT ![r].at = "cancel", ![r].error = classify_migration_error(OtherError)]
    /\ UNCHANGED <<store, srv, transaction, reply, bookkeeping>>

Blank(r) ==
    /\ At(r, "step")
    /\ KindAt(run[r].n, run[r].i) = "blank"
    /\ run' = [run EXCEPT ![r].i = @ + 1]
    /\ UNCHANGED <<store, srv, transaction, reply, bookkeeping>>

Advance(r) ==
    /\ run' = IF run[r].i > Len(Steps(run[r].n)) THEN [run EXCEPT ![r].at = "commit"]
              ELSE [run EXCEPT ![r].i = @ + 1]
    /\ UNCHANGED reply

(* Mutants: statements bypass the migration's transaction; a statement's
   error is not looked at (no check()).                                     *)
StmtOnDb(r) ==
    LET s == StmtAt(run[r].n, run[r].i)
        eff == StmtEffect(s, store) IN
    /\ At(r, "step")
    /\ KindAt(run[r].n, run[r].i) = "run"
    /\ ~Refused(s, TxView(srv[r]))
    /\ store' = ApplyAll(eff, store)
    /\ srv' = [q \in Runners |-> MarkStale(srv[q], Written(eff))]
    /\ Advance(r)
    /\ UNCHANGED <<transaction, bookkeeping>>
StmtUnchecked(r) ==
    LET s == StmtAt(run[r].n, run[r].i) IN
    /\ At(r, "step")
    /\ KindAt(run[r].n, run[r].i) # "blank"
    /\ srv' = IF KindAt(run[r].n, run[r].i) = "run" /\ ~Refused(s, TxView(srv[r]))
              THEN [srv EXCEPT ![r] = TxWrite(@, StmtEffect(s, TxView(@)))] ELSE srv
    /\ Advance(r)
    /\ UNCHANGED <<store, transaction, bookkeeping>>

StmtOk(r) ==
    LET s == StmtAt(run[r].n, run[r].i) IN
    /\ At(r, "step")
    /\ KindAt(run[r].n, run[r].i) = "run"
    /\ ~Refused(s, TxView(srv[r]))
    /\ srv' = [srv EXCEPT ![r] = TxWrite(@, StmtEffect(s, TxView(@)))]
    /\ Advance(r)
    /\ UNCHANGED <<store, transaction, bookkeeping>>

(* A statement, or the CREATE of the tracking record, ends in an error; one
   whose answer is lost ends the same way, since its effect is cancelled.   *)
Rejected(r, facts) ==
    LET kind == KindAt(run[r].n, run[r].i) IN
    \/ kind = "guard" /\ facts = ManualGuard /\ UNCHANGED faults
    \/ /\ kind = "run" /\ Refused(StmtAt(run[r].n, run[r].i), TxView(srv[r]))
       /\ facts = RecordExists /\ UNCHANGED faults
    \/ kind # "blank" /\ facts \in {OtherError, QueryConflict} /\ Fault

StmtFails(r, facts) ==
    /\ At(r, "step")
    /\ Rejected(r, facts)
    /\ run' = [run EXCEPT ![r].at = "cancel", ![r].error = classify_migration_error(facts)]
    /\ UNCHANGED <<store, srv, transaction, reply, runs, traffic>>

Discard(r) ==
    /\ srv' = [srv EXCEPT ![r] = NoTx]
    /\ UNCHANGED store

CancelOk(r) ==
    /\ At(r, "cancel")
    /\ Discard(r)
    /\ Finish(r, run[r].error)
    /\ UNCHANGED <<transaction, bookkeeping>>

(* The error of a failing cancel() replaces that of the statement. *)
CancelFails(r) ==
    /\ At(r, "cancel")
    /\ Fault
    /\ Discard(r)
    /\ Finish(r, classify_migration_error(OtherError))
    /\ UNCHANGED <<transaction, runs, traffic>>

Publish(r) ==
    /\ store' = CommitRows(srv[r], store)
    /\ srv' = [q \in Runners |-> IF q = r THEN NoTx ELSE MarkStale(srv[q], Written(srv[r].eff))]

CommitOk(r) ==
    /\ At(r, "commit")
    /\ ~Conflicts(srv[r])
    /\ Publish(r)
    /\ Proceed(r, run[r].applied, run[r].n)
    /\ UNCHANGED <<transaction, bookkeeping>>

(* Mutant: the error of commit() is dropped. *)
CommitIgnored(r) ==
    /\ At(r, "commit")
    /\ Conflicts(srv[r])
    /\ Discard(r)
    /\ Proceed(r, run[r].applied, run[r].n)
    /\ UNCHANGED <<transaction, bookkeeping>>

CommitConflicts(r) ==
    /\ At(r, "commit")
    /\ Conflicts(srv[r])
    /\ Discard(r)
    /\ Finish(r, classify_migration_error(CommitConflict))
    /\ UNCHANGED <<transaction, bookkeeping>>

(* commit() fails, or succeeds without its answer arriving. *)
CommitFails(r) ==
    /\ At(r, "commit")
    /\ Fault
    /\ Discard(r) \/ (~Conflicts(srv[r]) /\ Publish(r))
    /\ Finish(r, classify_migration_error(OtherError))
    /\ UNCHANGED <<transaction, runs, traffic>>

-----------------------------------------------------------------------------
(* The runner's process dies at an await and is started again later: the
   store drops its transactions.                                            *)
Crash(r) ==
    /\ run[r].at # "idle"
    /\ Fault
    /\ Discard(r)
    /\ Finish(r, "none")
    /\ transaction' = [transaction EXCEPT ![r] = FALSE]
    /\ UNCHANGED <<runs, traffic>>

(* Between two calls the user of the connection begins or ends a transaction. *)
UserTransaction(r) ==
    /\ run[r].at \in {"idle", "apply"}
    /\ r \in Users
    /\ IF transaction[r] THEN UNCHANGED traffic ELSE Traffic
    /\ transaction' = [transaction EXCEPT ![r] = ~@]
    /\ UNCHANGED <<store, srv, run, reply, runs, faults>>

(* An application executes a statement. *)
Write(w) ==
    LET eff == StmtEffect(w, store) IN
    /\ Traffic
    /\ ~Refused(w, store)
    /\ store' = ApplyAll(eff, store)
    /\ srv' = [r \in Runners |-> MarkStale(srv[r], Written(eff))]
    /\ UNCHANGED <<transaction, run, reply, runs, faults>>

(* What happens in a run once it has begun. *)
Continue(r) ==
    \/ EnsureOk(r) \/ SelectOk(r) \/ Apply(r) \/ BeginOk(r)
    \/ \E facts \in {OtherError, QueryConflict} : AwaitFails(r, facts)
    \/ Blank(r) \/ StmtOk(r) \/ CancelOk(r) \/ CancelFails(r)
    \/ CommitOk(r) \/ CommitConflicts(r) \/ CommitFails(r)
    \/ \E facts \in {ManualGuard, OtherError, RecordExists, QueryConflict} : StmtFails(r, facts)

Next ==
    \/ \E r \in Runners : Begin(r) \/ Continue(r) \/ Crash(r) \/ UserTransaction(r)
    \/ \E w \in Writes : Write(w)

Spec == Init /\ [][Next]_vars

(* Awaits on the store end, in an answer or an error, and a runner that has
   not been told that all migrations are applied is run again.              *)
FairSpec == Spec /\ \A r \in Runners : WF_vars(Begin(r)) /\ WF_vars(Continue(r))

-----------------------------------------------------------------------------
TypeOK ==
    /\ store \in Rows
    /\ srv \in [Runners -> ServerTx \cup {NoTx}]
    /\ transaction \in [Runners -> BOOLEAN]
    /\ run \in [Runners -> Run]
    /\ reply \in [Runners -> Status]
    /\ runs \in [Runners -> 0..MaxRuns]
    /\ traffic \in 0..MaxTraffic
    /\ faults \in 0..MaxFaults

(* Migrations are recorded in the order of the set, without gaps, whichever
   runners applied them and wherever they failed or died.                   *)
InOrder == \A m, n \in Indices : Recorded(n) /\ m < n => Recorded(m)

(* A runner that was told "ok" can rely on every migration being applied. *)
DoneMeansApplied == \A r \in Runners : reply[r] = "ok" => \A n \in Indices : Recorded(n)

Passed(n, i) == \A j \in 1..i : KindAt(n, j) \in {"blank", "run"}

(* A migration that asks for manual work, or that the store rejects, is never
   recorded as applied, by any runner at any time.                          *)
GuardHolds == \A n \in Indices : Recorded(n) => Passed(n, Len(Steps(n)))

(* A recorded migration stays recorded, and only a commit records one: the
   one being applied, which was not recorded before while all earlier ones
   were.  Runners that race never both apply a migration.                   *)
OneByOne ==
    [][store' # store =>
          \/ \E w \in Writes : Write(w) /\ \A n \in Indices : Recorded(n)' = Recorded(n)
          \/ \E n \in Indices :
                /\ \E r \in Runners : At(r, "commit") /\ run[r].n = n
                /\ ~Recorded(n) /\ Recorded(n)'
                /\ \A m \in Indices \ {n} :
                       /\ Recorded(m)' = Recorded(m)
                       /\ m < n => Recorded(m)]_vars

(* A run u agrees with its transaction t and the committed rows: t is open
   exactly while u sends statements, commits or cancels, and out of date only
   on rows known to be stale; what u takes for applied is; before the CREATE
   of the tracking record t has not touched the tracking table, and after it
   has written that record, new in its snapshot, only.                      *)
Sound(u, t, rows) ==
    /\ u.at \in {"step", "commit", "cancel"} <=> t # NoTx
    /\ t # NoTx => \A k \in Keys \ t.stale : t.base[k] = rows[k]
    /\ \A k \in u.applied : rows[k] # NoRow
    /\ u.at \notin {"idle", "listing", "selecting"} =>
           u.n \in Indices /\ \A m \in Indices : m < u.n => rows[Set[m].id] # NoRow
    /\ u.at = "step" =>
           /\ u.i \in 1..Len(Steps(u.n)) + 1
           /\ Passed(u.n, u.i - 1)
           /\ Written(t.eff) \cap Tracking = {}
    /\ u.at = "commit" =>
           /\ Passed(u.n, Len(Steps(u.n)))
           /\ Written(t.eff) \cap Tracking = {Set[u.n].id}
           /\ t.eff[Set[u.n].id] = Put(0)
           /\ t.base[Set[u.n].id] = NoRow

RunsSound == \A r \in Runners : Sound(run[r], srv[r], store)

(* The inductive invariant. *)
MigInv == TypeOK /\ InOrder /\ DoneMeansApplied /\ GuardHolds /\ RunsSound

(* The rows after the first i statements of the n-th migration, and after all
   of them and the CREATE of its tracking record.                           *)
StepRows(n, i, rows) ==
    IF KindAt(n, i) = "run" THEN ApplyAll(StmtEffect(StmtAt(n, i), rows), rows) ELSE rows
RowsAfter(n, i, rows) ==
    LET after[j \in 0..Len(Steps(n)) + 1] ==
            IF j = 0 THEN rows ELSE StepRows(n, j, after[j - 1])
    IN after[i]
Outcome(n, rows) == RowsAfter(n, Len(Steps(n)) + 1, rows)

(* The store changes only by a statement of an application, or by a migration
   as a whole together with its tracking record: every row becomes what the
   migration makes of it, save those an application changed since the
   migration began, which it leaves as they are (had it written them, it
   would not have committed).                                               *)
AppliesWhole ==
    [][store' # store =>
          \/ \E w \in Writes : Write(w)
          \/ \E r \in Runners :
                /\ At(r, "commit") /\ ~Recorded(run[r].n)
                /\ \A k \in Keys :
                       store'[k] = IF k \in srv[r].stale THEN store[k]
                                   ELSE Outcome(run[r].n, store)[k]]_vars

(* The inductive invariant for that: the transaction t of a run u shows what
   the statements u has passed make of its snapshot.                        *)
Whole(u, t) ==
    /\ u.at = "step"   => TxView(t) = RowsAfter(u.n, u.i - 1, t.base)
    /\ u.at = "commit" => TxView(t) = Outcome(u.n, t.base)

(* Nothing of a migration is sent on a connection whose user has a transaction
   open, whenever it was opened (conn.rs:126, conn.rs:163).                 *)
UsersApart == \A r \in Runners : transaction[r] => run[r].at \in {"idle", "apply"}

WholeInv == MigInv /\ UsersApart /\ \A r \in Runners : Whole(run[r], srv[r])

(* However runners race, conflict, fail and die, as long as they are run
   again all of them are told in the end that everything is applied.        *)
EveryoneMigrates == <>[](\A r \in Runners : reply[r] = "ok" /\ srv[r] = NoTx)
=============================================================================
