----------------------------- MODULE MigrationGen -----------------------------
(***************************************************************************)
(* The schema in the database: push_schema (src/src/conn.rs), migration    *)
(* generation (src/src/migration.rs), and what their statements do to the  *)
(* tables, the rows and the indexes.                                       *)
(*                                                                         *)
(* A column is its name; the name of a table identifies it.  Tables are    *)
(* SCHEMALESS: a row is what its fields hold.  Primary-key columns are the *)
(* record id and no field.  Statements are records, without their wording. *)
(* How the statements of a migration are run is the subject of Migrations; *)
(* here they are one transaction.                                          *)
(***************************************************************************)
EXTENDS Naturals, Sequences, SequencesExt

CONSTANTS
    Ids,         \* record ids
    Columns,     \* column names
    Values,      \* what a field may hold
    NONE,        \* an absent field
    Changes,     \* schema changes: sequences of table diffs
    Clients,     \* connections
    MaxFailures  \* bound: awaits that fail

ASSUME NoneAssumption == NONE \notin Values /\ MaxFailures \in Nat

(* db::Index, db::Table (`type`: of each column) and diff::Table, with the rename
   hints from columns of `previous` to columns of `next`.                     *)
Index  == [name : STRING, columns : Seq(Columns), unique : BOOLEAN, primary_key : BOOLEAN]
Schema == [name : STRING, columns : Seq(Columns), type : [Columns -> STRING],
           primary_key : Seq(Columns), indices : Seq(Index)]
Diff   == [kind : {"Create", "Drop", "Alter"}, previous : Schema, next : Schema,
           hints : UNION {[cs -> Columns] : cs \in SUBSET Columns}]

(* The name of an index is unique in its table, that of a table in each of the
   two schemas; a table in both of them is altered, not dropped and created.  *)
IndexesNamed(t) ==
    \A j, k \in DOMAIN t.indices : t.indices[j].name = t.indices[k].name => j = k
ASSUME ChangesAssumption ==
    /\ Changes \subseteq Seq(Diff)
    /\ \A diffs \in Changes : \A j, k \in DOMAIN diffs :
          LET d == diffs[j]  e == diffs[k] IN
          /\ IndexesNamed(d.previous) /\ IndexesNamed(d.next)
          /\ j # k /\ d.kind # "Create" /\ e.kind # "Create" => d.previous.name # e.previous.name
          /\ j # k /\ d.kind # "Drop" /\ e.kind # "Drop" => d.next.name # e.next.name
          /\ d.kind = "Create" /\ e.kind = "Drop" => d.next.name # e.previous.name

VARIABLES
    change,    \* the schema change of this behaviour
    db,        \* the committed database: what is defined, by table name
    job,       \* job[c]: the push or the migration c has in progress
    reply,     \* reply[c]: how the last one ended
    applied,   \* the migration is recorded in the tracking table
    failures   \* awaits that failed so far

vars == <<change, db, job, reply, applied, failures>>

-----------------------------------------------------------------------------
(* Statements. *)

Throw(why, table) == [verb |-> "THROW", why |-> why, table |-> table]
ReturnNone == [verb |-> "RETURN NONE"]
DefineTable(t, if_not_exists) ==
    [verb |-> "DEFINE TABLE", table |-> t.name, if_not_exists |-> if_not_exists]
RemoveTable(t) == [verb |-> "REMOVE TABLE", table |-> t.name]
DefineIndex(t, index, if_not_exists) ==
    [verb |-> "DEFINE INDEX", table |-> t.name, index |-> index.name,
     columns |-> index.columns, unique |-> index.unique, if_not_exists |-> if_not_exists]
RemoveIndex(t, index) == [verb |-> "REMOVE INDEX", table |-> t.name, index |-> index.name]
Copy(t, from, to) == [verb |-> "UPDATE SET", table |-> t.name, from |-> from, to |-> to]
Unset(t, column)  == [verb |-> "UPDATE UNSET", table |-> t.name, column |-> column]

(* The statements op gives for each element of s, one after the other. *)
ForEach(s, op(_)) == FlattenSeq([i \in DOMAIN s |-> op(s[i])])
When(cond, s)     == IF cond THEN s ELSE <<>>

push_unique(statements, s) ==
    IF s \in ToSet(statements) THEN statements ELSE Append(statements, s)
Unique(statements) ==
    LET kept[n \in 0..Len(statements)] ==
            IF n = 0 THEN <<>> ELSE push_unique(kept[n - 1], statements[n])
    IN  kept[Len(statements)]

(* Mutant: the primary-key indexes instead of all others. *)
define_pk_statements(t, if_not_exists) ==
    <<DefineTable(t, if_not_exists)>> \o ForEach(t.indices, LAMBDA i :
        When(i.primary_key, <<DefineIndex(t, i, if_not_exists)>>))

define_table_statements(t, if_not_exists) ==
    <<DefineTable(t, if_not_exists)>> \o ForEach(t.indices, LAMBDA i :
        When(~i.primary_key, <<DefineIndex(t, i, if_not_exists)>>))

-----------------------------------------------------------------------------
(* The diff of a table that stays (toasty_core::schema::diff). *)

(* The column of `next` that c of `previous` becomes, if there is one. *)
Mapped(d, c)  == IF c \in DOMAIN d.hints THEN d.hints[c] ELSE c
Survives(d, c) == Mapped(d, c) \in ToSet(d.next.columns)
Renamed(d)    == {c \in ToSet(d.previous.columns) : Survives(d, c) /\ Mapped(d, c) # c}

Named(indices, index) == {i \in ToSet(indices) : i.name = index.name}
Altered(d, index, to) ==
    \/ index.unique # to.unique \/ index.primary_key # to.primary_key
    \/ [k \in DOMAIN index.columns |-> Mapped(d, index.columns[k])] # to.columns

(* Indexes that are dropped or altered, and those created or altered. *)
Outgoing(d, i) == \A to \in Named(d.next.indices, i) : Altered(d, i, to)
Incoming(d, i) == \A from \in Named(d.previous.indices, i) : Altered(d, from, i)

-----------------------------------------------------------------------------
(* generate(), the migration of a change. *)

is_primary_key(t, c) == c \in ToSet(t.primary_key)

(* Mutant: the lengths are not compared. *)
primary_key_zipped(d) ==
    \E k \in DOMAIN d.previous.primary_key \cap DOMAIN d.next.primary_key :
        LET c == d.previous.primary_key[k]
        IN  Mapped(d, c) # d.next.primary_key[k]

primary_key_changed(d) ==
    \/ Len(d.previous.primary_key) # Len(d.next.primary_key)
    \/ \E k \in DOMAIN d.previous.primary_key :
          LET c == d.previous.primary_key[k]
          IN  \/ ~Survives(d, c) \/ Mapped(d, c) # d.next.primary_key[k]
              \/ d.previous.type[c] # d.next.type[Mapped(d, c)]

(* Fields whose data move: renamed, and a primary-key column on neither side. *)
Moves(d) == {c \in Renamed(d) : ~is_primary_key(d.previous, c)
                                /\ ~is_primary_key(d.next, Mapped(d, c))}

guards(d) == When(primary_key_changed(d), <<Throw("primary key", d.next.name)>>) \o
    ForEach(d.previous.columns, LAMBDA c :
        When(Survives(d, c) /\ d.previous.type[c] # d.next.type[Mapped(d, c)],
             <<Throw(Mapped(d, c), d.next.name)>>))

(* Mutant: the old field is left in place. *)
data_copies(d) == ForEach(d.previous.columns, LAMBDA c :
    When(c \in Moves(d), <<Copy(d.next, c, Mapped(d, c))>>))

data_changes(d) == ForEach(d.previous.columns, LAMBDA c :
    IF ~Survives(d, c) THEN When(~is_primary_key(d.previous, c), <<Unset(d.next, c)>>)
    ELSE When(c \in Moves(d), <<Copy(d.next, c, Mapped(d, c)), Unset(d.next, c)>>))

(* An index that the diff leaves alone is rebuilt when it touches a field that
   moves: its definition names fields.                                        *)
Touching(i, columns) == ToSet(i.columns) \cap columns # {}

index_removals(d) ==
    Unique(ForEach(d.previous.indices, LAMBDA i :
               When(~i.primary_key /\ Outgoing(d, i), <<RemoveIndex(d.previous, i)>>))
           \o ForEach(d.previous.indices, LAMBDA i :
               When(~i.primary_key /\ Touching(i, Moves(d)), <<RemoveIndex(d.previous, i)>>)))

(* Mutant: what the diff leaves alone is not defined again. *)
index_definitions_of_diff(d) ==
    ForEach(d.next.indices, LAMBDA i :
        When(~i.primary_key /\ Incoming(d, i), <<DefineIndex(d.next, i, FALSE)>>))

index_definitions(d) ==
    Unique(ForEach(d.next.indices, LAMBDA i :
               When(~i.primary_key /\ Incoming(d, i), <<DefineIndex(d.next, i, FALSE)>>))
           \o ForEach(d.next.indices, LAMBDA i :
               When(~i.primary_key /\ Touching(i, {Mapped(d, c) : c \in Moves(d)}),
                    <<DefineIndex(d.next, i, FALSE)>>)))

(* Mutants: the data move before the indexes are defined; the guards come last. *)
alter_data_first(d) ==
    IF d.previous.name # d.next.name THEN <<Throw("table rename", d.next.name)>>
    ELSE Unique(guards(d)) \o index_removals(d) \o data_changes(d) \o index_definitions(d)
alter_guards_last(d) ==
    IF d.previous.name # d.next.name THEN <<Throw("table rename", d.next.name)>>
    ELSE index_removals(d) \o index_definitions(d) \o data_changes(d) \o Unique(guards(d))

render_alter_table(d) ==
    IF d.previous.name # d.next.name THEN <<Throw("table rename", d.next.name)>>
    ELSE Unique(guards(d)) \o index_removals(d) \o index_definitions(d) \o data_changes(d)

(* Mutant: created tables may exist. *)
TolerantStatements(d) ==
    CASE d.kind = "Create" -> define_table_statements(d.next, TRUE)
      [] d.kind = "Drop"   -> <<RemoveTable(d.previous)>>
      [] d.kind = "Alter"  -> render_alter_table(d)

TableStatements(d) ==
    CASE d.kind = "Create" -> define_table_statements(d.next, FALSE)
      [] d.kind = "Drop"   -> <<RemoveTable(d.previous)>>
      [] d.kind = "Alter"  -> render_alter_table(d)

generate(diffs) ==
    LET statements == ForEach(diffs, TableStatements)
    IN  IF statements = <<>> THEN <<ReturnNone>> ELSE statements

(* Mutant: definitions that are not idempotent. *)
PushOnce(diffs) == ForEach(diffs, LAMBDA d :
    When(d.kind # "Drop", define_table_statements(d.next, FALSE)))

PushStatements(diffs) == ForEach(diffs, LAMBDA d :
    When(d.kind # "Drop", define_table_statements(d.next, TRUE)))

-----------------------------------------------------------------------------
(* What a statement does (SurrealDB). *)

Empty == [x \in {} |-> NONE]
Put(f, x, y)  == [z \in DOMAIN f \cup {x} |-> IF z = x THEN y ELSE f[z]]
Without(f, x) == [z \in DOMAIN f \ {x} |-> f[z]]

Project(row, columns) == [k \in DOMAIN columns |-> row[columns[k]]]

HasIndex(view, t, i) == t \in DOMAIN view /\ i \in DOMAIN view[t].indices

Accepted(view, s) ==
    CASE s.verb = "THROW"        -> FALSE
      [] s.verb = "DEFINE TABLE" -> s.if_not_exists \/ s.table \notin DOMAIN view
      [] s.verb = "REMOVE TABLE" -> s.table \in DOMAIN view
      [] s.verb = "DEFINE INDEX" ->
            s.table \in DOMAIN view
            /\ (s.if_not_exists \/ ~HasIndex(view, s.table, s.index))
      [] s.verb = "REMOVE INDEX" -> HasIndex(view, s.table, s.index)
      [] s.verb \in {"UPDATE SET", "UPDATE UNSET"} -> s.table \in DOMAIN view
      [] s.verb = "RETURN NONE"  -> TRUE

(* An index is built from the rows that were committed when the transaction
   began (`base`), and from then on kept up to date by every UPDATE.          *)
Built(base, s) ==
    [columns |-> s.columns, unique |-> s.unique,
     entries |-> IF s.table \notin DOMAIN base THEN Empty
                 ELSE [id \in DOMAIN base[s.table].rows |->
                          Project(base[s.table].rows[id], s.columns)]]

(* Table t after UPDATE wrote the rows new[id]. *)
Updated(t, new) ==
    [rows |-> [id \in DOMAIN t.rows |-> IF id \in DOMAIN new THEN new[id] ELSE t.rows[id]],
     indices |-> [i \in DOMAIN t.indices |-> [t.indices[i] EXCEPT !.entries =
        [id \in DOMAIN t.rows |-> IF id \in DOMAIN new
             THEN Project(new[id], t.indices[i].columns) ELSE t.indices[i].entries[id]]]]]

CopyField(t, s) ==
    LET hit == {id \in DOMAIN t.rows : t.rows[id][s.from] # NONE}
    IN  Updated(t, [id \in hit |-> [t.rows[id] EXCEPT ![s.to] = t.rows[id][s.from]]])

UnsetField(t, s) ==
    Updated(t, [id \in DOMAIN t.rows |-> [t.rows[id] EXCEPT ![s.column] = NONE]])

Effect(base, view, s) ==
    CASE s.verb = "DEFINE TABLE" /\ s.table \notin DOMAIN view ->
            Put(view, s.table, [rows |-> Empty, indices |-> Empty])
      [] s.verb = "REMOVE TABLE" -> Without(view, s.table)
      [] s.verb = "DEFINE INDEX" /\ ~HasIndex(view, s.table, s.index) ->
            [view EXCEPT ![s.table].indices = Put(@, s.index, Built(base, s))]
      [] s.verb = "REMOVE INDEX" -> [view EXCEPT ![s.table].indices = Without(@, s.index)]
      [] s.verb = "UPDATE SET"   -> [view EXCEPT ![s.table] = CopyField(@, s)]
      [] s.verb = "UPDATE UNSET" -> [view EXCEPT ![s.table] = UnsetField(@, s)]
      [] OTHER -> view

-----------------------------------------------------------------------------
Secondary(t) == {i \in ToSet(t.indices) : ~i.primary_key}
Fields(t)    == ToSet(t.columns) \ ToSet(t.primary_key)
Before(diffs) == {d.previous : d \in {e \in ToSet(diffs) : e.kind # "Create"}}
After(diffs)  == {d.next : d \in {e \in ToSet(diffs) : e.kind # "Drop"}}

(* Exactly the tables and the secondary indexes of a schema. *)
DefinedAs(view, tables) ==
    /\ DOMAIN view = {t.name : t \in tables}
    /\ \A t \in tables :
          /\ DOMAIN view[t.name].indices = {i.name : i \in Secondary(t)}
          /\ \A i \in Secondary(t) :
                /\ view[t.name].indices[i.name].columns = i.columns
                /\ view[t.name].indices[i.name].unique = i.unique

Rows(t)  == [Ids -> {r \in [Columns -> Values \cup {NONE}] :
                        \A c \in Columns \ Fields(t) : r[c] = NONE}]
Table(t, rows) ==
    [rows |-> rows,
     indices |-> [n \in {i.name : i \in Secondary(t)} |->
        LET i == CHOOSE j \in Secondary(t) : j.name = n
        IN  [columns |-> i.columns, unique |-> i.unique,
             entries |-> [id \in Ids |-> Project(rows[id], i.columns)]]]]

NoJob == [at |-> "idle", todo |-> <<>>, base |-> Empty, view |-> Empty]

(* The database is as the previous schema has it, with any rows. *)
Init ==
    /\ change \in Changes
    /\ \E rows \in [{t.name : t \in Before(change)} ->
                       UNION {Rows(t) : t \in Before(change)}] :
          /\ \A t \in Before(change) : rows[t.name] \in Rows(t)
          /\ db = [n \in {t.name : t \in Before(change)} |->
                      Table(CHOOSE t \in Before(change) : t.name = n, rows[n])]
    /\ job = [c \in Clients |-> NoJob]
    /\ reply = [c \in Clients |-> "none"]
    /\ applied = FALSE /\ failures = 0

Begin(c, at, todo) ==
    /\ job[c].at = "idle"
    /\ job' = [job EXCEPT ![c] = [at |-> at, todo |-> todo, base |-> db, view |-> db]]
    /\ UNCHANGED <<change, db, reply, applied, failures>>

End(c, r) == job' = [job EXCEPT ![c] = NoJob] /\ reply' = [reply EXCEPT ![c] = r]

(* Connection::push_schema: one statement at a time, outside a transaction. *)
PushSchema(c) == Begin(c, "push", PushStatements(change))

DefineNext(c) ==
    /\ job[c].at = "push" /\ job[c].todo # <<>>
    /\ LET s == Head(job[c].todo)
       IN  IF Accepted(db, s)
           THEN /\ db' = Effect(db, db, s)
                /\ job' = [job EXCEPT ![c].todo = Tail(@)]
                /\ UNCHANGED reply
           ELSE End(c, "error") /\ UNCHANGED db
    /\ UNCHANGED <<change, applied, failures>>

Pushed(c) ==
    /\ job[c].at = "push" /\ job[c].todo = <<>>
    /\ End(c, "pushed")
    /\ UNCHANGED <<change, db, applied, failures>>

(* The generated migration, in a transaction with its tracking record. *)
ApplyMigration(c) == ~applied /\ Begin(c, "migrate", generate(change))

RunNext(c) ==
    /\ job[c].at = "migrate" /\ job[c].todo # <<>>
    /\ LET s == Head(job[c].todo)
       IN  IF Accepted(job[c].view, s)
           THEN /\ job' = [job EXCEPT ![c].todo = Tail(@),
                                      ![c].view = Effect(job[c].base, @, s)]
                /\ UNCHANGED reply
           ELSE End(c, "error")
    /\ UNCHANGED <<change, db, applied, failures>>

Commit(c) ==
    /\ job[c].at = "migrate" /\ job[c].todo = <<>>
    /\ IF db = job[c].base /\ ~applied
       THEN db' = job[c].view /\ applied' = TRUE /\ End(c, "migrated")
       ELSE End(c, "error") /\ UNCHANGED <<db, applied>>
    /\ UNCHANGED <<change, failures>>

(* A statement fails: the server, a conflict, or rows that a UNIQUE index does
   not admit.  A push leaves what it has defined; a migration is cancelled.   *)
Fail(c) ==
    /\ job[c].at # "idle" /\ failures < MaxFailures
    /\ failures' = failures + 1
    /\ End(c, "error")
    /\ UNCHANGED <<change, db, applied>>

Push(c)    == PushSchema(c) \/ DefineNext(c) \/ Pushed(c)
Migrate(c) == ApplyMigration(c) \/ RunNext(c) \/ Commit(c)

Next == \E c \in Clients : Push(c) \/ Migrate(c) \/ Fail(c)

Spec == Init /\ [][Next]_vars

(* A client that was not told "pushed" pushes again. *)
FairSpec == Spec /\ \A c \in Clients :
    /\ SF_vars(PushSchema(c))
    /\ WF_vars(DefineNext(c) \/ Pushed(c) \/ RunNext(c) \/ Commit(c))

-----------------------------------------------------------------------------
(* Properties. *)

Migrated == ~applied /\ applied'

(* A migration leaves exactly the tables and the secondary indexes of the next
   schema, over the fields it names, whatever was pushed before; indexes that
   the diff calls unchanged follow renamed fields (migration.rs:161-239).     *)
SchemaFollows == [][Migrated => DefinedAs(db', After(change))]_vars

(* Every column of the next schema holds what its column held before, added
   ones nothing, and no field of the previous schema is left over
   (migration.rs:101-152).                                                   *)
Kept(d, old, new) ==
    \A c \in Columns : new[c] =
        IF c \in Fields(d.next) /\ \E p \in Fields(d.previous) : Mapped(d, p) = c
        THEN old[CHOOSE p \in Fields(d.previous) : Mapped(d, p) = c] ELSE NONE
RowsKept ==
    \A d \in {e \in ToSet(change) : e.kind = "Alter"} :
        LET old == db[d.previous.name].rows  new == db'[d.next.name].rows
        IN  DOMAIN old = DOMAIN new /\ \A id \in DOMAIN old : Kept(d, old[id], new[id])
RowsFollow == [][Migrated => RowsKept]_vars

(* Every index agrees with the rows it covers, although the index builder does
   not see what its own transaction wrote (migration.rs:234-239).            *)
IndexesCurrent ==
    \A t \in DOMAIN db : \A i \in DOMAIN db[t].indices :
        db[t].indices[i].entries =
            [id \in DOMAIN db[t].rows |-> Project(db[t].rows[id], db[t].indices[i].columns)]

(* A change that renames a table, gives record ids another meaning, or keeps a
   column whose type differs, is never applied as generated
   (migration.rs:71-83, 91-99, 120-130).                                     *)
Unsafe(d) ==
    /\ d.kind = "Alter"
    /\ \/ d.previous.name # d.next.name
       \/ [k \in DOMAIN d.previous.primary_key |-> Mapped(d, d.previous.primary_key[k])]
             # d.next.primary_key
       \/ \E c \in ToSet(d.previous.columns), n \in ToSet(d.next.columns) :
             Mapped(d, c) = n /\ d.previous.type[c] # d.next.type[n]
GuardHolds == (\E d \in ToSet(change) : Unsafe(d)) => ~applied

(* Until its guard cancels the transaction, the table that an unsafe change is
   about is as it was when the migration began, wherever in the change its diff
   is and whatever has been done to other tables by then: nothing touches it
   ahead of the guard, and a table created over it is refused
   (migration.rs:230-233).                                                   *)
Untouched(j, n) == n \in DOMAIN j.base /\ n \in DOMAIN j.view /\ j.view[n] = j.base[n]
GuardedUntouched ==
    \A c \in Clients : job[c].at = "migrate" =>
        \A d \in ToSet(change) : Unsafe(d) => Untouched(job[c], d.previous.name)

(* migration.rs:230-231: "Guards come first so an unedited unsafe migration
   cannot perform even a transient destructive change before the SDK transaction
   is cancelled."  It can, to the tables that come before the guarded one.   *)
NoTransientChange ==
    (\E d \in ToSet(change) : Unsafe(d)) =>
        \A c \in Clients : job[c].at = "migrate" => job[c].view = job[c].base

(* A migration is not applied to a database where a table it creates is there
   already, from a push that may have failed halfway (migration.rs:46-48).   *)
DriftDetected ==
    [][Migrated => \A d \in ToSet(change) :
          d.kind = "Create" => d.next.name \notin DOMAIN db]_vars

(* A push that succeeds leaves every table and every secondary index defined,
   whatever other connections and pushes that failed halfway did before
   (conn.rs:118-123).                                                         *)
PushComplete ==
    (\E c \in Clients : reply[c] = "pushed") =>
        \A t \in After(change) : t.name \in DOMAIN db /\
            {i.name : i \in Secondary(t)} \subseteq DOMAIN db[t.name].indices

(* A push that is repeated succeeds in the end: what an earlier one has defined
   does not stand in its way (conn.rs:118-123, migration.rs:51).              *)
PushesEnd == \A c \in Clients : <>(reply[c] = "pushed")

(* RFC 0005 §4.4 (0005-migrations.md:90) has the statements generated in an order
   that is safe for their dependencies, and a rename copy the old field, then
   unset it: two columns that trade names trade their data.                  *)
SwapKeepsData == [][Migrated => RowsKept]_vars
=============================================================================
