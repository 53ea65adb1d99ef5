------------------------------ MODULE AtomicStore ------------------------------
(***************************************************************************)
(* What a client of the driver is promised: a table of rows, and per       *)
(* connection at most one transaction.  Nothing here knows of handles,     *)
(* flags, stale snapshots or error texts.                                  *)
(***************************************************************************)
EXTENDS SurrealStore, Sequences

CONSTANTS
    Conns      \* connections

VARIABLES
    store,     \* the committed rows
    session,   \* session[c]: snapshot and effects of c's open transaction, or NoTx
    asked,     \* asked[c]: what the call in flight on c waits for
    answer     \* answer[c]: the last answer given on c

vars == <<store, session, asked, answer>>

(* A statement call lists its statements; `strict`: matching no row is an
   error; `ignore`: an existing record is not.                              *)
Request == [what : {"idle", "begin", "commit", "cancel", "query"},
            todo : Seq(Statement), strict : BOOLEAN, ignore : BOOLEAN]
NoRequest == [what |-> "idle", todo |-> << >>, strict |-> FALSE, ignore |-> FALSE]

Fresh(rows) == [base |-> rows, eff |-> [k \in Keys |-> Keep]]

Init ==
    /\ store = NoRows
    /\ session = [c \in Conns |-> NoTx]
    /\ asked = [c \in Conns |-> NoRequest]
    /\ answer = [c \in Conns |-> [status |-> "ok", rows |-> NoRows]]

Answered(c, statuses) ==
    /\ asked' = [asked EXCEPT ![c] = NoRequest]
    /\ \E st \in statuses : answer' = [answer EXCEPT ![c] = [status |-> st, rows |-> NoRows]]

(* A call is made and waits for the store. *)
Ask(c) ==
    /\ asked[c].what = "idle"
    /\ asked'[c] \in Request
    /\ asked'[c].what = "begin" => session[c] = NoTx
    /\ asked'[c].what \in {"commit", "cancel"} => session[c] # NoTx
    /\ asked' = [asked EXCEPT ![c] = asked'[c]]
    /\ UNCHANGED <<store, session, answer>>

Errors == {"unsupported_feature", "serialization_failure", "invalid_statement",
           "read_only_transaction", "condition_failed"}

(* A call is answered without waiting: refused, or it had nothing to do. *)
Immediate(c) ==
    /\ asked[c].what = "idle"
    /\ Answered(c, Errors \cup {"ok"})
    /\ UNCHANGED <<store, session>>

Begin(c) ==
    /\ asked[c].what = "begin"
    /\ session' = [session EXCEPT ![c] = Fresh(store)]
    /\ Answered(c, {"ok"})
    /\ UNCHANGED store

BeginRefused(c) ==
    /\ asked[c].what = "begin"
    /\ Answered(c, {"driver_operation_failed"})
    /\ UNCHANGED <<store, session>>

(* All effects of the transaction, on top of the rows as they are now. *)
Commit(c) ==
    /\ asked[c].what = "commit"
    /\ store' = ApplyAll(session[c].eff, store)
    /\ session' = [session EXCEPT ![c] = NoTx]
    /\ Answered(c, {"ok", "driver_operation_failed"})

CommitRefused(c) ==
    /\ asked[c].what = "commit"
    /\ session' = [session EXCEPT ![c] = NoTx]
    /\ Answered(c, {"serialization_failure", "driver_operation_failed"})
    /\ UNCHANGED store

Rollback(c) ==
    /\ asked[c].what = "cancel"
    /\ session' = [session EXCEPT ![c] = NoTx]
    /\ Answered(c, {"ok", "driver_operation_failed"})
    /\ UNCHANGED store

(* The connection is replaced; its transaction is gone. *)
Drop(c) ==
    /\ asked[c].what = "idle"
    /\ session' = [session EXCEPT ![c] = NoTx]
    /\ Answered(c, {"ok"})
    /\ UNCHANGED store

-----------------------------------------------------------------------------
View(c) == IF session[c] = NoTx THEN store ELSE ApplyAll(session[c].eff, session[c].base)

(* The next statement is not executed: it cannot be built, its record exists,
   or the store rejects it.  Statements executed before it stand.           *)
Skip(c) ==
    /\ asked[c].what = "query"
    /\ LET s == Head(asked[c].todo) IN
       \/ s.build # "ok" /\ Answered(c, {s.build})
       \/ Refused(s, View(c)) /\ Answered(c, {IF asked[c].ignore THEN "ok" ELSE "condition_failed"})
       \/ Answered(c, {"serialization_failure", "driver_operation_failed"})
    /\ UNCHANGED <<store, session>>

(* The answer to an executed statement.  Success reports exactly its rows
   (for a multi-row insert among those of the statements before it); an error
   means that the answer was lost, that the rows do not decode, or that a
   strict statement matched, and so changed, nothing.                       *)
Told(c, s, rows) ==
    \/ /\ Len(asked[c].todo) > 1
       /\ asked' = [asked EXCEPT ![c].todo = Tail(@)]
       /\ UNCHANGED answer
    \/ /\ Len(asked[c].todo) = 1
       /\ ~(asked[c].strict /\ rows = NoRows)
       /\ rows # NoRows => s.decode = "ok"
       /\ asked' = [asked EXCEPT ![c] = NoRequest]
       /\ answer' = [answer EXCEPT ![c] = [status |-> "ok", rows |-> answer'[c].rows]]
       /\ \A k \in Keys : (rows[k] # NoRow \/ s.verb # "CREATE") => answer'[c].rows[k] = rows[k]
    \/ Answered(c, {"driver_operation_failed"})
    \/ asked[c].strict /\ rows = NoRows /\ Answered(c, {"condition_failed"})
    \/ rows # NoRows /\ Answered(c, {s.decode} \ {"ok"})

Execute(c) ==
    LET s == Head(asked[c].todo)
        eff == StmtEffect(s, View(c)) IN
    /\ asked[c].what = "query"
    /\ s.build = "ok"
    /\ ~Refused(s, View(c))
    /\ IF session[c] = NoTx
       THEN store' = ApplyAll(eff, store) /\ UNCHANGED session
       ELSE /\ session' = [session EXCEPT ![c].eff = [k \in Keys |-> Compose(@[k], eff[k])]]
            /\ UNCHANGED store
    /\ Told(c, s, StmtRows(s, View(c)))

Next ==
    \E c \in Conns :
        \/ Ask(c) \/ Immediate(c) \/ Begin(c) \/ BeginRefused(c)
        \/ Commit(c) \/ CommitRefused(c) \/ Rollback(c) \/ Drop(c)
        \/ Skip(c) \/ Execute(c)

Spec == Init /\ [][Next]_vars
=============================================================================
