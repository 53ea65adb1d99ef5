----------------------------- MODULE RetryClient ------------------------------
(***************************************************************************)
(* Clients that use the driver the way its transaction design expects:     *)
(* each adds one to a counter row in a transaction and repeats the whole   *)
(* transaction when, and only when, the driver reports a serialization     *)
(* failure.  The driver itself never retries.  One client per connection.  *)
(***************************************************************************)
EXTENDS Connection, FiniteSets

CONSTANTS Counter    \* the row the clients count in

ASSUME CounterAssumption == Counter \in Keys
ASSUME PoolAssumption    == IsFiniteSet(Conns)

VARIABLES phase      \* phase[c]: the last operation client c has sent

rvars == <<vars, phase>>

Phase == {"new", "start", "upsert", "commit", "rollback", "abandon", "done", "gaveup"}

StartTx   == [isolation |-> FALSE, mode |-> "Default", read_only |-> FALSE]
Increment == [key |-> Counter, v |-> 1, shared |-> Add(1), action |-> "Update",
              build |-> "ok", decode |-> "ok"]

Become(c, p) == phase' = [phase EXCEPT ![c] = p]
Settle(c, p) == Become(c, p) /\ UNCHANGED vars
Got(c, p, status) == pend[c].await = "idle" /\ phase[c] = p /\ reply[c].status = status

Send(c) ==
    \/ /\ phase[c] = "new" /\ Start(c, StartTx) /\ Become(c, "start")
    \/ /\ Got(c, "start", "ok") /\ Upsert(c, Increment) /\ Become(c, "upsert")
    \/ /\ Got(c, "upsert", "ok") /\ Commit(c) /\ Become(c, "commit")
    \/ /\ Got(c, "upsert", "serialization_failure") /\ Rollback(c) /\ Become(c, "rollback")
    \/ /\ Got(c, "upsert", "driver_operation_failed") /\ Rollback(c) /\ Become(c, "abandon")

Finish(c) ==
    \/ Got(c, "commit", "ok") /\ Settle(c, "done")
    \/ Got(c, "commit", "serialization_failure") /\ Settle(c, "new")
    \/ \E st \in {"ok", "driver_operation_failed"} : Got(c, "rollback", st) /\ Settle(c, "new")
    \/ \E st \in {"ok", "driver_operation_failed"} : Got(c, "abandon", st) /\ Settle(c, "gaveup")
    \/ \E p \in {"start", "commit"} : Got(c, p, "driver_operation_failed") /\ Settle(c, "gaveup")

Client(c)   == Send(c) \/ Finish(c)
Database(c) == Complete(c) /\ UNCHANGED phase

RInit == Init /\ phase = [c \in Conns |-> "new"]
RNext == \E c \in Conns : Client(c) \/ Database(c)

(* Tasks are polled, and awaits on the SDK end: in an answer or an error. *)
RSpec == RInit /\ [][RNext]_rvars
               /\ \A c \in Conns : WF_rvars(Client(c)) /\ WF_rvars(Database(c))

-----------------------------------------------------------------------------
In(ps) == {c \in Conns : phase[c] \in ps}

(* No increment is lost or applied twice although whole transactions are
   repeated: the counter has one for every client that was told "committed",
   and at most one more for every client that was left in doubt.            *)
ExactlyOnce ==
    LET n     == IF store[Counter] = NoRow THEN 0 ELSE store[Counter]
        told  == Cardinality(In({"done"}))
        doubt == Cardinality(In({"commit", "gaveup"}))
    IN n \in told .. told + doubt

(* A transaction that has written nothing, and one whose only write is the
   increment of the counter as it was in the transaction's snapshot.        *)
Untouched(t) == t # NoTx /\ t.eff = [k \in Keys |-> Keep]
Counted(t)   == t # NoTx /\ t.eff = [k \in Keys |-> IF k # Counter THEN Keep
                                      ELSE IF t.base[k] = NoRow THEN Put(1) ELSE Add(1)]

Answered(c, statuses) == pend[c].await = "idle" /\ reply[c].status \in statuses

(* Where client c is agrees with the call in flight, its answer and the open
   transaction: a commit is only ever sent for exactly one increment.       *)
Aligned(c) ==
    /\ phase[c] \in {"new", "done", "gaveup"} => pend[c].await = "idle" /\ srv[c] = NoTx
    /\ phase[c] = "start" =>
          \/ pend[c].await = "begin"
          \/ Answered(c, {"ok"}) /\ Untouched(srv[c])
          \/ Answered(c, {"driver_operation_failed"}) /\ srv[c] = NoTx
    /\ phase[c] = "upsert" =>
          \/ pend[c].await = "query" /\ Untouched(srv[c]) /\ pend[c].todo = <<UpsertStmt(Increment)>>
             /\ ~pend[c].condition
          \/ Answered(c, {"ok"}) /\ Counted(srv[c])
          \/ Answered(c, {"serialization_failure", "driver_operation_failed"}) /\ srv[c] # NoTx
    /\ phase[c] = "commit" =>
          \/ pend[c].await = "commit" /\ Counted(srv[c])
          \/ /\ Answered(c, {"ok", "serialization_failure", "driver_operation_failed"})
             /\ srv[c] = NoTx
    /\ phase[c] \in {"rollback", "abandon"} =>
          \/ pend[c].await = "cancel"
          \/ Answered(c, {"ok", "driver_operation_failed"}) /\ srv[c] = NoTx

(* Those whose commit has been answered "ok", and those who cannot know. *)
Told  == {c \in Conns : phase[c] = "done" \/ (phase[c] = "commit" /\ Answered(c, {"ok"}))}
Doubt == {c \in Conns : phase[c] = "gaveup"
                        \/ (phase[c] = "commit" /\ Answered(c, {"driver_operation_failed"}))}

Count == IF store[Counter] = NoRow THEN 0 ELSE store[Counter]

(* The inductive invariant. *)
RetryInv ==
    /\ ConnInv
    /\ phase \in [Conns -> Phase]
    /\ \A c \in Conns : ~read_only[c] /\ ~pend[c].read_only /\ Aligned(c)
    /\ Count \in Cardinality(Told) .. Cardinality(Told) + Cardinality(Doubt)

(* Retrying on serialization failures is enough: unless something fails every
   client commits, however the conflicts fall.                              *)
EveryoneCommits == [](faults = 0) => <>[](\A c \in Conns : phase[c] = "done")

(* With faults every client still comes to an end with its connection idle
   and free of any transaction.                                             *)
EveryoneSettles ==
    <>[](\A c \in Conns : phase[c] \in {"done", "gaveup"} /\ pend[c] = Idle /\ srv[c] = NoTx)
=============================================================================
