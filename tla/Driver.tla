-------------------------------- MODULE Driver --------------------------------
(***************************************************************************)
(* SurrealDb (src/src/lib.rs): the handle that all connections of a driver *)
(* share.  Driver::connect opens it on first use, under the mutex around   *)
(* it, and hands out clones; Driver::reset_db empties it and removes the   *)
(* data directory, the latter without the mutex.                           *)
(*                                                                         *)
(* A store is a database with a content of its own, numbered as it comes   *)
(* into being.  Callers run on several threads, a call may be dropped      *)
(* wherever it awaits, and the process may be restarted.                   *)
(***************************************************************************)
EXTENDS Naturals

CONSTANTS
    Clients,        \* tasks that connect and reset
    Nobody,         \* who holds the mutex when it is free
    MaxDisruptions  \* bound: resets and restarts

ASSUME ClientAssumption == Nobody \notin Clients /\ MaxDisruptions \in Nat

NoStore == 0

VARIABLES
    engine,      \* "Mem", "File" (SurrealKv and RocksDb) or "Remote"
    handle,      \* SurrealDb.handle: the store of the shared handle, or NoStore
    lock,        \* the task inside the mutex around it, or Nobody
    call,        \* call[c]: the connect or reset_db c has in progress
    conn,        \* conn[c]: the connection c holds
    disk,        \* the store in the data directory (on the server), or NoStore
    opened,      \* stores that have come into being
    reply,       \* reply[c]: how the last call of c ended
    floor,       \* history: those that had when the last reset to succeed was called
    overlapped,  \* history: another call was in progress during a reset_db
    disruptions  \* resets and restarts so far

vars == <<engine, handle, lock, call, conn, disk, opened, reply, floor, overlapped, disruptions>>

(* `floor`, in a call: the value of the variable when a connect was called, the
   number of stores when a reset_db was.                                     *)
Connecting == {"connect", "opening", "using"}
Resetting  == {"reset", "exists", "removing"}
Call == [at : {"idle"} \cup Connecting \cup Resetting, floor : Nat]
Idle == [at |-> "idle", floor |-> 0]

(* `current`: no reset_db has emptied the shared handle since. *)
Conn   == [store : Nat, floor : Nat, current : BOOLEAN]
NoConn == [store |-> NoStore, floor |-> 0, current |-> FALSE]

-----------------------------------------------------------------------------
Init ==
    /\ engine \in {"Mem", "File", "Remote"} /\ overlapped = FALSE
    /\ handle = NoStore /\ lock = Nobody /\ floor = 0 /\ disruptions = 0
    /\ call = [c \in Clients |-> Idle]
    /\ conn = [c \in Clients |-> NoConn]
    /\ reply = [c \in Clients |-> "none"]
    /\ disk \in CASE engine = "Mem" -> {NoStore}
                  [] engine = "File" -> {NoStore, 1}
                  [] engine = "Remote" -> {1}
    /\ opened = disk

Goto(c, place) == call' = [call EXCEPT ![c].at = place]
Return(c, r)   == call' = [call EXCEPT ![c] = Idle] /\ reply' = [reply EXCEPT ![c] = r]
Release(c)     == lock' = IF lock = c THEN Nobody ELSE lock

(* Where a directory exists, opening it opens the store in it; otherwise a
   store comes into being.                                                  *)
Opened == IF engine = "Mem" \/ disk = NoStore THEN opened + 1 ELSE disk

(* Driver::connect, until session() asks for the mutex. *)
Connect(c) ==
    /\ call[c].at = "idle" /\ conn[c].store = NoStore
    /\ overlapped' = (overlapped \/ \E d \in Clients : call[d].at \in Resetting)
    /\ call' = [call EXCEPT ![c] = [at |-> "connect", floor |-> floor]]
    /\ UNCHANGED <<engine, reply, handle, lock, conn, disk, opened, floor, disruptions>>

(* Mutant: session() does not take the mutex. *)
EnterUnlocked(c) ==
    /\ call[c].at = "connect" /\ lock = Nobody
    /\ Goto(c, IF handle = NoStore THEN "opening" ELSE "using")
    /\ UNCHANGED <<engine, overlapped, reply, handle, lock, conn, disk, opened, floor, disruptions>>

(* session() enters the mutex and keeps it until it returns. *)
Enter(c) ==
    /\ call[c].at = "connect" /\ lock = Nobody
    /\ lock' = c
    /\ Goto(c, IF handle = NoStore THEN "opening" ELSE "using")
    /\ UNCHANGED <<engine, overlapped, reply, handle, conn, disk, opened, floor, disruptions>>

(* engine::any::connect(endpoint).await *)
Open(c) ==
    /\ call[c].at = "opening"
    /\ handle' = Opened
    /\ disk' = IF engine = "Mem" THEN disk ELSE Opened
    /\ opened' = IF Opened > opened THEN Opened ELSE opened
    /\ Goto(c, "using")
    /\ UNCHANGED <<engine, overlapped, reply, lock, conn, floor, disruptions>>

(* use_ns(..).use_db(..).await on a clone of the handle *)
Use(c) ==
    /\ call[c].at = "using"
    /\ conn' = [conn EXCEPT ![c] =
           [store |-> handle, floor |-> call[c].floor, current |-> TRUE]]
    /\ Return(c, "ok") /\ Release(c)
    /\ UNCHANGED <<engine, overlapped, handle, disk, opened, floor, disruptions>>

(* Mutant: the mutex is not released by a dropped call. *)
DropLocked(c) ==
    /\ call[c].at \in Connecting \cup {"reset"}
    /\ Return(c, "none")
    /\ UNCHANGED <<engine, overlapped, handle, lock, conn, disk, opened, floor, disruptions>>

(* The future of a call is dropped where it awaits.  The engine may have created
   the data directory it was opening.                                        *)
Drop(c) ==
    /\ call[c].at \in Connecting \cup {"reset"}
    /\ Return(c, "none") /\ Release(c)
    /\ \/ UNCHANGED <<disk, opened>>
       \/ /\ call[c].at = "opening" /\ engine = "File" /\ disk = NoStore
          /\ disk' = Opened /\ opened' = Opened
    /\ UNCHANGED <<engine, overlapped, handle, conn, floor, disruptions>>

(* Mutant: a failed session empties the handle. *)
FailEmpties(c) ==
    /\ call[c].at \in {"opening", "using"}
    /\ Return(c, "driver_operation_failed") /\ Release(c)
    /\ handle' = NoStore
    /\ UNCHANGED <<engine, overlapped, conn, disk, opened, floor, disruptions>>

(* Opening the store or selecting the database fails: a data directory another
   handle still locks, a server that does not answer.  Such an error carries
   none of the markers classify_error looks for.                             *)
Fail(c) ==
    /\ call[c].at \in {"opening", "using"}
    /\ Return(c, "driver_operation_failed") /\ Release(c)
    /\ UNCHANGED <<engine, overlapped, handle, conn, disk, opened, floor, disruptions>>

Close(c) ==
    /\ conn[c].store # NoStore
    /\ conn' = [conn EXCEPT ![c] = NoConn]
    /\ UNCHANGED <<engine, overlapped, reply, handle, lock, call, disk, opened, floor, disruptions>>

-----------------------------------------------------------------------------
(* Driver::reset_db, until it asks for the mutex. *)
Reset(c) ==
    /\ call[c].at = "idle" /\ disruptions < MaxDisruptions
    /\ overlapped' = (overlapped \/ \E d \in Clients : call[d].at # "idle")
    /\ call' = [call EXCEPT ![c] = [at |-> "reset", floor |-> opened]]
    /\ disruptions' = disruptions + 1
    /\ UNCHANGED <<engine, reply, handle, lock, conn, disk, opened, floor>>

Done(c) ==
    /\ Return(c, "ok")
    /\ floor' = IF call[c].floor > floor THEN call[c].floor ELSE floor

(* Mutant: the handle keeps its store. *)
TakeNothing(c) ==
    /\ call[c].at = "reset" /\ lock = Nobody
    /\ IF engine = "File" THEN Goto(c, "exists") /\ UNCHANGED <<reply, floor>> ELSE Done(c)
    /\ UNCHANGED <<engine, overlapped, handle, conn, lock, disk, opened, disruptions>>

(* handle.lock().await.take(): the guard is a temporary, so the mutex is free
   again at the end of the statement.                                        *)
Take(c) ==
    /\ call[c].at = "reset" /\ lock = Nobody
    /\ handle' = NoStore
    /\ conn' = [d \in Clients |-> [conn[d] EXCEPT !.current = FALSE]]
    /\ IF engine = "File" THEN Goto(c, "exists") /\ UNCHANGED <<reply, floor>> ELSE Done(c)
    /\ UNCHANGED <<engine, overlapped, lock, disk, opened, disruptions>>

(* Mutant: the condition on the directory is the wrong way round. *)
ExistsNot(c) ==
    /\ call[c].at = "exists"
    /\ IF disk # NoStore THEN Done(c) ELSE Goto(c, "removing") /\ UNCHANGED <<reply, floor>>
    /\ UNCHANGED <<engine, overlapped, handle, lock, conn, disk, opened, disruptions>>

(* path.exists() *)
Exists(c) ==
    /\ call[c].at = "exists"
    /\ IF disk = NoStore THEN Done(c) ELSE Goto(c, "removing") /\ UNCHANGED <<reply, floor>>
    /\ UNCHANGED <<engine, overlapped, handle, lock, conn, disk, opened, disruptions>>

(* remove_dir_all(path) fails on a directory that is gone by now, and may
   otherwise fail with the store removed or still in place.                  *)
RemoveDirAll(c) ==
    /\ call[c].at = "removing"
    /\ \/ disk # NoStore /\ disk' = NoStore /\ Done(c)
       \/ disk' \in {disk, NoStore} /\ Return(c, "driver_operation_failed") /\ UNCHANGED floor
    /\ UNCHANGED <<engine, overlapped, handle, lock, conn, opened, disruptions>>

(* The process ends and starts again: what was in memory is gone. *)
Restart ==
    /\ disruptions < MaxDisruptions
    /\ disruptions' = disruptions + 1
    /\ handle' = NoStore /\ lock' = Nobody
    /\ call' = [c \in Clients |-> Idle]
    /\ conn' = [c \in Clients |-> NoConn]
    /\ reply' = [c \in Clients |-> "none"]
    /\ UNCHANGED <<engine, overlapped, disk, opened, floor>>

Await(c) == Enter(c) \/ Take(c)
Work(c)  == Open(c) \/ Use(c) \/ Exists(c) \/ RemoveDirAll(c)

Next ==
    \/ \E c \in Clients : \/ Connect(c) \/ Reset(c) \/ Await(c) \/ Work(c)
                          \/ Drop(c) \/ Fail(c) \/ Close(c)
    \/ Restart

Spec == Init /\ [][Next]_vars

(* The mutex (tokio::sync::Mutex) admits tasks in the order they asked, hence
   strong fairness for entering it; whoever is inside makes progress.         *)
FairSpec == Spec /\ \A c \in Clients : SF_vars(Await(c)) /\ WF_vars(Work(c))

-----------------------------------------------------------------------------
(* Properties. *)

(* Which of the two errors a failed connect is answered is no matter of type:
   see FailedConnectIsLost.                                                   *)
TypeOK ==
    /\ engine \in {"Mem", "File", "Remote"} /\ overlapped \in BOOLEAN
    /\ handle \in Nat /\ disk \in Nat /\ opened \in Nat /\ floor \in Nat
    /\ disruptions \in Nat
    /\ lock \in Clients \cup {Nobody}
    /\ call \in [Clients -> Call]
    /\ conn \in [Clients -> Conn]
    /\ reply \in [Clients ->
           {"none", "ok", "driver_operation_failed", "connection_lost"}]

(* All connections made since the handle was last emptied are to one store, the
   one a further connect is answered too: of several first connects only one
   opens a store (lib.rs:178-194).                                            *)
OneStore == \A c \in Clients : conn[c].current => conn[c].store = handle

(* Failed, dropped and concurrent connects do not cost the connections their
   store, without which an in-memory database is lost: only reset_db and a
   restart empty the handle (lib.rs:179-193).                                *)
StoreKept ==
    [][handle # NoStore /\ handle' # handle =>
           /\ handle' = NoStore
           /\ disruptions' # disruptions \/ \E c \in Clients : call[c].at = "reset"]_vars

(* A connect called after a reset_db succeeded is to a store that came into
   being after the reset_db was called: of an in-memory database always, of one
   in files as long as no other call overlapped a reset_db (lib.rs:251-271).  *)
Fresh(c) == conn[c].store # NoStore => conn[c].store > conn[c].floor
AllFresh == \A c \in Clients : Fresh(c)
Settled  == engine = "Mem" \/ (engine = "File" /\ ~overlapped)
StartsFresh == Settled => AllFresh

(* What is written to the store shared by the connections survives a restart:
   it is the one in the data directory, on the same condition (lib.rs:265-269). *)
Durable == engine = "File" /\ ~overlapped /\ handle # NoStore => handle = disk

(* lib.rs:252: "Drop the cached handle so the next connect starts fresh."  On the
   whole it does not: a connect may reopen the files that are being removed.  *)
NextConnectFresh == engine # "Remote" => AllFresh

(* driver.md:320 has "连接/会话建立失败、句柄不可用" answered connection_lost: a
   connect that fails is never answered the error of a failed operation.      *)
FailedConnectIsLost ==
    [][\A c \in Clients : call[c].at \in Connecting /\ call'[c].at = "idle" =>
           reply'[c] # "driver_operation_failed"]_vars

(* Every call returns: the mutex is never left locked, and nobody waits for it
   forever (lib.rs:178, lib.rs:253).                                          *)
CallsReturn == \A c \in Clients : call[c].at # "idle" ~> call[c].at = "idle"
=============================================================================
