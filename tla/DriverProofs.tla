----------------------------- MODULE DriverProofs -----------------------------
(***************************************************************************)
(* Theorems about Driver, for any number of tasks, resets and restarts.    *)
(***************************************************************************)
EXTENDS Driver, TLAPS

(* Whoever opens or uses the handle holds the mutex; what is opened is missing
   and what is used is there.                                                *)
Guarded == \A c \in Clients :
    /\ call[c].at \in {"opening", "using"} => lock = c
    /\ call[c].at = "opening" => handle = NoStore
    /\ call[c].at = "using" => handle # NoStore

Shared == \A c \in Clients :
    conn[c].current => conn[c].store = handle /\ conn[c].store # NoStore

SInv == TypeOK /\ Guarded /\ Shared

(* Where no call overlaps a reset, or nothing is on disk, a reset that has
   emptied the handle finds it empty until it is done.                        *)
Apart == engine = "File" => \A c \in Clients :
    /\ call[c].at \in Resetting => \A d \in Clients \ {c} : call[d].at = "idle"
    /\ call[c].at \in {"exists", "removing"} => handle = NoStore

(* Marks are never ahead of the stores there are, and whatever a connect can be
   given came into being after the last reset that succeeded was called.      *)
Marked ==
    /\ floor <= opened /\ disk <= opened
    /\ \A c \in Clients : call[c].at \in Connecting => call[c].floor <= floor
    /\ \A c \in Clients : call[c].at \in Resetting => call[c].floor <= opened
    /\ handle # NoStore => floor < handle
    /\ disk # NoStore => floor < disk
    /\ engine = "Mem" => disk = NoStore /\ \A c \in Clients : call[c].at \notin {"exists", "removing"}

SettledInv == SInv /\ Apart /\ Marked /\ AllFresh /\ Durable

FInv == SInv /\ (Settled => SettledInv)

-----------------------------------------------------------------------------
LEMMA InitShared == ASSUME Init PROVE SInv
<1> USE DEF Init, Idle, NoConn, Call, Conn, Connecting, Resetting, NoStore
<1>1. disk \in Nat /\ opened \in Nat
  BY DEF Init
<1>2. TypeOK
  BY <1>1 DEF TypeOK
<1> QED BY <1>2 DEF SInv, Guarded, Shared

(* What ending a call, well or not, and going on with it change. *)
LEMMA Ends ==
    ASSUME TypeOK, NEW c \in Clients, NEW r \in {"none", "ok", "driver_operation_failed", "connection_lost"},
           Return(c, r)
    PROVE  /\ call' \in [Clients -> Call] /\ reply' \in [Clients -> {"none", "ok", "driver_operation_failed", "connection_lost"}]
           /\ \A d \in Clients : call'[d] = IF d = c THEN Idle ELSE call[d]
           /\ Idle.at = "idle" /\ Idle.floor = 0
  BY DEF TypeOK, Return, Idle, Call

LEMMA Succeeds ==
    ASSUME TypeOK, NEW c \in Clients, Done(c)
    PROVE  Return(c, "ok") /\ floor' \in Nat /\ (floor' = floor \/ floor' = call[c].floor)
  BY DEF TypeOK, Done, Call

LEMMA Goes ==
    ASSUME TypeOK, NEW c \in Clients, NEW place \in Connecting \cup Resetting, Goto(c, place)
    PROVE  /\ call' \in [Clients -> Call]
           /\ \A d \in Clients : call'[d].at = IF d = c THEN place ELSE call[d].at
           /\ \A d \in Clients : call'[d].floor = call[d].floor
  BY DEF TypeOK, Goto, Call

LEMMA StepShared == ASSUME SInv, [Next]_vars PROVE SInv'
<1> USE ClientAssumption DEF SInv, TypeOK, Guarded, Shared, Idle, NoConn, Call,
        Conn, Connecting, Resetting, NoStore
<1>1. CASE UNCHANGED vars
  BY <1>1 DEF vars
<1>2. ASSUME NEW c \in Clients, Connect(c) PROVE SInv'
  BY <1>2 DEF Connect
<1>3. ASSUME NEW c \in Clients, Reset(c) PROVE SInv'
  BY <1>3 DEF Reset
<1>4. ASSUME NEW c \in Clients, Enter(c) PROVE SInv'
  <2>1. TypeOK'
    BY <1>4 DEF Enter, Goto
  <2>2. Guarded'
    BY <1>4 DEF Enter, Goto
  <2>3. Shared'
    BY <1>4 DEF Enter, Goto
  <2> QED BY <2>1, <2>2, <2>3
<1>5. ASSUME NEW c \in Clients, Take(c) PROVE SInv'
  <2>1. /\ conn' \in [Clients -> Conn]
        /\ \A d \in Clients : ~conn'[d].current
        /\ handle' = NoStore /\ UNCHANGED <<engine, overlapped, lock, disk, opened, disruptions>>
        /\ lock = Nobody
    BY <1>5 DEF Take
  <2>2. \/ Goto(c, "exists") /\ UNCHANGED <<reply, floor>>
        \/ Done(c)
    BY <1>5 DEF Take
  <2>3. /\ call' \in [Clients -> Call] /\ floor' \in Nat
        /\ reply' \in [Clients -> {"none", "ok", "driver_operation_failed", "connection_lost"}]
        /\ \A d \in Clients : call'[d].at \in {call[d].at, "exists", "idle"}
    BY <2>2, Goes, Succeeds, Ends
  <2> QED BY <2>1, <2>3
<1>6. ASSUME NEW c \in Clients, Open(c) PROVE SInv'
  <2>1. TypeOK'
    BY <1>6 DEF Open, Goto, Opened
  <2>2. Guarded'
    BY <1>6 DEF Open, Goto, Opened
  <2>3. Shared'
    BY <1>6 DEF Open, Goto, Opened
  <2> QED BY <2>1, <2>2, <2>3
<1>7. ASSUME NEW c \in Clients, Use(c) PROVE SInv'
  <2>1. TypeOK'
    BY <1>7 DEF Use, Return, Release
  <2>2. Guarded'
    BY <1>7 DEF Use, Return, Release
  <2>3. Shared'
    BY <1>7 DEF Use, Return, Release
  <2> QED BY <2>1, <2>2, <2>3
<1>8. ASSUME NEW c \in Clients, Exists(c) PROVE SInv'
  <2>1. UNCHANGED <<engine, overlapped, handle, lock, conn, disk, opened, disruptions>>
    BY <1>8 DEF Exists
  <2>2. \/ Goto(c, "removing") /\ UNCHANGED <<reply, floor>>
        \/ Done(c)
    BY <1>8 DEF Exists
  <2>3. /\ call' \in [Clients -> Call] /\ floor' \in Nat
        /\ reply' \in [Clients -> {"none", "ok", "driver_operation_failed", "connection_lost"}]
        /\ \A d \in Clients : call'[d].at \in {call[d].at, "removing", "idle"}
    BY <2>2, Goes, Succeeds, Ends
  <2> QED BY <2>1, <2>3
<1>9. ASSUME NEW c \in Clients, RemoveDirAll(c) PROVE SInv'
  <2>1. UNCHANGED <<engine, overlapped, handle, lock, conn, opened, disruptions>> /\ disk' \in {disk, NoStore}
    BY <1>9 DEF RemoveDirAll
  <2>2. \/ Return(c, "driver_operation_failed") /\ UNCHANGED floor
        \/ Done(c)
    BY <1>9 DEF RemoveDirAll
  <2>3. /\ call' \in [Clients -> Call] /\ floor' \in Nat
        /\ reply' \in [Clients -> {"none", "ok", "driver_operation_failed", "connection_lost"}]
        /\ \A d \in Clients : call'[d].at \in {call[d].at, "idle"}
    BY <2>2, Succeeds, Ends
  <2> QED BY <2>1, <2>3
<1>10. ASSUME NEW c \in Clients, Drop(c) PROVE SInv'
  BY <1>10 DEF Drop, Return, Release, Opened
<1>11. ASSUME NEW c \in Clients, Fail(c) PROVE SInv'
  BY <1>11 DEF Fail, Return, Release
<1>12. ASSUME NEW c \in Clients, Close(c) PROVE SInv'
  BY <1>12 DEF Close
<1>13. CASE Restart
  BY <1>13 DEF Restart
<1> QED BY <1>1, <1>2, <1>3, <1>4, <1>5, <1>6, <1>7, <1>8, <1>9, <1>10, <1>11, <1>12, <1>13
        DEF Next, Await, Work

-----------------------------------------------------------------------------
LEMMA InitFresh == ASSUME Init PROVE FInv
<1>1. SInv
  BY InitShared
<1> QED BY <1>1 DEF Settled, Init, FInv, SettledInv, Apart, Marked, AllFresh, Fresh, Durable, Idle, NoConn,
           Connecting, Resetting, NoStore

(* Which engine it is never changes, and what overlapped stays overlapped. *)
LEMMA Settles ==
    ASSUME TypeOK, [Next]_vars, Settled'
    PROVE  Settled /\ UNCHANGED engine /\ (engine = "File" => UNCHANGED overlapped)
  BY DEF TypeOK, Next, Await, Work, Connect, Enter, Open, Use, Drop, Fail, Close, Reset, Take,
         Exists, RemoveDirAll, Restart, Settled, vars

(* While calls are kept apart. *)
LEMMA StepSettled == ASSUME SettledInv, Settled, Settled', [Next]_vars PROVE SettledInv'
<1> USE ClientAssumption DEF Settled, NoStore, Connecting, Resetting
<1>0. SInv /\ SInv' /\ TypeOK
  BY StepShared DEF SettledInv, SInv
<1>1. CASE UNCHANGED vars
  BY <1>0, <1>1 DEF vars, SettledInv, Apart, Marked, AllFresh, Fresh, Durable
<1>2. ASSUME NEW c \in Clients, Connect(c) PROVE SettledInv'
  <2>1. engine = "File" => \A d \in Clients : call[d].at \notin Resetting
    BY ONLY <1>2, Settled, Settled' DEF Settled, Connect
  <2>2. /\ \A d \in Clients \ {c} : call'[d] = call[d]
        /\ call'[c].at = "connect" /\ call'[c].floor = floor /\ call[c].at = "idle"
        /\ UNCHANGED <<engine, handle, lock, conn, disk, opened, floor>>
    BY <1>0, <1>2 DEF Connect, TypeOK
  <2>3. Apart' /\ Marked'
    BY <1>0, <2>1, <2>2 DEF SettledInv, Apart, Marked, TypeOK
  <2> QED BY <1>0, <2>2, <2>3 DEF SettledInv, AllFresh, Fresh, Durable
<1>3. ASSUME NEW c \in Clients, Reset(c) PROVE SettledInv'
  <2>1. engine = "File" => \A d \in Clients : call[d].at = "idle"
    BY ONLY <1>3, Settled, Settled' DEF Settled, Reset
  <2>2. /\ \A d \in Clients \ {c} : call'[d] = call[d]
        /\ call'[c].at = "reset" /\ call'[c].floor = opened /\ call[c].at = "idle"
        /\ UNCHANGED <<engine, handle, lock, conn, disk, opened, floor>>
    BY <1>0, <1>3 DEF Reset, TypeOK
  <2>3. Apart' /\ Marked'
    BY <1>0, <2>1, <2>2 DEF SettledInv, Apart, Marked, TypeOK
  <2> QED BY <1>0, <2>2, <2>3 DEF SettledInv, AllFresh, Fresh, Durable
<1>4. ASSUME NEW c \in Clients, Enter(c) PROVE SettledInv'
  BY <1>0, <1>4 DEF Enter, Goto, SettledInv, Apart, Marked, AllFresh, Fresh, Durable, TypeOK, Call
<1>5. ASSUME NEW c \in Clients, Take(c) PROVE SettledInv'
  <2>1. /\ handle' = NoStore /\ UNCHANGED <<engine, overlapped, disk, opened, disruptions>>
        /\ \A d \in Clients : /\ conn'[d].store = conn[d].store
                              /\ conn'[d].floor = conn[d].floor
    BY <1>0, <1>5 DEF Take, TypeOK, Conn
  <2>2. call[c].floor \in Nat /\ call[c].floor <= opened /\ call[c].at = "reset"
    BY <1>0, <1>5 DEF Take, SettledInv, Marked, TypeOK, Call
  <2>3. CASE engine = "File"
    <3>1. /\ UNCHANGED floor
          /\ \A d \in Clients : call'[d].at = IF d = c THEN "exists" ELSE call[d].at
          /\ \A d \in Clients : call'[d].floor = call[d].floor
      BY <1>0, <1>5, <2>3, Goes DEF Take
    <3>2. Apart'
      BY <2>1, <2>2, <3>1 DEF SettledInv, Apart
    <3>3. Marked'
      BY <1>0, <2>1, <2>2, <2>3, <3>1 DEF SettledInv, Marked, TypeOK
    <3> QED BY <1>0, <2>1, <3>2, <3>3 DEF SettledInv, AllFresh, Fresh, Durable
  <2>4. CASE engine = "Mem"
    <3>1. /\ floor' \in Nat /\ floor' \in {floor, call[c].floor} /\ floor <= floor'
          /\ \A d \in Clients : call'[d] = IF d = c THEN Idle ELSE call[d]
          /\ Idle.at = "idle"
      <4>1. Done(c)
        BY <1>5, <2>4 DEF Take
      <4>2. floor <= floor'
        BY <1>0, <2>2, <4>1 DEF Done, TypeOK
      <4> QED BY <1>0, <4>1, <4>2, Ends, Succeeds
    <3>2. Marked'
      <4>1. /\ floor \in Nat /\ disk = NoStore /\ floor <= opened /\ disk <= opened
            /\ \A d \in Clients : /\ call[d].at \in Connecting => call[d].floor <= floor
                                  /\ call[d].at \in Resetting => call[d].floor <= opened
                                  /\ call[d].at \notin {"exists", "removing"} /\ call[d].floor \in Nat
        BY <1>0, <2>4 DEF SettledInv, Marked, TypeOK, Call
      <4>2. floor' <= opened' /\ disk' <= opened'
        BY <2>1, <2>2, <3>1, <4>1
      <4>3. \A d \in Clients : call'[d].at \in Connecting => call'[d].floor <= floor'
        BY <3>1, <4>1
      <4>4. \A d \in Clients : call'[d].at \in Resetting => call'[d].floor <= opened'
        BY <2>1, <3>1, <4>1
      <4>5. \A d \in Clients : call'[d].at \notin {"exists", "removing"}
        BY <3>1, <4>1
      <4> QED BY <2>1, <4>1, <4>2, <4>3, <4>4, <4>5 DEF Marked
    <3> QED BY <1>0, <2>1, <2>4, <3>2 DEF SettledInv, Apart, AllFresh, Fresh, Durable
  <2> QED BY <2>3, <2>4
<1>6. ASSUME NEW c \in Clients, Open(c) PROVE SettledInv'
  BY <1>0, <1>6 DEF Open, Opened, Goto, SettledInv, Apart, Marked, AllFresh, Fresh, Durable, TypeOK, Call
<1>7. ASSUME NEW c \in Clients, Use(c) PROVE SettledInv'
  BY <1>0, <1>7 DEF Use, Return, Release, SettledInv, Apart, Marked, AllFresh, Fresh, Durable, TypeOK, Call, Conn, Idle,
                 SInv, Guarded
<1>8. ASSUME NEW c \in Clients, Exists(c) PROVE SettledInv'
  BY <1>0, <1>8 DEF Exists, Goto, Done, Return, SettledInv, Apart, Marked, AllFresh, Fresh, Durable, TypeOK, Call, Idle
<1>9. ASSUME NEW c \in Clients, RemoveDirAll(c) PROVE SettledInv'
  <2>1. engine = "File" /\ handle = NoStore /\ \A d \in Clients \ {c} : call[d].at = "idle"
    BY <1>0, <1>9 DEF RemoveDirAll, SettledInv, Apart, Marked
  <2>2. \A d \in Clients : call'[d].at = "idle"
    BY <1>0, <1>9, <2>1, Ends, Succeeds DEF RemoveDirAll
  <2>3. /\ UNCHANGED <<engine, overlapped, handle, lock, conn, opened, disruptions>>
        /\ \/ disk' \in {disk, NoStore} /\ UNCHANGED floor
           \/ disk' = NoStore /\ floor' \in {floor, call[c].floor}
    BY <1>0, <1>9, Succeeds DEF RemoveDirAll
  <2>4. call[c].floor \in Nat /\ call[c].floor <= opened
    BY <1>0, <1>9 DEF RemoveDirAll, SettledInv, Marked, TypeOK, Call
  <2> QED BY <1>0, <2>1, <2>2, <2>3, <2>4 DEF SettledInv, Apart, Marked, AllFresh, Fresh, Durable, TypeOK
<1>10. ASSUME NEW c \in Clients, Drop(c) PROVE SettledInv'
  BY <1>0, <1>10 DEF Drop, Return, Release, Opened, SettledInv, Apart, Marked, AllFresh, Fresh, Durable, TypeOK, Call, Idle,
                  SInv, Guarded
<1>11. ASSUME NEW c \in Clients, Fail(c) PROVE SettledInv'
  BY <1>0, <1>11 DEF Fail, Return, Release, SettledInv, Apart, Marked, AllFresh, Fresh, Durable, TypeOK, Call, Idle
<1>12. ASSUME NEW c \in Clients, Close(c) PROVE SettledInv'
  BY <1>0, <1>12 DEF Close, NoConn, SettledInv, Apart, Marked, AllFresh, Fresh, Durable, TypeOK, Call, Conn
<1>13. CASE Restart
  BY <1>0, <1>13 DEF Restart, NoConn, Idle, SettledInv, Apart, Marked, AllFresh, Fresh, Durable, TypeOK
<1> QED BY <1>1, <1>2, <1>3, <1>4, <1>5, <1>6, <1>7, <1>8, <1>9, <1>10, <1>11, <1>12, <1>13
        DEF Next, Await, Work

LEMMA StepFresh == ASSUME FInv, [Next]_vars PROVE FInv'
<1>1. SInv /\ SInv' /\ TypeOK
  BY StepShared DEF FInv, SInv
<1>2. ASSUME Settled' PROVE SettledInv'
  <2>1. Settled
    BY <1>1, <1>2, Settles
  <2> QED BY <1>2, <2>1, StepSettled DEF FInv
<1> QED BY <1>1, <1>2 DEF FInv

-----------------------------------------------------------------------------
THEOREM SharedInductive == Spec => []SInv
<1>1. Init => SInv
  BY InitShared
<1>2. SInv /\ [Next]_vars => SInv'
  BY StepShared
<1> QED BY <1>1, <1>2, PTL DEF Spec

(* As long as no other call overlapped a reset, or nothing is on disk, every
   store a connect can be given is newer than the last reset that succeeded.  *)
THEOREM FreshInductive == Spec => []FInv
<1>1. Init => FInv
  BY InitFresh
<1>2. FInv /\ [Next]_vars => FInv'
  BY StepFresh
<1> QED BY <1>1, <1>2, PTL DEF Spec

(* Type correctness. *)
THEOREM Typed == Spec => []TypeOK
<1>1. SInv => TypeOK
  BY DEF SInv
<1> QED BY <1>1, SharedInductive, PTL

(* However connects, resets, failures, dropped calls and restarts interleave,
   connections made since the handle was last emptied share one store.       *)
THEOREM Sharing == Spec => []OneStore
<1>1. SInv => OneStore
  BY DEF SInv, Shared, OneStore
<1> QED BY <1>1, SharedInductive, PTL

(* An in-memory driver always starts fresh after a reset; a file-backed one
   does as long as no other call overlapped a reset.                         *)
THEOREM FreshStart == Spec => []StartsFresh
<1>1. FInv => StartsFresh
  BY DEF FInv, SettledInv, AllFresh, StartsFresh
<1> QED BY <1>1, FreshInductive, PTL

(* On the same condition the store shared is the one in the data directory. *)
THEOREM Durability == Spec => []Durable
<1>1. FInv => Durable
  BY DEF FInv, SettledInv, Settled, Durable
<1> QED BY <1>1, FreshInductive, PTL

(* StoreKept: a connect that fails, is dropped or runs beside others never costs
   the connections their store; a step that changes a handle that holds a store
   empties it, and only reset_db, from its call in the mutex, or a restart takes
   such a step (lib.rs:179-193, lib.rs:253).                                 *)
THEOREM Keeping == Spec => StoreKept
<1>1. SInv /\ [Next]_vars =>
         [handle # NoStore /\ handle' # handle =>
             /\ handle' = NoStore
             /\ disruptions' # disruptions \/ \E c \in Clients : call[c].at = "reset"]_vars
  <2> SUFFICES ASSUME SInv, [Next]_vars, handle # NoStore, handle' # handle
               PROVE  /\ handle' = NoStore
                      /\ disruptions' # disruptions \/ \E c \in Clients : call[c].at = "reset"
    OBVIOUS
  <2>1. Next /\ disruptions \in Nat
    BY DEF vars, SInv, TypeOK
  <2>2. ASSUME NEW c \in Clients
        PROVE  /\ ~Connect(c) /\ ~Reset(c) /\ ~Enter(c) /\ ~Use(c) /\ ~Exists(c) /\ ~RemoveDirAll(c)
               /\ ~Drop(c) /\ ~Fail(c) /\ ~Close(c)
    BY DEF Connect, Reset, Enter, Use, Exists, RemoveDirAll, Drop, Fail, Close
  <2>3. ASSUME NEW c \in Clients PROVE ~Open(c)
    BY DEF Open, SInv, Guarded
  <2>4. CASE Restart
    BY <2>1, <2>4 DEF Restart
  <2>5. ASSUME NEW c \in Clients, Take(c) PROVE handle' = NoStore /\ call[c].at = "reset"
    BY <2>5 DEF Take
  <2> QED BY <2>1, <2>2, <2>3, <2>4, <2>5 DEF Next, Await, Work
<1> QED BY <1>1, SharedInductive, PTL DEF Spec, StoreKept
=============================================================================
