--------------------------- MODULE MigrationsProofs ---------------------------
(***************************************************************************)
(* Proofs about Migrations, for any set of migrations, runners, rows and   *)
(* application statements.                                                 *)
(***************************************************************************)
EXTENDS Migrations, StoreProofs, FiniteSetTheorems, TLAPS

(* The migrations are what the assumptions say, element by element. *)
LEMMA SetFacts ==
    /\ Len(Set) \in Nat /\ Indices \subseteq Nat /\ Tracking \subseteq Keys
    /\ \A x \in Indices : /\ Set[x].id \in Keys /\ Set[x].id \in Tracking
                          /\ Steps(x) \in Seq(Step) /\ Len(Steps(x)) \in Nat
    /\ \A x \in Indices : \A j \in 1..Len(Steps(x)) : Steps(x)[j] \in Step
  <1>1. Len(Set) \in Nat /\ \A x \in Indices : Set[x] \in Migration
        BY SetAssumption DEF Indices
  <1>2. \A x \in Indices : Set[x].id \in Keys /\ Steps(x) \in Seq(Step)
        BY <1>1 DEF Migration, Steps
  <1>3. Indices \subseteq Nat
        BY <1>1 DEF Indices
  <1>4. \A x \in Indices : Len(Steps(x)) \in Nat /\ \A j \in 1..Len(Steps(x)) : Steps(x)[j] \in Step
        BY <1>2
  <1> QED BY <1>1, <1>2, <1>3, <1>4 DEF Tracking

(* A migration's own statements do not name the tracking table, the statement
   after them creates its record.                                           *)
LEMMA StmtAtFacts ==
    ASSUME NEW x \in Indices, NEW j \in 1..Len(Steps(x)) + 1
    PROVE  /\ StmtAt(x, j) \in Statement
           /\ j <= Len(Steps(x)) => StmtAt(x, j).ids \cap Tracking = {}
           /\ j > Len(Steps(x)) => StmtAt(x, j) = Track(x) /\ KindAt(x, j) = "run"
  <1>1. Len(Steps(x)) \in Nat /\ Set[x].id \in Keys
        BY SetFacts
  <1>2. Track(x) \in Statement /\ Track(x).ids = {Set[x].id}
        BY <1>1 DEF Track, Statement, Verb, Effect, Keep, Coding
  <1>3. CASE j <= Len(Steps(x))
    <2>1. j \in 1..Len(Steps(x))
          BY <1>1, <1>3
    <2>2. Steps(x)[j] \in Step /\ StmtAt(x, j) = Steps(x)[j].stmt
          BY <1>3, <2>1, SetFacts DEF StmtAt
    <2>3. Steps(x)[j].stmt.ids \cap Tracking = {}
          BY <2>1, TrackingReserved DEF Steps
    <2> QED BY <1>1, <1>3, <2>2, <2>3 DEF Step
  <1>4. CASE j > Len(Steps(x))
    <2>1. ~(j <= Len(Steps(x)))
          BY <1>1, <1>4
    <2> QED BY <1>2, <2>1 DEF StmtAt, KindAt
  <1> QED BY <1>1, <1>3, <1>4

(* A run stays sound while rows change under it: its transaction learns what
   has moved, and what it takes for applied is not taken back.              *)
LEMMA SoundKept ==
    ASSUME NEW u \in Run, NEW t \in ServerTx \cup {NoTx}, NEW xs \in SUBSET Keys,
           NEW rows \in Rows, NEW after \in Rows, Sound(u, t, rows),
           \A k \in Keys \ xs : after[k] = rows[k],
           \A k \in Tracking : rows[k] # NoRow => after[k] # NoRow
    PROVE  Sound(u, MarkStale(t, xs), after)
  <1> DEFINE s == MarkStale(t, xs)
  <1>1. /\ s = NoTx <=> t = NoTx
        /\ t # NoTx => s.base = t.base /\ s.eff = t.eff /\ s.stale = t.stale \cup xs
        BY MarkStaleEffect
  <1>0. t # NoTx => \A k \in Keys \ t.stale : t.base[k] = rows[k]
        BY DEF Sound
  <1>2. s # NoTx => \A k \in Keys \ s.stale : s.base[k] = after[k]
        BY <1>0, <1>1
  <1> HIDE DEF s
  <1>3. \A k \in u.applied : after[k] # NoRow
        BY DEF Sound, Run
  <1>4. \A x \in Indices : Set[x].id \in Tracking
        BY SetFacts
  <1>5. u.at \notin {"idle", "listing", "selecting"} =>
            u.n \in Indices /\ \A m \in Indices : m < u.n => after[Set[m].id] # NoRow
        BY <1>4 DEF Sound
  <1>6. Sound(u, s, after)
        BY <1>1, <1>2, <1>3, <1>5 DEF Sound
  <1> QED BY <1>6 DEF s

(* What Proceed decides about a run that has every migration up to x. *)
LEMMA ProceedFacts ==
    ASSUME TypeOK, NEW r \in Runners, NEW applied \in SUBSET Tracking, NEW x \in Nat,
           NEW rows \in Rows, \A k \in applied : rows[k] # NoRow,
           \A m \in Indices : m <= x => rows[Set[m].id] # NoRow,
           Proceed(r, applied, x)
    PROVE  /\ run' \in [Runners -> Run] /\ reply' \in [Runners -> Status]
           /\ Sound(run'[r], NoTx, rows)
           /\ \A q \in Runners \ {r} : run'[q] = run[q] /\ reply'[q] = reply[q]
           /\ reply'[r] = "ok" /\ reply[r] # "ok" => \A m \in Indices : rows[Set[m].id] # NoRow
  <1>1. Idle \in Run /\ Idle.at = "idle" /\ Idle.applied = {}
        BY DEF Idle, Run, Place, Status
  <1>2. CASE Pending(applied, x) = {}
    <2>1. run' = [run EXCEPT ![r] = Idle] /\ reply' = [reply EXCEPT ![r] = "ok"]
          BY <1>2 DEF Proceed, Finish
    <2>2. \A m \in Indices : rows[Set[m].id] # NoRow
      <3>1. ASSUME NEW m \in Indices PROVE rows[Set[m].id] # NoRow
            BY <1>2, <3>1, SetFacts DEF Pending
      <3> QED BY <3>1
    <2>3. "ok" \in Status
          BY DEF Status
    <2> QED BY <1>1, <2>1, <2>2, <2>3 DEF TypeOK, Sound
  <1>3. CASE Pending(applied, x) # {}
    <2>1. PICK y \in Pending(applied, x) :
              /\ \A l \in Pending(applied, x) : y <= l
              /\ run' = [run EXCEPT ![r] = [Idle EXCEPT !.at = "apply", !.applied = applied, !.n = y]]
              /\ reply' = reply
          BY <1>3 DEF Proceed
    <2> DEFINE u == [Idle EXCEPT !.at = "apply", !.applied = applied, !.n = y]
    <2>2. y \in Indices /\ y \in Nat
          BY SetFacts DEF Pending
    <2>3. u \in Run /\ u.at = "apply" /\ u.applied = applied /\ u.n = y
          BY <1>1, <2>2 DEF Run, Place, Idle
    <2>4. ASSUME NEW m \in Indices, m < y PROVE rows[Set[m].id] # NoRow
      <3>1. m \in Nat /\ m \notin Pending(applied, x)
            BY <2>1, <2>2, <2>4, SetFacts
      <3>2. m <= x \/ Set[m].id \in applied
            BY <3>1 DEF Pending
      <3> QED BY <3>2
    <2>5. run' = [run EXCEPT ![r] = u]
          BY <2>1
    <2> HIDE DEF u
    <2>6. Sound(u, NoTx, rows)
          BY <2>2, <2>3, <2>4 DEF Sound
    <2> QED BY <2>1, <2>3, <2>5, <2>6 DEF TypeOK
  <1> QED BY <1>2, <1>3

-----------------------------------------------------------------------------
(* A run that is idle is sound. *)
LEMMA IdleSound == Idle \in Run /\ \A rows : Sound(Idle, NoTx, rows)
    BY DEF Idle, Run, Place, Status, Sound

(* Steps of one runner that do not touch the committed rows. *)
LEMMA LocalKeeps ==
    ASSUME MigInv, NEW r \in Runners, store' = store,
           srv' \in [Runners -> ServerTx \cup {NoTx}], run' \in [Runners -> Run],
           reply' \in [Runners -> Status],
           \A q \in Runners \ {r} : srv'[q] = srv[q] /\ run'[q] = run[q] /\ reply'[q] = reply[q],
           Sound(run'[r], srv'[r], store),
           reply'[r] = "ok" /\ reply[r] # "ok" => \A m \in Indices : store[Set[m].id] # NoRow,
           transaction' \in [Runners -> BOOLEAN], runs' \in [Runners -> 0..MaxRuns],
           traffic' \in 0..MaxTraffic, faults' \in 0..MaxFaults
    PROVE  MigInv'
  <1>1. TypeOK'
        BY DEF MigInv, TypeOK
  <1>2. InOrder' /\ GuardHolds'
        BY DEF MigInv, InOrder, GuardHolds, Recorded
  <1>3. DoneMeansApplied'
    <2>1. ASSUME NEW q \in Runners, reply'[q] = "ok"
          PROVE  \A m \in Indices : store[Set[m].id] # NoRow
          BY <2>1 DEF MigInv, DoneMeansApplied, Recorded
    <2> QED BY <2>1 DEF DoneMeansApplied, Recorded
  <1>4. RunsSound'
    <2>1. \A q \in Runners : Sound(run'[q], srv'[q], store)
          BY DEF MigInv, RunsSound
    <2> QED BY <2>1 DEF RunsSound
  <1> QED BY <1>1, <1>2, <1>3, <1>4 DEF MigInv

(* A run that ends without having been told "ok", its transaction gone. *)
LEMMA FinishKeeps ==
    ASSUME MigInv, NEW r \in Runners, NEW status \in Status \ {"ok"}, Finish(r, status),
           store' = store, srv' \in [Runners -> ServerTx \cup {NoTx}], srv'[r] = NoTx,
           \A q \in Runners \ {r} : srv'[q] = srv[q],
           transaction' \in [Runners -> BOOLEAN], runs' \in [Runners -> 0..MaxRuns],
           traffic' \in 0..MaxTraffic, faults' \in 0..MaxFaults
    PROVE  MigInv'
  <1>1. /\ run' = [run EXCEPT ![r] = Idle] /\ reply' = [reply EXCEPT ![r] = status]
        /\ run \in [Runners -> Run] /\ reply \in [Runners -> Status]
        BY DEF Finish, MigInv, TypeOK
  <1>2. /\ run' \in [Runners -> Run] /\ reply' \in [Runners -> Status]
        /\ run'[r] = Idle /\ reply'[r] # "ok"
        /\ \A q \in Runners \ {r} : run'[q] = run[q] /\ reply'[q] = reply[q]
        BY <1>1, IdleSound
  <1>3. Sound(run'[r], srv'[r], store)
        BY <1>2, IdleSound
  <1> QED BY <1>2, <1>3, LocalKeeps

(* A run that goes from one await to another without a transaction. *)
LEMMA GotoKeeps ==
    ASSUME MigInv, NEW r \in Runners, NEW place \in Place, Goto(r, place),
           \/ run[r].at = "idle" /\ place = "listing"
           \/ run[r].at = "listing" /\ place = "selecting"
           \/ run[r].at = "apply" /\ place = "preparing"
           \/ run[r].at = "preparing" /\ place = "begin",
           UNCHANGED <<store, srv>>,
           transaction' \in [Runners -> BOOLEAN], runs' \in [Runners -> 0..MaxRuns],
           traffic' \in 0..MaxTraffic, faults' \in 0..MaxFaults
    PROVE  MigInv'
  <1>1. /\ run' = [run EXCEPT ![r].at = place] /\ reply' = reply
        /\ run \in [Runners -> Run] /\ reply \in [Runners -> Status]
        /\ srv \in [Runners -> ServerTx \cup {NoTx}] /\ run[r] \in Run
        BY DEF Goto, MigInv, TypeOK
  <1> DEFINE u == [run[r] EXCEPT !.at = place]
  <1>2. u \in Run /\ u.at = place /\ u.applied = run[r].applied /\ u.n = run[r].n
        BY <1>1 DEF Run
  <1>3. run'[r] = u /\ run' \in [Runners -> Run] /\ \A q \in Runners \ {r} : run'[q] = run[q]
        BY <1>1, <1>2
  <1>4. Sound(run[r], srv[r], store)
        BY DEF MigInv, RunsSound
  <1> HIDE DEF u
  <1>5. Sound(u, srv[r], store)
        BY <1>2, <1>4 DEF Sound
  <1> QED BY <1>1, <1>3, <1>5, LocalKeeps

-----------------------------------------------------------------------------
(* Steps inside the migration's transaction. *)

(* begin() answers: the snapshot is the committed rows. *)
LEMMA BeginOkKeeps ==
    ASSUME MigInv, NEW r \in Runners, BeginOk(r)
    PROVE  MigInv'
  <1>1. /\ run' = [run EXCEPT ![r].at = "step", ![r].i = 1] /\ run[r].at = "begin"
        /\ srv' = [srv EXCEPT ![r] = BeginTx(store)]
        /\ UNCHANGED <<store, transaction, reply, runs, traffic, faults>>
        BY DEF BeginOk, At, bookkeeping
  <1>2. /\ run \in [Runners -> Run] /\ run[r] \in Run /\ store \in Rows
        /\ srv \in [Runners -> ServerTx \cup {NoTx}]
        /\ Sound(run[r], srv[r], store)
        BY DEF MigInv, TypeOK, RunsSound
  <1> DEFINE u == [run[r] EXCEPT !.at = "step", !.i = 1]
             t == BeginTx(store)
  <1>3. u \in Run /\ u.at = "step" /\ u.i = 1 /\ u.applied = run[r].applied /\ u.n = run[r].n
        BY <1>2 DEF Run, Place
  <1>4. t \in ServerTx /\ t # NoTx /\ t.base = store /\ Written(t.eff) = {}
        BY <1>2, BeginTyping
  <1>5. /\ run' = [run EXCEPT ![r] = u] /\ srv' = [srv EXCEPT ![r] = t]
        BY <1>1, <1>2
  <1> HIDE DEF u, t
  <1>6. /\ run' \in [Runners -> Run] /\ srv' \in [Runners -> ServerTx \cup {NoTx}]
        /\ run'[r] = u /\ srv'[r] = t
        /\ \A q \in Runners \ {r} : run'[q] = run[q] /\ srv'[q] = srv[q]
        BY <1>2, <1>3, <1>4, <1>5
  <1>7. u.n \in Indices /\ Len(Steps(u.n)) \in Nat
        BY <1>1, <1>2, <1>3, SetFacts DEF Sound
  <1>8. Passed(u.n, u.i - 1) /\ u.i \in 1..Len(Steps(u.n)) + 1
        BY <1>3, <1>7 DEF Passed
  <1>9. Sound(u, t, store)
        BY <1>1, <1>2, <1>3, <1>4, <1>7, <1>8 DEF Sound
  <1> QED BY <1>1, <1>6, <1>9, LocalKeeps DEF MigInv, TypeOK

(* What holds of a run that is about to execute a statement. *)
LEMMA StepFacts ==
    ASSUME MigInv, NEW r \in Runners, At(r, "step")
    PROVE  /\ run \in [Runners -> Run] /\ run[r] \in Run /\ store \in Rows
           /\ srv \in [Runners -> ServerTx \cup {NoTx}] /\ srv[r] \in ServerTx /\ srv[r] # NoTx
           /\ run[r].n \in Indices /\ Len(Steps(run[r].n)) \in Nat
           /\ run[r].i \in 1..Len(Steps(run[r].n)) + 1
           /\ Passed(run[r].n, run[r].i - 1)
           /\ Written(srv[r].eff) \cap Tracking = {}
           /\ Sound(run[r], srv[r], store)
  <1>1. /\ run \in [Runners -> Run] /\ run[r] \in Run /\ store \in Rows
        /\ srv \in [Runners -> ServerTx \cup {NoTx}]
        /\ Sound(run[r], srv[r], store) /\ run[r].at = "step"
        BY DEF MigInv, TypeOK, RunsSound, At
  <1>2. run[r].n \in Indices /\ srv[r] # NoTx
        BY <1>1 DEF Sound
  <1> QED BY <1>1, <1>2, SetFacts DEF Sound

(* A statement that succeeds extends the statements passed. *)
LEMMA PassedNext ==
    ASSUME NEW x \in Indices, NEW j \in 1..Len(Steps(x)) + 1,
           Passed(x, j - 1), KindAt(x, j) \in {"blank", "run"}
    PROVE  Passed(x, j)
  <1>1. \A l \in 1..j : l = j \/ l \in 1..(j - 1)
        BY SetFacts
  <1> QED BY <1>1 DEF Passed

(* Blank text is not sent. *)
LEMMA BlankKeeps ==
    ASSUME MigInv, NEW r \in Runners, Blank(r)
    PROVE  MigInv'
  <1>1. /\ run' = [run EXCEPT ![r].i = @ + 1] /\ run[r].at = "step"
        /\ KindAt(run[r].n, run[r].i) = "blank"
        /\ UNCHANGED <<store, srv, transaction, reply, runs, traffic, faults>>
        BY DEF Blank, At, bookkeeping
  <1>2. /\ run \in [Runners -> Run] /\ run[r] \in Run /\ srv \in [Runners -> ServerTx \cup {NoTx}]
        /\ run[r].n \in Indices /\ Len(Steps(run[r].n)) \in Nat
        /\ run[r].i \in 1..Len(Steps(run[r].n)) + 1
        /\ Passed(run[r].n, run[r].i - 1) /\ Sound(run[r], srv[r], store)
        BY <1>1, StepFacts DEF At
  <1> DEFINE u == [run[r] EXCEPT !.i = @ + 1]
  <1>3. /\ u \in Run /\ u.at = "step" /\ u.i = run[r].i + 1
        /\ u.applied = run[r].applied /\ u.n = run[r].n
    <2>1. run[r] \in Run /\ run[r].at = "step" /\ run[r].i + 1 \in Nat
          BY <1>1, <1>2 DEF Run
    <2> QED BY <2>1 DEF Run
  <1>4. run' = [run EXCEPT ![r] = u]
        BY <1>1, <1>2
  <1> HIDE DEF u
  <1>5. run'[r] = u /\ run' \in [Runners -> Run] /\ \A q \in Runners \ {r} : run'[q] = run[q]
        BY <1>2, <1>3, <1>4
  <1>6. run[r].i <= Len(Steps(run[r].n))
        BY <1>1, <1>2, StmtAtFacts
  <1>7. Passed(run[r].n, run[r].i)
        BY <1>1, <1>2, PassedNext
  <1>8. u.i \in 1..Len(Steps(u.n)) + 1 /\ Passed(u.n, u.i - 1)
        BY <1>2, <1>3, <1>6, <1>7
  <1>9. Sound(u, srv[r], store)
        BY <1>1, <1>2, <1>3, <1>8 DEF Sound
  <1> QED BY <1>1, <1>2, <1>5, <1>9, LocalKeeps DEF MigInv, TypeOK

(* A statement that fails sends the run to its cancel(). *)
LEMMA StmtFailsKeeps ==
    ASSUME MigInv, NEW r \in Runners, NEW facts, StmtFails(r, facts)
    PROVE  MigInv'
  <1>1. /\ run' = [run EXCEPT ![r].at = "cancel", ![r].error = classify_migration_error(facts)]
        /\ run[r].at = "step" /\ Rejected(r, facts)
        /\ UNCHANGED <<store, srv, transaction, reply, runs, traffic>>
        BY DEF StmtFails, At
  <1>2. /\ run \in [Runners -> Run] /\ run[r] \in Run /\ Sound(run[r], srv[r], store)
        /\ srv \in [Runners -> ServerTx \cup {NoTx}]
        BY <1>1, StepFacts DEF At
  <1>3. faults' \in 0..MaxFaults
        BY <1>1, BoundsAssumption DEF Rejected, Fault, MigInv, TypeOK
  <1>4. classify_migration_error(facts) \in Error
        BY DEF classify_migration_error, Error
  <1> DEFINE u == [run[r] EXCEPT !.at = "cancel", !.error = classify_migration_error(facts)]
  <1>5. u \in Run /\ u.at = "cancel" /\ u.applied = run[r].applied /\ u.n = run[r].n
        BY <1>2, <1>4 DEF Run, Place
  <1>6. run' = [run EXCEPT ![r] = u]
        BY <1>1, <1>2
  <1> HIDE DEF u
  <1>7. run'[r] = u /\ run' \in [Runners -> Run] /\ \A q \in Runners \ {r} : run'[q] = run[q]
        BY <1>2, <1>5, <1>6
  <1>8. Sound(u, srv[r], store)
        BY <1>1, <1>2, <1>5 DEF Sound
  <1> QED BY <1>1, <1>2, <1>3, <1>7, <1>8, LocalKeeps DEF MigInv, TypeOK

(* What a statement adds to the migration's transaction: its own statements
   leave the tracking table alone, the last one creates the record.         *)
LEMMA StmtWrites ==
    ASSUME NEW x \in Indices, NEW j \in 1..Len(Steps(x)) + 1, NEW t \in ServerTx,
           Written(t.eff) \cap Tracking = {}, ~Refused(StmtAt(x, j), TxView(t))
    PROVE  LET after == TxWrite(t, StmtEffect(StmtAt(x, j), TxView(t))) IN
           /\ after \in ServerTx /\ after.base = t.base /\ after.stale = t.stale
           /\ j <= Len(Steps(x)) => Written(after.eff) \cap Tracking = {}
           /\ j > Len(Steps(x)) => /\ Written(after.eff) \cap Tracking = {Set[x].id}
                                   /\ after.eff[Set[x].id] = Put(0)
                                   /\ t.base[Set[x].id] = NoRow
  <1> DEFINE s     == StmtAt(x, j)
             eff   == StmtEffect(s, TxView(t))
             after == TxWrite(t, eff)
  <1>1. /\ s \in Statement /\ Len(Steps(x)) \in Nat
        /\ j <= Len(Steps(x)) => s.ids \cap Tracking = {}
        /\ j > Len(Steps(x)) => s = Track(x)
        /\ Set[x].id \in Keys /\ Set[x].id \in Tracking /\ Tracking \subseteq Keys
        BY StmtAtFacts, SetFacts
  <1>2. t.base \in Rows /\ t.eff \in [Keys -> Effect] /\ TxView(t) \in Rows
        BY TxTyping DEF ServerTx
  <1>3. eff \in [Keys -> Effect]
        BY <1>1, <1>2, StmtTyping
  <1>4. after \in ServerTx
        BY <1>3, TxTyping
  <1>5. /\ after.base = t.base /\ after.stale = t.stale
        /\ after.eff = [k \in Keys |-> Compose(t.eff[k], eff[k])]
        BY DEF TxWrite, ServerTx
  <1>6. \A k \in Keys \ s.ids : eff[k] = Keep
        BY <1>1, StmtLocal
  <1>7. \A k \in Tracking : t.eff[k].kind = "keep"
        BY <1>1 DEF Written
  <1> HIDE DEF after
  <1>8. ASSUME NEW k \in Tracking \ s.ids
        PROVE  k \notin Written(after.eff)
    <2>1. eff[k] = Keep /\ t.eff[k] \in Effect /\ after.eff[k] = Compose(t.eff[k], eff[k])
          BY <1>1, <1>2, <1>5, <1>6
    <2>2. after.eff[k] = t.eff[k]
          BY <2>1 DEF Keep, Compose
    <2> QED BY <1>7, <2>2 DEF Written
  <1>9. CASE j <= Len(Steps(x))
    <2>1. Tracking \cap s.ids = {}
          BY <1>1, <1>9
    <2>2. Written(after.eff) \cap Tracking = {}
          BY <1>8, <2>1
    <2>3. ~(j > Len(Steps(x)))
          BY <1>1, <1>9
    <2> QED BY <1>4, <1>5, <2>2, <2>3 DEF after
  <1>10. CASE j > Len(Steps(x))
    <2> DEFINE id == Set[x].id
    <2>1. s.ids = {id} /\ s.verb = "CREATE" /\ s.init = 0
          BY <1>1, <1>10 DEF Track
    <2>2. eff[id] = Put(0)
          BY <1>1, <2>1, StmtLocal
    <2>3. after.eff[id] = Compose(t.eff[id], Put(0))
          BY <1>1, <1>5, <2>2
    <2>4. after.eff[id] = Put(0)
          BY <1>1, <1>7, <2>3 DEF Compose, Put
    <2>5. id \in Written(after.eff)
          BY <1>1, <2>4 DEF Written, Put
    <2>6. Written(after.eff) \cap Tracking = {id}
          BY <1>1, <1>8, <2>1, <2>5
    <2>7. TxView(t)[id] = NoRow
          BY <2>1 DEF Refused
    <2>8. TxView(t)[id] = t.base[id]
          BY <1>1, <1>7 DEF TxView, ApplyAll, ApplyEffect
    <2>9. ~(j <= Len(Steps(x)))
          BY <1>1, <1>10
    <2> QED BY <1>4, <1>5, <2>4, <2>6, <2>7, <2>8, <2>9 DEF after
  <1> QED BY <1>1, <1>9, <1>10

(* A statement succeeds; after the CREATE of the record comes the commit. *)
LEMMA StmtOkKeeps ==
    ASSUME MigInv, NEW r \in Runners, StmtOk(r)
    PROVE  MigInv'
  <1> DEFINE x     == run[r].n
             j     == run[r].i
             after == TxWrite(srv[r], StmtEffect(StmtAt(x, j), TxView(srv[r])))
             u     == IF j > Len(Steps(x)) THEN [run[r] EXCEPT !.at = "commit"]
                      ELSE [run[r] EXCEPT !.i = @ + 1]
  <1>1. /\ run[r].at = "step" /\ KindAt(x, j) = "run" /\ ~Refused(StmtAt(x, j), TxView(srv[r]))
        /\ srv' = [srv EXCEPT ![r] = after] /\ Advance(r)
        /\ UNCHANGED <<store, transaction, reply, runs, traffic, faults>>
        BY DEF StmtOk, At, Advance, bookkeeping
  <1>2. /\ run \in [Runners -> Run] /\ run[r] \in Run
        /\ srv \in [Runners -> ServerTx \cup {NoTx}] /\ srv[r] \in ServerTx /\ srv[r] # NoTx
        /\ x \in Indices /\ Len(Steps(x)) \in Nat /\ j \in 1..Len(Steps(x)) + 1
        /\ Passed(x, j - 1) /\ Written(srv[r].eff) \cap Tracking = {}
        /\ Sound(run[r], srv[r], store)
        BY <1>1, StepFacts DEF At
  <1>3. /\ after \in ServerTx /\ after.base = srv[r].base /\ after.stale = srv[r].stale
        /\ j <= Len(Steps(x)) => Written(after.eff) \cap Tracking = {}
        /\ j > Len(Steps(x)) => /\ Written(after.eff) \cap Tracking = {Set[x].id}
                                /\ after.eff[Set[x].id] = Put(0)
                                /\ after.base[Set[x].id] = NoRow
        BY <1>1, <1>2, StmtWrites
  <1>4. after # NoTx
        BY <1>3, NoTxAssumption
  <1>5. u \in Run /\ u.applied = run[r].applied /\ u.n = x
    <2>1. run[r] \in Run /\ j + 1 \in Nat
          BY <1>2
    <2> QED BY <2>1 DEF Run, Place
  <1>6. /\ j > Len(Steps(x)) => u.at = "commit"
        /\ j <= Len(Steps(x)) => u.at = "step" /\ u.i = j + 1
    <2>1. run[r] \in Run /\ run[r].at = "step" /\ (j <= Len(Steps(x)) <=> ~(j > Len(Steps(x))))
          BY <1>1, <1>2
    <2> QED BY <2>1 DEF Run
  <1>7. run' = [run EXCEPT ![r] = u]
        BY <1>1, <1>2 DEF Advance
  <1>8. Passed(x, j)
        BY <1>1, <1>2, PassedNext
  <1> HIDE DEF u, after
  <1>9. /\ run'[r] = u /\ run' \in [Runners -> Run]
        /\ srv'[r] = after /\ srv' \in [Runners -> ServerTx \cup {NoTx}]
        /\ \A q \in Runners \ {r} : run'[q] = run[q] /\ srv'[q] = srv[q]
        BY <1>1, <1>2, <1>3, <1>5, <1>7
  <1>10. /\ \A k \in Keys \ after.stale : after.base[k] = store[k]
         /\ \A k \in u.applied : store[k] # NoRow
         /\ \A m \in Indices : m < x => store[Set[m].id] # NoRow
         BY <1>1, <1>2, <1>3, <1>5 DEF Sound
  <1>11. CASE j > Len(Steps(x))
    <2>1. Passed(x, Len(Steps(x)))
          BY <1>2, <1>8, <1>11 DEF Passed
    <2>2. u.at = "commit" /\ u.n = x
          BY <1>5, <1>6, <1>11
    <2>3. Sound(u, after, store)
          BY <1>2, <1>3, <1>4, <1>10, <1>11, <2>1, <2>2 DEF Sound
    <2> QED BY <1>1, <1>9, <2>3, LocalKeeps DEF MigInv, TypeOK
  <1>12. CASE j <= Len(Steps(x))
    <2>1. u.at = "step" /\ u.i = j + 1 /\ u.i \in 1..Len(Steps(x)) + 1 /\ u.i - 1 = j
          BY <1>2, <1>6, <1>12
    <2>2. Sound(u, after, store)
          BY <1>2, <1>3, <1>4, <1>5, <1>8, <1>10, <1>12, <2>1 DEF Sound
    <2> QED BY <1>1, <1>9, <2>2, LocalKeeps DEF MigInv, TypeOK
  <1> QED BY <1>2, <1>11, <1>12

-----------------------------------------------------------------------------
(* The end of apply_migration. *)

(* The error a failing await is turned into. *)
LEMMA ErrorStatus ==
    /\ \A facts : classify_migration_error(facts) \in Status \ {"ok"}
    /\ \A e \in Error \cup {"none"} : e \in Status \ {"ok"}
    BY DEF classify_migration_error, Status, Error

(* A fault stays within its bound. *)
LEMMA FaultTyping ==
    ASSUME TypeOK, Fault
    PROVE  faults' \in 0..MaxFaults
  <1>1. faults \in 0..MaxFaults /\ faults < MaxFaults /\ faults' = faults + 1 /\ MaxFaults \in Nat
        BY BoundsAssumption DEF TypeOK, Fault
  <1> QED BY <1>1

(* Dropping the transaction touches nothing else. *)
LEMMA DiscardEffect ==
    ASSUME TypeOK, NEW r \in Runners, Discard(r)
    PROVE  /\ store' = store /\ srv' \in [Runners -> ServerTx \cup {NoTx}] /\ srv'[r] = NoTx
           /\ \A q \in Runners \ {r} : srv'[q] = srv[q]
    BY DEF TypeOK, Discard

(* What a commit does: it adds the record of the migration being applied,
   which was not there while all earlier ones were, and touches no other
   record; the other transactions learn which rows moved.                   *)
LEMMA PublishFacts ==
    ASSUME MigInv, NEW r \in Runners, At(r, "commit"), ~Conflicts(srv[r]), Publish(r)
    PROVE  /\ run[r].n \in Indices /\ Passed(run[r].n, Len(Steps(run[r].n)))
           /\ store' \in Rows
           /\ store[Set[run[r].n].id] = NoRow /\ store'[Set[run[r].n].id] # NoRow
           /\ \A k \in Tracking \ {Set[run[r].n].id} : store'[k] = store[k]
           /\ \A m \in Indices : m < run[r].n => store[Set[m].id] # NoRow
           /\ srv' \in [Runners -> ServerTx \cup {NoTx}] /\ srv'[r] = NoTx
           /\ Written(srv[r].eff) \in SUBSET Keys
           /\ \A q \in Runners \ {r} : srv'[q] = MarkStale(srv[q], Written(srv[r].eff))
           /\ \A k \in Keys \ Written(srv[r].eff) : store'[k] = store[k]
  <1> DEFINE x  == run[r].n
             id == Set[x].id
             t  == srv[r]
             xs == Written(t.eff)
  <1>1. /\ run[r] \in Run /\ store \in Rows /\ srv \in [Runners -> ServerTx \cup {NoTx}]
        /\ Sound(run[r], t, store) /\ run[r].at = "commit"
        BY DEF MigInv, TypeOK, RunsSound, At
  <1>2. /\ x \in Indices /\ t # NoTx /\ Passed(x, Len(Steps(x)))
        /\ \A k \in Keys \ t.stale : t.base[k] = store[k]
        /\ \A m \in Indices : m < x => store[Set[m].id] # NoRow
        /\ xs \cap Tracking = {id} /\ t.eff[id] = Put(0) /\ t.base[id] = NoRow
        BY <1>1 DEF Sound
  <1>3. t \in ServerTx /\ id \in Keys /\ id \in Tracking /\ Tracking \subseteq Keys
        BY <1>1, <1>2, SetFacts
  <1>4. id \in xs /\ id \notin t.stale
        BY <1>2 DEF Conflicts
  <1>5. store[id] = NoRow
        BY <1>2, <1>3, <1>4
  <1>6. store' = CommitRows(t, store)
        BY DEF Publish
  <1>7. store' \in Rows
        BY <1>1, <1>3, <1>6, TxTyping
  <1>8. \A k \in Keys \ xs : store'[k] = store[k]
        BY <1>6 DEF CommitRows
  <1>9. store'[id] = TxView(t)[id]
        BY <1>3, <1>4, <1>6 DEF CommitRows
  <1>10. TxView(t)[id] = 0
    <2>1. TxView(t)[id] = ApplyEffect(t.eff[id], t.base[id])
          BY <1>3 DEF TxView, ApplyAll
    <2>2. ApplyEffect(Put(0), NoRow) = 0
          BY DEF ApplyEffect, Put
    <2> QED BY <1>2, <2>1, <2>2
  <1>11. store'[id] # NoRow
         BY <1>9, <1>10, NoRowAssumption
  <1>12. \A k \in Tracking \ {id} : store'[k] = store[k]
         BY <1>2, <1>3, <1>8
  <1>13. xs \in SUBSET Keys
         BY DEF Written
  <1>14. srv' = [q \in Runners |-> IF q = r THEN NoTx ELSE MarkStale(srv[q], xs)]
         BY DEF Publish
  <1>15. \A q \in Runners : MarkStale(srv[q], xs) \in ServerTx \cup {NoTx}
    <2>1. ASSUME NEW q \in Runners PROVE MarkStale(srv[q], xs) \in ServerTx \cup {NoTx}
      <3>1. srv[q] \in ServerTx \cup {NoTx}
            BY <1>1
      <3> QED BY <1>13, <3>1, MarkStaleEffect
    <2> QED BY <2>1
  <1> HIDE DEF xs
  <1>16. /\ srv' \in [Runners -> ServerTx \cup {NoTx}] /\ srv'[r] = NoTx
         /\ \A q \in Runners \ {r} : srv'[q] = MarkStale(srv[q], xs)
         BY <1>14, <1>15
  <1> QED BY <1>2, <1>5, <1>7, <1>8, <1>11, <1>12, <1>13, <1>16 DEF xs

(* Changes of the committed rows that take no tracking record away. *)
LEMMA OthersKeep ==
    ASSUME MigInv, NEW r \in Runners, NEW xs \in SUBSET Keys, store' \in Rows,
           run'[r] = run[r], srv'[r] = MarkStale(srv[r], xs),
           \A k \in Keys \ xs : store'[k] = store[k],
           \A k \in Tracking : store[k] # NoRow => store'[k] # NoRow
    PROVE  Sound(run'[r], srv'[r], store')
  <1>1. /\ run[r] \in Run /\ srv[r] \in ServerTx \cup {NoTx} /\ store \in Rows
        /\ Sound(run[r], srv[r], store)
        BY DEF MigInv, TypeOK, RunsSound
  <1> QED BY <1>1, SoundKept

(* A commit followed by a sound run keeps the invariant. *)
LEMMA PublishKeeps ==
    ASSUME MigInv, NEW r \in Runners, At(r, "commit"), ~Conflicts(srv[r]), Publish(r),
           run' \in [Runners -> Run], reply' \in [Runners -> Status],
           \A q \in Runners \ {r} : run'[q] = run[q] /\ reply'[q] = reply[q],
           Sound(run'[r], NoTx, store'),
           reply'[r] = "ok" /\ reply[r] # "ok" => \A m \in Indices : store'[Set[m].id] # NoRow,
           transaction' \in [Runners -> BOOLEAN], runs' \in [Runners -> 0..MaxRuns],
           traffic' \in 0..MaxTraffic, faults' \in 0..MaxFaults
    PROVE  MigInv'
  <1> DEFINE x  == run[r].n
             xs == Written(srv[r].eff)
  <1>1. /\ x \in Indices /\ Passed(x, Len(Steps(x))) /\ store' \in Rows
        /\ store[Set[x].id] = NoRow /\ store'[Set[x].id] # NoRow
        /\ \A k \in Tracking \ {Set[x].id} : store'[k] = store[k]
        /\ \A m \in Indices : m < x => store[Set[m].id] # NoRow
        /\ srv' \in [Runners -> ServerTx \cup {NoTx}] /\ srv'[r] = NoTx
        /\ xs \in SUBSET Keys
        /\ \A q \in Runners \ {r} : srv'[q] = MarkStale(srv[q], xs)
        /\ \A k \in Keys \ xs : store'[k] = store[k]
        BY PublishFacts
  <1> HIDE DEF x, xs
  <1>2. \A m \in Indices : Set[m].id \in Tracking
        BY SetFacts
  <1>3. \A m \in Indices \ {x} : Set[m].id # Set[x].id
        BY <1>1, SetAssumption
  <1>4. \A m \in Indices \ {x} : store'[Set[m].id] = store[Set[m].id]
        BY <1>1, <1>2, <1>3
  <1>5. \A k \in Tracking : store[k] # NoRow => store'[k] # NoRow
        BY <1>1
  <1>6. TypeOK'
        BY <1>1 DEF TypeOK
  <1>7. InOrder'
    <2>1. ASSUME NEW m \in Indices, NEW n \in Indices, store'[Set[n].id] # NoRow, m < n
          PROVE  store'[Set[m].id] # NoRow
      <3>1. CASE n = x
            BY <1>1, <1>2, <1>5, <2>1, <3>1
      <3>2. CASE n # x
            BY <1>2, <1>4, <1>5, <2>1, <3>2 DEF MigInv, InOrder, Recorded
      <3> QED BY <3>1, <3>2
    <2> QED BY <2>1 DEF InOrder, Recorded
  <1>8. GuardHolds'
    <2>1. ASSUME NEW n \in Indices, store'[Set[n].id] # NoRow
          PROVE  Passed(n, Len(Steps(n)))
          BY <1>1, <1>4, <2>1 DEF MigInv, GuardHolds, Recorded
    <2> QED BY <2>1 DEF GuardHolds, Recorded
  <1>9. DoneMeansApplied'
    <2>1. ASSUME NEW q \in Runners, reply'[q] = "ok"
          PROVE  \A m \in Indices : store'[Set[m].id] # NoRow
      <3>1. CASE reply[q] = "ok"
            BY <1>2, <1>5, <3>1 DEF MigInv, DoneMeansApplied, Recorded
      <3>2. CASE reply[q] # "ok"
            BY <2>1, <3>2
      <3> QED BY <3>1, <3>2
    <2> QED BY <2>1 DEF DoneMeansApplied, Recorded
  <1>10. RunsSound'
    <2>1. ASSUME NEW q \in Runners PROVE Sound(run'[q], srv'[q], store')
      <3>1. CASE q = r
            BY <1>1, <3>1
      <3>2. CASE q # r
        <4>1. run'[q] = run[q] /\ srv'[q] = MarkStale(srv[q], xs)
              BY <1>1, <3>2
        <4> QED BY <1>1, <1>5, <4>1, OthersKeep
      <3> QED BY <3>1, <3>2
    <2> QED BY <2>1 DEF RunsSound
  <1> QED BY <1>6, <1>7, <1>8, <1>9, <1>10 DEF MigInv

(* The commit succeeds and apply_migration answers Ok. *)
LEMMA CommitOkKeeps ==
    ASSUME MigInv, NEW r \in Runners, CommitOk(r)
    PROVE  MigInv'
  <1>1. /\ At(r, "commit") /\ ~Conflicts(srv[r]) /\ Publish(r)
        /\ Proceed(r, run[r].applied, run[r].n)
        /\ UNCHANGED <<transaction, runs, traffic, faults>>
        BY DEF CommitOk, bookkeeping
  <1>2. TypeOK /\ run[r] \in Run /\ Sound(run[r], srv[r], store)
        BY DEF MigInv, TypeOK, RunsSound
  <1>3. /\ run[r].n \in Indices
        /\ store' \in Rows /\ store'[Set[run[r].n].id] # NoRow
        /\ \A k \in Tracking \ {Set[run[r].n].id} : store'[k] = store[k]
        /\ \A m \in Indices : m < run[r].n => store[Set[m].id] # NoRow
        BY <1>1, PublishFacts
  <1>4. run[r].applied \in SUBSET Tracking /\ run[r].n \in Nat
        BY <1>2 DEF Run
  <1>5. \A k \in run[r].applied : store'[k] # NoRow
        BY <1>2, <1>3, <1>4 DEF Sound
  <1>6. ASSUME NEW m \in Indices, m <= run[r].n PROVE store'[Set[m].id] # NoRow
    <2>1. m \in Nat /\ Set[m].id \in Tracking
          BY SetFacts
    <2>2. m = run[r].n \/ m < run[r].n
          BY <1>4, <1>6, <2>1
    <2> QED BY <1>3, <2>1, <2>2
  <1>7. /\ run' \in [Runners -> Run] /\ reply' \in [Runners -> Status]
        /\ Sound(run'[r], NoTx, store')
        /\ \A q \in Runners \ {r} : run'[q] = run[q] /\ reply'[q] = reply[q]
        /\ reply'[r] = "ok" /\ reply[r] # "ok" => \A m \in Indices : store'[Set[m].id] # NoRow
        BY <1>1, <1>2, <1>3, <1>4, <1>5, <1>6, ProceedFacts
  <1>8. /\ transaction' \in [Runners -> BOOLEAN] /\ runs' \in [Runners -> 0..MaxRuns]
        /\ traffic' \in 0..MaxTraffic /\ faults' \in 0..MaxFaults
        BY <1>1, <1>2 DEF TypeOK
  <1> QED BY <1>1, <1>7, <1>8, PublishKeeps

(* The commit fails, or its answer is lost. *)
LEMMA CommitFailsKeeps ==
    ASSUME MigInv, NEW r \in Runners, CommitFails(r)
    PROVE  MigInv'
  <1> DEFINE status == classify_migration_error(OtherError)
  <1>1. /\ At(r, "commit") /\ Fault
        /\ Discard(r) \/ (~Conflicts(srv[r]) /\ Publish(r))
        /\ Finish(r, status)
        /\ UNCHANGED <<transaction, runs, traffic>>
        BY DEF CommitFails
  <1>2. /\ transaction' \in [Runners -> BOOLEAN] /\ runs' \in [Runners -> 0..MaxRuns]
        /\ traffic' \in 0..MaxTraffic /\ faults' \in 0..MaxFaults /\ TypeOK
    <2>1. TypeOK
          BY DEF MigInv
    <2>2. faults' \in 0..MaxFaults
          BY <1>1, <2>1, FaultTyping
    <2> QED BY <1>1, <2>1, <2>2 DEF TypeOK
  <1>3. status \in Status \ {"ok"}
        BY ErrorStatus
  <1> HIDE DEF status
  <1>4. CASE Discard(r)
        BY <1>1, <1>2, <1>3, <1>4, DiscardEffect, FinishKeeps
  <1>5. CASE ~Conflicts(srv[r]) /\ Publish(r)
    <2>1. /\ run' = [run EXCEPT ![r] = Idle] /\ reply' = [reply EXCEPT ![r] = status]
          BY <1>1 DEF Finish
    <2>2. /\ run' \in [Runners -> Run] /\ reply' \in [Runners -> Status]
          /\ run'[r] = Idle /\ reply'[r] # "ok"
          /\ \A q \in Runners \ {r} : run'[q] = run[q] /\ reply'[q] = reply[q]
          BY <1>2, <1>3, <2>1, IdleSound DEF TypeOK
    <2>3. Sound(run'[r], NoTx, store')
          BY <2>2, IdleSound
    <2> QED BY <1>1, <1>2, <1>5, <2>2, <2>3, PublishKeeps
  <1> QED BY <1>1, <1>4, <1>5

(* The endings that leave the committed rows alone. *)
LEMMA EndingsKeep ==
    ASSUME MigInv, NEW r \in Runners,
           CancelOk(r) \/ CancelFails(r) \/ CommitConflicts(r) \/ Crash(r)
    PROVE  MigInv'
  <1>1. /\ TypeOK /\ run[r] \in Run /\ transaction \in [Runners -> BOOLEAN]
        /\ runs \in [Runners -> 0..MaxRuns] /\ traffic \in 0..MaxTraffic /\ faults \in 0..MaxFaults
        BY DEF MigInv, TypeOK
  <1>2. run[r].error \in Status \ {"ok"} /\ "none" \in Status \ {"ok"}
        BY <1>1, ErrorStatus DEF Run
  <1>3. CASE CancelOk(r)
    <2>1. Discard(r) /\ Finish(r, run[r].error) /\ UNCHANGED <<transaction, runs, traffic, faults>>
          BY <1>3 DEF CancelOk, bookkeeping
    <2> QED BY <1>1, <1>2, <2>1, DiscardEffect, FinishKeeps
  <1>4. CASE CancelFails(r)
    <2>1. /\ Discard(r) /\ Finish(r, classify_migration_error(OtherError)) /\ Fault
          /\ UNCHANGED <<transaction, runs, traffic>>
          BY <1>4 DEF CancelFails
    <2> QED BY <1>1, <2>1, FaultTyping, ErrorStatus, DiscardEffect, FinishKeeps
  <1>5. CASE CommitConflicts(r)
    <2>1. /\ Discard(r) /\ Finish(r, classify_migration_error(CommitConflict))
          /\ UNCHANGED <<transaction, runs, traffic, faults>>
          BY <1>5 DEF CommitConflicts, bookkeeping
    <2> QED BY <1>1, <2>1, ErrorStatus, DiscardEffect, FinishKeeps
  <1>6. CASE Crash(r)
    <2>1. /\ Discard(r) /\ Finish(r, "none") /\ Fault
          /\ transaction' = [transaction EXCEPT ![r] = FALSE]
          /\ UNCHANGED <<runs, traffic>>
          BY <1>6 DEF Crash
    <2>2. transaction' \in [Runners -> BOOLEAN]
          BY <1>1, <2>1
    <2> QED BY <1>1, <1>2, <2>1, <2>2, FaultTyping, DiscardEffect, FinishKeeps
  <1> QED BY <1>3, <1>4, <1>5, <1>6

-----------------------------------------------------------------------------
(* Steps outside the migration's transaction. *)

(* Where a run has no transaction. *)
LEMMA NoTxFacts ==
    ASSUME MigInv, NEW r \in Runners,
           run[r].at \in {"idle", "listing", "selecting", "apply", "preparing", "begin"}
    PROVE  /\ srv[r] = NoTx /\ srv \in [Runners -> ServerTx \cup {NoTx}]
           /\ transaction \in [Runners -> BOOLEAN] /\ runs \in [Runners -> 0..MaxRuns]
           /\ traffic \in 0..MaxTraffic /\ faults \in 0..MaxFaults
  <1>1. Sound(run[r], srv[r], store)
        BY DEF MigInv, RunsSound
  <1>2. srv[r] = NoTx
        BY <1>1 DEF Sound
  <1> QED BY <1>2 DEF MigInv, TypeOK

(* A run begins, or is refused because its connection is in a transaction. *)
LEMMA BeginKeeps ==
    ASSUME MigInv, NEW r \in Runners, Begin(r)
    PROVE  MigInv'
  <1>1. /\ run[r].at = "idle" /\ runs[r] < MaxRuns /\ runs' = [runs EXCEPT ![r] = @ + 1]
        /\ IF transaction[r] THEN Finish(r, "invalid_statement") ELSE Goto(r, "listing")
        /\ UNCHANGED <<store, srv, transaction, traffic, faults>>
        BY DEF Begin, At
  <1>2. /\ srv[r] = NoTx /\ srv \in [Runners -> ServerTx \cup {NoTx}]
        /\ transaction \in [Runners -> BOOLEAN] /\ runs \in [Runners -> 0..MaxRuns]
        /\ traffic \in 0..MaxTraffic /\ faults \in 0..MaxFaults
        BY <1>1, NoTxFacts
  <1>3. runs[r] + 1 \in 0..MaxRuns
        BY <1>1, <1>2, BoundsAssumption
  <1>4. runs' \in [Runners -> 0..MaxRuns]
        BY <1>1, <1>2, <1>3
  <1>5. "listing" \in Place /\ "invalid_statement" \in Status \ {"ok"}
        BY DEF Place, Status, Error
  <1>6. CASE transaction[r]
        BY <1>1, <1>2, <1>4, <1>5, <1>6, FinishKeeps
  <1>7. CASE ~transaction[r]
        BY <1>1, <1>2, <1>4, <1>5, <1>7, GotoKeeps
  <1> QED BY <1>6, <1>7

(* The other awaits of a run that has no transaction. *)
LEMMA AwaitsKeep ==
    ASSUME MigInv, NEW r \in Runners, NEW facts,
           EnsureOk(r) \/ Apply(r) \/ AwaitFails(r, facts)
    PROVE  MigInv'
  <1>1. /\ run[r].at \in {"listing", "selecting", "apply", "preparing", "begin"}
        /\ UNCHANGED <<store, srv, transaction, runs, traffic>>
        BY DEF EnsureOk, Apply, AwaitFails, At, bookkeeping
  <1>2. /\ srv[r] = NoTx /\ srv \in [Runners -> ServerTx \cup {NoTx}]
        /\ transaction \in [Runners -> BOOLEAN] /\ runs \in [Runners -> 0..MaxRuns]
        /\ traffic \in 0..MaxTraffic /\ faults \in 0..MaxFaults
        BY <1>1, NoTxFacts
  <1>3. {"selecting", "preparing", "begin"} \subseteq Place /\ "invalid_statement" \in Status \ {"ok"}
        BY DEF Place, Status, Error
  <1>4. CASE EnsureOk(r)
    <2>1. /\ \/ run[r].at = "listing" /\ Goto(r, "selecting")
             \/ run[r].at = "preparing" /\ Goto(r, "begin")
          /\ faults' = faults
          BY <1>4 DEF EnsureOk, At, bookkeeping
    <2> QED BY <1>1, <1>2, <1>3, <2>1, GotoKeeps
  <1>5. CASE Apply(r)
    <2>1. /\ run[r].at = "apply" /\ faults' = faults
          /\ IF transaction[r] THEN Finish(r, "invalid_statement") ELSE Goto(r, "preparing")
          BY <1>5 DEF Apply, At, bookkeeping
    <2>2. CASE transaction[r]
          BY <1>1, <1>2, <1>3, <2>1, <2>2, FinishKeeps
    <2>3. CASE ~transaction[r]
          BY <1>1, <1>2, <1>3, <2>1, <2>3, GotoKeeps
    <2> QED BY <2>2, <2>3
  <1>6. CASE AwaitFails(r, facts)
    <2>1. Fault /\ Finish(r, classify_migration_error(facts)) /\ TypeOK
          BY <1>6 DEF AwaitFails, MigInv
    <2>2. classify_migration_error(facts) \in Status \ {"ok"} /\ faults' \in 0..MaxFaults
          BY <2>1, ErrorStatus, FaultTyping
    <2> QED BY <1>1, <1>2, <2>1, <2>2, FinishKeeps
  <1> QED BY <1>4, <1>5, <1>6

(* The list of applied migrations arrives. *)
LEMMA SelectOkKeeps ==
    ASSUME MigInv, NEW r \in Runners, SelectOk(r)
    PROVE  MigInv'
  <1>1. run[r].at = "selecting" /\ UNCHANGED <<store, srv, transaction, runs, traffic, faults>>
        BY DEF SelectOk, At, bookkeeping
  <1>2. /\ srv[r] = NoTx /\ srv \in [Runners -> ServerTx \cup {NoTx}] /\ TypeOK
        /\ transaction \in [Runners -> BOOLEAN] /\ runs \in [Runners -> 0..MaxRuns]
        /\ traffic \in 0..MaxTraffic /\ faults \in 0..MaxFaults
        BY <1>1, NoTxFacts DEF MigInv
  <1>3. CASE \E k \in Malformed : store[k] # NoRow
    <2>1. Finish(r, "serialization_failure") /\ "serialization_failure" \in Status \ {"ok"}
          BY <1>3 DEF SelectOk, Status, Error
    <2> QED BY <1>1, <1>2, <2>1, FinishKeeps
  <1>4. CASE ~\E k \in Malformed : store[k] # NoRow
    <2> DEFINE list == {k \in Tracking : store[k] # NoRow}
    <2>1. Proceed(r, list, 0) /\ list \in SUBSET Tracking /\ 0 \in Nat
      <3>1. Proceed(r, list, 0)
            BY <1>4, Zenon DEF SelectOk
      <3> QED BY <3>1
    <2>2. \A k \in list : store[k] # NoRow
          OBVIOUS
    <2>3. store \in Rows /\ \A m \in Indices : ~(m <= 0)
          BY <1>2, SetFacts DEF Indices, TypeOK
    <2> HIDE DEF list
    <2>4. /\ run' \in [Runners -> Run] /\ reply' \in [Runners -> Status]
          /\ Sound(run'[r], NoTx, store)
          /\ \A q \in Runners \ {r} : run'[q] = run[q] /\ reply'[q] = reply[q]
          /\ reply'[r] = "ok" /\ reply[r] # "ok" => \A m \in Indices : store[Set[m].id] # NoRow
          BY <1>2, <2>1, <2>2, <2>3, ProceedFacts
    <2> QED BY <1>1, <1>2, <2>4, LocalKeeps
  <1> QED BY <1>3, <1>4

(* The user of the connection begins or ends a transaction. *)
LEMMA UserTransactionKeeps ==
    ASSUME MigInv, NEW r \in Runners, UserTransaction(r)
    PROVE  MigInv'
  <1>1. /\ run[r].at \in {"idle", "apply"} /\ (traffic' = traffic \/ Traffic)
        /\ transaction' = [transaction EXCEPT ![r] = ~@]
        /\ UNCHANGED <<store, srv, run, reply, runs, faults>>
        BY DEF UserTransaction
  <1>2. TypeOK /\ Sound(run[r], srv[r], store) /\ traffic \in 0..MaxTraffic /\ MaxTraffic \in Nat
        BY BoundsAssumption DEF MigInv, TypeOK, RunsSound
  <1>3. traffic' \in 0..MaxTraffic
        BY <1>1, <1>2 DEF Traffic
  <1>4. transaction' \in [Runners -> BOOLEAN]
        BY <1>1, <1>2 DEF TypeOK
  <1> QED BY <1>1, <1>2, <1>3, <1>4, LocalKeeps DEF TypeOK

(* A statement of an application does not name the tracking table. *)
LEMMA WriteFacts ==
    ASSUME MigInv, NEW w \in Writes, Write(w)
    PROVE  LET xs == Written(StmtEffect(w, store)) IN
           /\ store' \in Rows /\ xs \in SUBSET Keys
           /\ \A k \in Keys \ xs : store'[k] = store[k]
           /\ \A k \in Tracking : store'[k] = store[k]
           /\ srv' \in [Runners -> ServerTx \cup {NoTx}]
           /\ \A q \in Runners : srv'[q] = MarkStale(srv[q], xs)
  <1> DEFINE eff == StmtEffect(w, store)
             xs  == Written(eff)
  <1>1. /\ store \in Rows /\ srv \in [Runners -> ServerTx \cup {NoTx}]
        /\ w \in Statement /\ w.ids \cap Tracking = {} /\ Tracking \subseteq Keys
        BY TrackingReserved, SetFacts DEF MigInv, TypeOK
  <1>2. eff \in [Keys -> Effect] /\ \A k \in Keys \ w.ids : eff[k] = Keep
        BY <1>1, StmtTyping, StmtLocal
  <1>3. /\ store' = ApplyAll(eff, store)
        /\ srv' = [q \in Runners |-> MarkStale(srv[q], xs)]
        BY DEF Write
  <1>4. xs \in SUBSET Keys
        BY DEF Written
  <1> HIDE DEF eff
  <1>5. store' \in Rows
        BY <1>1, <1>2, <1>3, ApplyAllTyping
  <1>6. ASSUME NEW k \in Keys \ xs PROVE store'[k] = store[k]
    <2>1. eff[k].kind = "keep"
          BY <1>6 DEF Written
    <2>2. ApplyEffect(eff[k], store[k]) = store[k]
          BY <2>1 DEF ApplyEffect
    <2> QED BY <1>3, <2>2 DEF ApplyAll
  <1>7. ASSUME NEW k \in Tracking PROVE store'[k] = store[k]
    <2>1. k \in Keys /\ eff[k] = Keep
          BY <1>1, <1>2
    <2>2. ApplyAll(eff, store)[k] = store[k]
          BY <1>1, <1>2, <2>1, KeepsRow
    <2> QED BY <1>3, <2>2
  <1> HIDE DEF xs
  <1>8. ASSUME NEW q \in Runners PROVE MarkStale(srv[q], xs) \in ServerTx \cup {NoTx}
    <2>1. srv[q] \in ServerTx \cup {NoTx}
          BY <1>1
    <2> QED BY <1>4, <2>1, MarkStaleEffect
  <1>9. srv' \in [Runners -> ServerTx \cup {NoTx}] /\ \A q \in Runners : srv'[q] = MarkStale(srv[q], xs)
        BY <1>3, <1>8
  <1> QED BY <1>4, <1>5, <1>6, <1>7, <1>9 DEF xs, eff

(* A statement of an application keeps the invariant. *)
LEMMA WriteKeeps ==
    ASSUME MigInv, NEW w \in Writes, Write(w)
    PROVE  MigInv'
  <1> DEFINE xs == Written(StmtEffect(w, store))
  <1>1. /\ store' \in Rows /\ xs \in SUBSET Keys
        /\ \A k \in Keys \ xs : store'[k] = store[k]
        /\ \A k \in Tracking : store'[k] = store[k]
        /\ srv' \in [Runners -> ServerTx \cup {NoTx}]
        /\ \A q \in Runners : srv'[q] = MarkStale(srv[q], xs)
        BY WriteFacts
  <1> HIDE DEF xs
  <1>2. Traffic /\ UNCHANGED <<transaction, run, reply, runs, faults>>
        BY DEF Write
  <1>3. TypeOK'
    <2>1. TypeOK /\ traffic \in 0..MaxTraffic /\ MaxTraffic \in Nat
          BY BoundsAssumption DEF MigInv, TypeOK
    <2>2. traffic' \in 0..MaxTraffic
          BY <1>2, <2>1 DEF Traffic
    <2> QED BY <1>1, <1>2, <2>1, <2>2 DEF TypeOK
  <1>4. \A n \in Indices : store'[Set[n].id] = store[Set[n].id]
        BY <1>1, SetFacts
  <1>5. InOrder' /\ DoneMeansApplied' /\ GuardHolds'
        BY <1>2, <1>4 DEF MigInv, InOrder, DoneMeansApplied, GuardHolds, Recorded
  <1>6. RunsSound'
    <2>1. ASSUME NEW q \in Runners PROVE Sound(run'[q], srv'[q], store')
          BY <1>1, <1>2, OthersKeep
    <2> QED BY <2>1 DEF RunsSound
  <1> QED BY <1>3, <1>5, <1>6 DEF MigInv

-----------------------------------------------------------------------------
(* No migration is recorded and no run has begun. *)
LEMMA InitInv == Init => MigInv
  <1> SUFFICES ASSUME Init PROVE MigInv
      OBVIOUS
  <1>1. /\ store = Initial /\ srv = [r \in Runners |-> NoTx]
        /\ transaction = [r \in Runners |-> FALSE] /\ run = [r \in Runners |-> Idle]
        /\ reply = [r \in Runners |-> "none"] /\ runs = [r \in Runners |-> 0]
        /\ traffic = 0 /\ faults = 0
        BY DEF Init
  <1>2. 0 \in 0..MaxRuns /\ 0 \in 0..MaxTraffic /\ 0 \in 0..MaxFaults
        BY BoundsAssumption
  <1>3. TypeOK
        BY <1>1, <1>2, InitialAssumption, IdleSound DEF TypeOK, Status
  <1>4. InOrder /\ GuardHolds
        BY <1>1, InitialAssumption DEF InOrder, GuardHolds, Recorded
  <1>5. DoneMeansApplied
        BY <1>1 DEF DoneMeansApplied
  <1>6. RunsSound
    <2>1. ASSUME NEW r \in Runners PROVE Sound(run[r], srv[r], store)
      <3>1. run[r] = Idle /\ srv[r] = NoTx
            BY <1>1
      <3> QED BY <3>1, IdleSound
    <2> QED BY <2>1 DEF RunsSound
  <1> QED BY <1>3, <1>4, <1>5, <1>6 DEF MigInv

(* A step that leaves every variable alone leaves the invariant alone. *)
LEMMA StutterKeeps ==
    ASSUME MigInv, UNCHANGED vars
    PROVE  MigInv'
  <1>1. UNCHANGED <<store, srv, transaction, run, reply, runs, traffic, faults>>
        BY DEF vars
  <1>2. TypeOK' /\ InOrder' /\ DoneMeansApplied' /\ GuardHolds'
        BY <1>1 DEF MigInv, TypeOK, InOrder, DoneMeansApplied, GuardHolds, Recorded
  <1>3. RunsSound'
        BY <1>1 DEF MigInv, RunsSound
  <1> QED BY <1>2, <1>3 DEF MigInv

(* Every step of Next keeps the invariant. *)
LEMMA NextInv ==
    ASSUME MigInv, [Next]_vars
    PROVE  MigInv'
  <1>1. CASE \E r \in Runners : Begin(r) \/ Continue(r) \/ Crash(r) \/ UserTransaction(r)
    <2>1. PICK r \in Runners : Begin(r) \/ Continue(r) \/ Crash(r) \/ UserTransaction(r)
          BY <1>1
    <2>2. CASE Begin(r)
          BY <2>2, BeginKeeps
    <2>3. CASE Crash(r)
          BY <2>3, EndingsKeep
    <2>4. CASE UserTransaction(r)
          BY <2>4, UserTransactionKeeps
    <2>5. CASE Continue(r)
      <3>1. CASE EnsureOk(r) \/ Apply(r) \/ \E facts \in {OtherError, QueryConflict} : AwaitFails(r, facts)
            BY <3>1, AwaitsKeep
      <3>2. CASE SelectOk(r)
            BY <3>2, SelectOkKeeps
      <3>3. CASE BeginOk(r)
            BY <3>3, BeginOkKeeps
      <3>4. CASE Blank(r)
            BY <3>4, BlankKeeps
      <3>5. CASE StmtOk(r)
            BY <3>5, StmtOkKeeps
      <3>6. CASE CancelOk(r) \/ CancelFails(r) \/ CommitConflicts(r)
            BY <3>6, EndingsKeep
      <3>7. CASE CommitOk(r)
            BY <3>7, CommitOkKeeps
      <3>8. CASE CommitFails(r)
            BY <3>8, CommitFailsKeeps
      <3>9. CASE \E facts \in {ManualGuard, OtherError, RecordExists, QueryConflict} : StmtFails(r, facts)
            BY <3>9, StmtFailsKeeps
      <3> QED BY <2>5, <3>1, <3>2, <3>3, <3>4, <3>5, <3>6, <3>7, <3>8, <3>9 DEF Continue
    <2> QED BY <2>1, <2>2, <2>3, <2>4, <2>5
  <1>2. CASE \E w \in Writes : Write(w)
        BY <1>2, WriteKeeps
  <1>3. CASE UNCHANGED vars
        BY <1>3, StutterKeeps
  <1> QED BY <1>1, <1>2, <1>3 DEF Next

(* The invariant holds in every behaviour, for any number of runners and any
   migrations: runs and transactions agree with the committed rows whatever
   order they commit in and wherever they fail (apply_migration).           *)
THEOREM MigInvariance == Spec => []MigInv
  <1>1. Init => MigInv
        BY InitInv
  <1>2. MigInv /\ [Next]_vars => MigInv'
        BY NextInv
  <1> QED BY <1>1, <1>2, PTL DEF Spec

(* Migrations are recorded in the order of the set without gaps
   (applied_migrations, apply_migration).                                   *)
THEOREM OrderSafety == Spec => []InOrder
  <1>1. MigInv => InOrder
        BY DEF MigInv
  <1> QED BY <1>1, MigInvariance, PTL

(* A runner told "ok" can rely on every migration being applied. *)
THEOREM DoneSafety == Spec => []DoneMeansApplied
  <1>1. MigInv => DoneMeansApplied
        BY DEF MigInv
  <1> QED BY <1>1, MigInvariance, PTL

(* A migration that THROWs for manual work is never recorded as applied
   (apply_migration cancels before the CREATE of the tracking record).      *)
THEOREM GuardSafety == Spec => []GuardHolds
  <1>1. MigInv => GuardHolds
        BY DEF MigInv
  <1> QED BY <1>1, MigInvariance, PTL

-----------------------------------------------------------------------------
(* Only a commit or a statement of an application changes committed rows. *)
LEMMA StoreSteps ==
    ASSUME MigInv, Next, store' # store
    PROVE  \/ \E w \in Writes : Write(w)
           \/ \E r \in Runners : At(r, "commit") /\ ~Conflicts(srv[r]) /\ Publish(r)
  <1>1. CASE \E r \in Runners : Begin(r) \/ Continue(r) \/ Crash(r) \/ UserTransaction(r)
    <2>1. PICK r \in Runners : Begin(r) \/ Continue(r) \/ Crash(r) \/ UserTransaction(r)
          BY <1>1
    <2>2. ~Begin(r) /\ ~Crash(r) /\ ~UserTransaction(r)
          BY DEF Begin, Crash, UserTransaction, Discard
    <2>3. /\ ~EnsureOk(r) /\ ~SelectOk(r) /\ ~Apply(r) /\ ~BeginOk(r) /\ ~Blank(r) /\ ~StmtOk(r)
          /\ \A facts : ~AwaitFails(r, facts) /\ ~StmtFails(r, facts)
          BY DEF EnsureOk, SelectOk, Apply, BeginOk, Blank, StmtOk, AwaitFails, StmtFails
    <2>4. ~CancelOk(r) /\ ~CancelFails(r) /\ ~CommitConflicts(r)
          BY DEF CancelOk, CancelFails, CommitConflicts, Discard
    <2>5. CommitOk(r) \/ CommitFails(r)
          BY <2>1, <2>2, <2>3, <2>4 DEF Continue
    <2>6. At(r, "commit") /\ ~Conflicts(srv[r]) /\ Publish(r)
          BY <2>5 DEF CommitOk, CommitFails, Discard
    <2> QED BY <2>6
  <1> QED BY <1>1 DEF Next

(* What OneByOne says of a step. *)
LEMMA RecordsStep ==
    ASSUME MigInv, Next, store' # store
    PROVE  \/ \E w \in Writes : Write(w) /\ \A n \in Indices : Recorded(n)' = Recorded(n)
           \/ \E n \in Indices :
                 /\ \E r \in Runners : At(r, "commit") /\ run[r].n = n
                 /\ ~Recorded(n) /\ Recorded(n)'
                 /\ \A m \in Indices \ {n} :
                        /\ Recorded(m)' = Recorded(m)
                        /\ m < n => Recorded(m)
  <1>1. CASE \E w \in Writes : Write(w)
    <2>1. PICK w \in Writes : Write(w)
          BY <1>1
    <2>2. \A k \in Tracking : store'[k] = store[k]
          BY <2>1, WriteFacts
    <2>3. \A n \in Indices : store'[Set[n].id] = store[Set[n].id]
          BY <2>2, SetFacts
    <2>4. \A n \in Indices : Recorded(n)' = Recorded(n)
          BY <2>3 DEF Recorded
    <2> QED BY <2>1, <2>4
  <1>2. CASE \E r \in Runners : At(r, "commit") /\ ~Conflicts(srv[r]) /\ Publish(r)
    <2>1. PICK r \in Runners : At(r, "commit") /\ ~Conflicts(srv[r]) /\ Publish(r)
          BY <1>2
    <2>0. PICK x \in Indices : x = run[r].n
          BY <2>1, PublishFacts
    <2>2. /\ x \in Indices
          /\ store[Set[x].id] = NoRow /\ store'[Set[x].id] # NoRow
          /\ \A k \in Tracking \ {Set[x].id} : store'[k] = store[k]
          /\ \A m \in Indices : m < x => store[Set[m].id] # NoRow
          BY <2>0, <2>1, PublishFacts
    <2>3. ASSUME NEW m \in Indices \ {x} PROVE store'[Set[m].id] = store[Set[m].id]
      <3>1. Set[m].id \in Tracking /\ Set[m].id # Set[x].id
            BY <2>2, <2>3, SetFacts, SetAssumption
      <3> QED BY <2>2, <3>1
    <2>4. /\ ~Recorded(x) /\ Recorded(x)'
          /\ \A m \in Indices \ {x} :
                 /\ Recorded(m)' = Recorded(m)
                 /\ m < x => Recorded(m)
      <3>1. ~Recorded(x) /\ Recorded(x)'
        <4>1. Recorded(x) = (store[Set[x].id] # NoRow) /\ Recorded(x)' = (store'[Set[x].id] # NoRow)
              BY DEF Recorded
        <4> QED BY <2>2, <4>1
      <3>2. ASSUME NEW m \in Indices \ {x}
            PROVE  Recorded(m)' = Recorded(m) /\ (m < x => Recorded(m))
        <4>1. Recorded(m) = (store[Set[m].id] # NoRow) /\ Recorded(m)' = (store'[Set[m].id] # NoRow)
              BY DEF Recorded
        <4>2. m < x => store[Set[m].id] # NoRow
              BY <2>2
        <4> QED BY <2>3, <4>1, <4>2, Zenon
      <3> QED BY <3>1, <3>2, Zenon
    <2>5. \E q \in Runners : At(q, "commit") /\ run[q].n = x
          BY <2>0, <2>1
    <2> QED BY <2>2, <2>4, <2>5, Zenon
  <1> QED BY <1>1, <1>2, StoreSteps

(* Runners that race never both apply a migration, and no step takes a record
   away: each step adds at most the record of the migration whose transaction
   commits, after all earlier ones (the CREATE of apply_migration, together
   with the conflict a commit answers).                                     *)
THEOREM RecordsOneByOne == Spec => OneByOne
  <1>1. MigInv /\ [Next]_vars =>
           [store' # store =>
             \/ \E w \in Writes : Write(w) /\ \A n \in Indices : Recorded(n)' = Recorded(n)
             \/ \E n \in Indices :
                   /\ \E r \in Runners : At(r, "commit") /\ run[r].n = n
                   /\ ~Recorded(n) /\ Recorded(n)'
                   /\ \A m \in Indices \ {n} :
                          /\ Recorded(m)' = Recorded(m)
                          /\ m < n => Recorded(m)]_vars
        BY RecordsStep
  <1> QED BY <1>1, MigInvariance, PTL DEF Spec, OneByOne

-----------------------------------------------------------------------------
(* Induction over the statements of a migration, by sets instead of operators. *)

(* Every set of naturals that is not empty has a least element: intervals 0..n
   are finite, and finite sets are well-founded.                            *)
LEMMA Least ==
    ASSUME NEW T, T \subseteq Nat, T # {}
    PROVE  \E x \in T : \A y \in T : x <= y
<1> DEFINE R == StrictSubsetOrdering(Nat)
           C == {0..n : n \in T}
<1>1. IsWellFoundedOn(R, FiniteSubsetsOf(Nat))
  BY FS_StrictSubsetOrderingWellFounded
<1>2. C \subseteq FiniteSubsetsOf(Nat) /\ C # {}
  <2>1. ASSUME NEW n \in T PROVE 0..n \in FiniteSubsetsOf(Nat)
    <3>1. IsFiniteSet(0..n)
      BY FS_Interval
    <3> QED BY <3>1 DEF FiniteSubsetsOf
  <2> QED BY <2>1
<1>3. PICK c \in C : \A d \in C : <<d, c>> \notin R
  <2> HIDE DEF R, C
  <2> QED BY <1>1, <1>2, WFMin
<1>4. PICK x \in T : c = 0..x
  OBVIOUS
<1>5. ASSUME NEW y \in T, ~(x <= y)
      PROVE  FALSE
  <2>1. 0..y \in SUBSET Nat /\ 0..x \in SUBSET Nat /\ 0..y \subseteq 0..x /\ 0..y # 0..x
    <3>1. x \in 0..x /\ x \notin 0..y /\ 0..y \subseteq 0..x
      BY <1>5
    <3> QED BY <3>1
  <2>2. <<0..y, c>> \in R
    BY <2>1, <1>4 DEF StrictSubsetOrdering
  <2> QED BY <2>2, <1>3
<1> QED BY <1>5

(* From m upwards to n. *)
LEMMA Climb ==
    ASSUME NEW m \in Nat, NEW n \in Nat, NEW Q, m \in Q,
           \A i \in m..n : i \in Q /\ i < n => i + 1 \in Q
    PROVE  m..n \subseteq Q
<1> DEFINE T == (m..n) \ Q
<1> SUFFICES ASSUME T # {} PROVE FALSE
  OBVIOUS
<1>1. PICK x \in T : \A y \in T : x <= y
  <2>1. T \subseteq Nat
    OBVIOUS
  <2> HIDE DEF T
  <2> QED BY <2>1, Least
<1>2. x - 1 \in m..n /\ x - 1 \notin T /\ x - 1 < n
  BY <1>1
<1> QED BY <1>1, <1>2

-----------------------------------------------------------------------------
(* What the statements of a migration make of rows. *)

(* A statement makes rows of rows, and of each row something that depends on
   that row alone.                                                          *)
LEMMA StepRowsFacts ==
    ASSUME NEW x \in Indices, NEW j \in 1..Len(Steps(x)) + 1, NEW rows \in Rows
    PROVE  /\ StepRows(x, j, rows) \in Rows
           /\ \A others \in Rows : \A k \in Keys : others[k] = rows[k] =>
                  StepRows(x, j, others)[k] = StepRows(x, j, rows)[k]
  <1> DEFINE s == StmtAt(x, j)
  <1>1. s \in Statement
        BY StmtAtFacts
  <1> HIDE DEF s
  <1>2. ApplyAll(StmtEffect(s, rows), rows) \in Rows
        BY <1>1, StmtTyping, ApplyAllTyping
  <1>3. ASSUME NEW others \in Rows, NEW k \in Keys, others[k] = rows[k]
        PROVE  ApplyAll(StmtEffect(s, others), others)[k] = ApplyAll(StmtEffect(s, rows), rows)[k]
    <2>1. k \in Hits(s, others) <=> k \in Hits(s, rows)
          BY <1>3 DEF Hits
    <2>2. StmtEffect(s, others)[k] = StmtEffect(s, rows)[k]
          BY <1>3, <2>1 DEF StmtEffect
    <2> QED BY <1>3, <2>2 DEF ApplyAll
  <1> QED BY <1>2, <1>3 DEF StepRows, s

(* RowsAfter starts with the rows and goes on statement by statement: the
   recursive function it chooses exists.                                    *)
LEMMA RowsAfterFacts ==
    ASSUME NEW x \in Indices, NEW rows \in Rows
    PROVE  /\ RowsAfter(x, 0, rows) = rows
           /\ \A j \in 0..Len(Steps(x)) + 1 : RowsAfter(x, j, rows) \in Rows
           /\ \A j \in 1..Len(Steps(x)) + 1 :
                  RowsAfter(x, j, rows) = StepRows(x, j, RowsAfter(x, j - 1, rows))
  <1> DEFINE N == Len(Steps(x)) + 1
             body(g) == [j \in 0..N |-> IF j = 0 THEN rows ELSE StepRows(x, j, g[j - 1])]
             Rec(f, n) == /\ f \in [0..n -> Rows] /\ f[0] = rows
                          /\ \A i \in 1..n : f[i] = StepRows(x, i, f[i - 1])
             Q == {n \in Nat : \E f : Rec(f, n)}
  <1>1. N \in Nat
        BY SetFacts
  <1>2. 0 \in Q
    <2>1. Rec([i \in 0..0 |-> rows], 0)
          OBVIOUS
    <2> QED BY <2>1
  <1>3. \A j \in 1..N, out \in Rows : StepRows(x, j, out) \in Rows
        BY StepRowsFacts
  <1>4. \A j : RowsAfter(x, j, rows) = (CHOOSE g : g = body(g))[j]
        BY DEF RowsAfter
  <1> HIDE DEF N
  <1>5. ASSUME NEW n \in 0..N, n \in Q, n < N PROVE n + 1 \in Q
    <2>1. PICK f : Rec(f, n)
          BY <1>5
    <2>2. n \in Nat /\ n + 1 \in Nat /\ n + 1 \in 1..N /\ n \in 0..n
          BY <1>1, <1>5
    <2> DEFINE g == [i \in 0..(n + 1) |-> IF i = n + 1 THEN StepRows(x, n + 1, f[n]) ELSE f[i]]
    <2>3. StepRows(x, n + 1, f[n]) \in Rows
          BY <1>3, <2>1, <2>2
    <2>4. /\ g \in [0..(n + 1) -> Rows] /\ g[n + 1] = StepRows(x, n + 1, f[n])
          /\ \A i \in 0..n : g[i] = f[i]
      <3>1. n + 1 \in 0..(n + 1) /\ \A i \in 0..n : i \in 0..(n + 1) /\ i # n + 1
            BY <2>2
      <3>2. \A i \in 0..(n + 1) : i = n + 1 \/ i \in 0..n
            BY <2>2
      <3> QED BY <2>1, <2>3, <3>1, <3>2
    <2> HIDE DEF g
    <2>5. ASSUME NEW i \in 1..(n + 1) PROVE g[i] = StepRows(x, i, g[i - 1])
      <3>1. CASE i = n + 1
        <4>1. i - 1 = n /\ n \in 0..n
              BY <2>2, <3>1
        <4> QED BY <2>4, <3>1, <4>1
      <3>2. CASE i # n + 1
        <4>1. i \in 1..n /\ i \in 0..n /\ i - 1 \in 0..n
              BY <2>2, <3>2
        <4> QED BY <2>1, <2>4, <4>1
      <3> QED BY <3>1, <3>2
    <2>6. g[0] = rows
      <3>1. 0 \in 0..n
            BY <2>2
      <3> QED BY <2>1, <2>4, <3>1
    <2>7. Rec(g, n + 1)
          BY <2>4, <2>5, <2>6
    <2> HIDE DEF Rec
    <2> QED BY <2>2, <2>7
  <1>6. N \in Q
    <2>1. 0..N \subseteq Q
      <3> HIDE DEF Q
      <3> QED BY <1>1, <1>2, <1>5, Climb
    <2>2. N \in 0..N
          BY <1>1
    <2> QED BY <2>1, <2>2
  <1>7. PICK f : Rec(f, N)
        BY <1>6
  <1> DEFINE h == CHOOSE g : g = body(g)
  <1>8. f = body(f)
    <2>1. ASSUME NEW i \in 0..N PROVE f[i] = IF i = 0 THEN rows ELSE StepRows(x, i, f[i - 1])
      <3>1. i = 0 \/ i \in 1..N
            BY <1>1
      <3> QED BY <1>7, <3>1
    <2>2. f = [i \in 0..N |-> f[i]]
          BY <1>7
    <2> QED BY <2>1, <2>2
  <1>9. h = body(h)
    <2> HIDE DEF body
    <2> QED BY <1>8
  <1>10. \A j : RowsAfter(x, j, rows) = h[j]
         BY <1>4
  <1> HIDE DEF h
  <1>11. h[0] = rows /\ \A i \in 1..N : h[i] = StepRows(x, i, h[i - 1])
    <2>1. 0 \in 0..N /\ \A i \in 1..N : i \in 0..N /\ i # 0
          BY <1>1
    <2> QED BY <1>9, <2>1
  <1> DEFINE T == {j \in Nat : h[j] \in Rows}
  <1>12. 0..N \subseteq T
    <2>1. 0 \in T
          BY <1>11
    <2>2. ASSUME NEW i \in 0..N, i \in T, i < N PROVE i + 1 \in T
      <3>1. i + 1 \in 1..N /\ i + 1 \in Nat /\ (i + 1) - 1 = i
            BY <1>1, <2>2
      <3>2. h[i + 1] = StepRows(x, i + 1, h[i])
            BY <1>11, <3>1
      <3> QED BY <1>3, <2>2, <3>1, <3>2
    <2> HIDE DEF T
    <2> QED BY <1>1, <2>1, <2>2, Climb
  <1>13. \A j \in 0..N : h[j] \in Rows
         BY <1>12
  <1> QED BY <1>10, <1>11, <1>13 DEF N

(* Where two sets of rows agree on a row, so does what a migration makes of them. *)
LEMMA OutcomeLocal ==
    ASSUME NEW x \in Indices, NEW rows \in Rows, NEW others \in Rows, NEW k \in Keys,
           others[k] = rows[k]
    PROVE  Outcome(x, others)[k] = Outcome(x, rows)[k]
  <1> DEFINE N == Len(Steps(x)) + 1
             T == {j \in Nat : RowsAfter(x, j, others)[k] = RowsAfter(x, j, rows)[k]}
  <1>1. N \in Nat
        BY SetFacts
  <1>2. 0 \in T
        BY RowsAfterFacts
  <1>3. ASSUME NEW i \in 0..N, i \in T, i < N PROVE i + 1 \in T
    <2>1. i + 1 \in 1..N /\ i + 1 \in Nat /\ (i + 1) - 1 = i
          BY <1>1, <1>3
    <2>2. /\ RowsAfter(x, i, others) \in Rows /\ RowsAfter(x, i, rows) \in Rows
          /\ RowsAfter(x, i + 1, others) = StepRows(x, i + 1, RowsAfter(x, i, others))
          /\ RowsAfter(x, i + 1, rows) = StepRows(x, i + 1, RowsAfter(x, i, rows))
          BY <2>1, RowsAfterFacts
    <2>3. RowsAfter(x, i, others)[k] = RowsAfter(x, i, rows)[k]
          BY <1>3
    <2>4. RowsAfter(x, i + 1, others)[k] = RowsAfter(x, i + 1, rows)[k]
          BY <2>1, <2>2, <2>3, StepRowsFacts
    <2> QED BY <2>1, <2>4
  <1>4. 0..N \subseteq T
    <2> HIDE DEF T, N
    <2> QED BY <1>1, <1>2, <1>3, Climb
  <1>5. N \in T
        BY <1>1, <1>4
  <1> QED BY <1>5 DEF Outcome

(* A transaction shows the same rows when it learns which rows are stale. *)
LEMMA WholeKept ==
    ASSUME NEW u, NEW t \in ServerTx \cup {NoTx}, NEW xs \in SUBSET Keys, Whole(u, t)
    PROVE  Whole(u, MarkStale(t, xs))
  <1>1. CASE t = NoTx
    <2>1. MarkStale(t, xs) = t
          BY <1>1 DEF MarkStale
    <2> QED BY <2>1
  <1>2. CASE t # NoTx
    <2>1. MarkStale(t, xs).base = t.base /\ MarkStale(t, xs).eff = t.eff
          BY <1>2, MarkStaleEffect
    <2>2. TxView(MarkStale(t, xs)) = TxView(t)
          BY <2>1 DEF TxView
    <2> QED BY <2>1, <2>2 DEF Whole
  <1> QED BY <1>1, <1>2

(* Where a run goes by Finish, Goto and Proceed. *)
LEMMA Moves ==
    ASSUME TypeOK, NEW r \in Runners
    PROVE  /\ \A status : Finish(r, status) => run' = [run EXCEPT ![r] = Idle] /\ run'[r].at = "idle"
           /\ \A place : Goto(r, place) => run' = [run EXCEPT ![r].at = place] /\ run'[r].at = place
           /\ \A applied, x : Proceed(r, applied, x) =>
                  /\ run'[r].at \in {"idle", "apply"}
                  /\ \A q \in Runners \ {r} : run'[q] = run[q]
  <1>1. run \in [Runners -> Run] /\ run[r] \in Run
        BY DEF TypeOK
  <1>2. \A status : Finish(r, status) => run' = [run EXCEPT ![r] = Idle] /\ run'[r].at = "idle"
        BY <1>1 DEF Finish, Idle
  <1>3. ASSUME NEW place, Goto(r, place)
        PROVE  run' = [run EXCEPT ![r].at = place] /\ run'[r].at = place
    <2>1. run' = [run EXCEPT ![r].at = place]
          BY <1>3 DEF Goto
    <2>2. run'[r] = [run[r] EXCEPT !.at = place]
          BY <1>1, <2>1
    <2> QED BY <1>1, <2>1, <2>2 DEF Run
  <1>4. ASSUME NEW applied, NEW x, Proceed(r, applied, x)
        PROVE  /\ run'[r].at \in {"idle", "apply"}
               /\ \A q \in Runners \ {r} : run'[q] = run[q]
    <2>1. CASE Pending(applied, x) = {}
      <3>1. Finish(r, "ok")
            BY <1>4, <2>1 DEF Proceed
      <3> QED BY <1>1, <1>2, <3>1
    <2>2. CASE Pending(applied, x) # {}
      <3>1. PICK y : run' = [run EXCEPT ![r] = [Idle EXCEPT !.at = "apply", !.applied = applied, !.n = y]]
            BY <1>4, <2>2 DEF Proceed
      <3>2. [Idle EXCEPT !.at = "apply", !.applied = applied, !.n = y].at = "apply"
            BY DEF Idle
      <3> QED BY <1>1, <3>1, <3>2
    <2> QED BY <2>1, <2>2
  <1> QED BY <1>2, <1>3, <1>4

(* The steps of a run that neither open its transaction nor send a statement in
   it leave the run outside of one, or about to cancel.                     *)
LEMMA QuietSteps ==
    ASSUME MigInv, NEW r \in Runners,
           \/ Begin(r) \/ EnsureOk(r) \/ SelectOk(r) \/ Apply(r) \/ Crash(r)
           \/ \E facts : AwaitFails(r, facts) \/ StmtFails(r, facts)
           \/ CancelOk(r) \/ CancelFails(r) \/ CommitOk(r) \/ CommitConflicts(r) \/ CommitFails(r)
    PROVE  run'[r].at \notin {"step", "commit"} /\ \A q \in Runners \ {r} : run'[q] = run[q]
  <1>1. TypeOK /\ run \in [Runners -> Run] /\ run[r] \in Run
        BY DEF MigInv, TypeOK
  <1> DEFINE Ended == \E status : Finish(r, status)
             Moved == \E place \in Place \ {"step", "commit"} : Goto(r, place)
             Going == \E applied, x : Proceed(r, applied, x)
  <1>2. CASE Ended
        BY <1>1, <1>2, Moves
  <1>3. CASE Moved
        BY <1>1, <1>3, Moves
  <1>4. CASE Going
        BY <1>1, <1>4, Moves
  <1>5. ASSUME NEW facts, StmtFails(r, facts)
        PROVE  run'[r].at \notin {"step", "commit"} /\ \A q \in Runners \ {r} : run'[q] = run[q]
    <2>1. run' = [run EXCEPT ![r].at = "cancel", ![r].error = classify_migration_error(facts)]
          BY <1>5 DEF StmtFails
    <2>2. run'[r] = [run[r] EXCEPT !.at = "cancel", !.error = classify_migration_error(facts)]
          BY <1>1, <2>1
    <2>3. run'[r].at = "cancel"
          BY <1>1, <2>2 DEF Run
    <2> QED BY <1>1, <2>1, <2>3
  <1>6. Begin(r) \/ Apply(r) => Ended \/ Moved
        BY DEF Begin, Apply, Place
  <1>7. EnsureOk(r) => Moved
        BY DEF EnsureOk, Place
  <1>8. SelectOk(r) \/ CommitOk(r) => Ended \/ Going
        BY DEF SelectOk, CommitOk
  <1>9. Crash(r) \/ CancelOk(r) \/ CancelFails(r) \/ CommitConflicts(r) \/ CommitFails(r) => Ended
        BY DEF Crash, CancelOk, CancelFails, CommitConflicts, CommitFails
  <1>10. (\E facts : AwaitFails(r, facts)) => Ended
        BY DEF AwaitFails
  <1> HIDE DEF Ended, Moved, Going
  <1> QED BY <1>2, <1>3, <1>4, <1>5, <1>6, <1>7, <1>8, <1>9, <1>10

(* Other runs' transactions at most learn which rows are stale. *)
LEMMA OthersWhole ==
    ASSUME MigInv, NEW r \in Runners, Continue(r) \/ Begin(r) \/ Crash(r), NEW q \in Runners \ {r}
    PROVE  srv'[q] = srv[q] \/ \E xs \in SUBSET Keys : srv'[q] = MarkStale(srv[q], xs)
  <1>1. srv \in [Runners -> ServerTx \cup {NoTx}]
        BY DEF MigInv, TypeOK
  <1>2. CASE srv' = srv
        BY <1>2
  <1>3. CASE \E t : srv' = [srv EXCEPT ![r] = t]
        BY <1>1, <1>3
  <1>4. CASE Publish(r)
    <2>1. srv'[q] = MarkStale(srv[q], Written(srv[r].eff))
          BY <1>4 DEF Publish
    <2> QED BY <2>1 DEF Written
  <1>5. Discard(r) => \E t : srv' = [srv EXCEPT ![r] = t]
        BY DEF Discard
  <1>6. Begin(r) \/ EnsureOk(r) \/ SelectOk(r) \/ Apply(r) \/ Blank(r) => srv' = srv
        BY DEF Begin, EnsureOk, SelectOk, Apply, Blank
  <1>7. (\E facts : AwaitFails(r, facts) \/ StmtFails(r, facts)) => srv' = srv
        BY DEF AwaitFails, StmtFails
  <1>8. BeginOk(r) \/ StmtOk(r) => \E t : srv' = [srv EXCEPT ![r] = t]
    <2>1. BeginOk(r) => srv' = [srv EXCEPT ![r] = BeginTx(store)]
          BY DEF BeginOk
    <2>2. StmtOk(r) => srv' = [srv EXCEPT ![r] = TxWrite(@, StmtEffect(StmtAt(run[r].n, run[r].i), TxView(@)))]
          BY DEF StmtOk
    <2> QED BY <2>1, <2>2
  <1>9. Crash(r) \/ CancelOk(r) \/ CancelFails(r) \/ CommitConflicts(r) => Discard(r)
        BY DEF Crash, CancelOk, CancelFails, CommitConflicts
  <1>10. CommitOk(r) \/ CommitFails(r) => Discard(r) \/ Publish(r)
        BY DEF CommitOk, CommitFails
  <1> QED BY <1>2, <1>3, <1>4, <1>5, <1>6, <1>7, <1>8, <1>9, <1>10 DEF Continue

(* begin() answers: the transaction shows its snapshot. *)
LEMMA BeginWhole ==
    ASSUME MigInv, NEW r \in Runners, BeginOk(r)
    PROVE  Whole(run'[r], srv'[r]) /\ \A q \in Runners \ {r} : run'[q] = run[q]
  <1>1. /\ run' = [run EXCEPT ![r].at = "step", ![r].i = 1] /\ srv' = [srv EXCEPT ![r] = BeginTx(store)]
        /\ run \in [Runners -> Run] /\ run[r] \in Run /\ store \in Rows
        /\ srv \in [Runners -> ServerTx \cup {NoTx}] /\ run[r].at = "begin" /\ Sound(run[r], srv[r], store)
        BY DEF BeginOk, At, MigInv, TypeOK, RunsSound
  <1>2. run[r].n \in Indices
        BY <1>1 DEF Sound
  <1>3. run'[r] = [run[r] EXCEPT !.at = "step", !.i = 1] /\ \A q \in Runners \ {r} : run'[q] = run[q]
        BY <1>1
  <1>4. run'[r].at = "step" /\ run'[r].i = 1 /\ run'[r].n = run[r].n
        BY <1>1, <1>3 DEF Run
  <1>5. srv'[r] = BeginTx(store) /\ srv'[r].base = store /\ srv'[r].eff = [k \in Keys |-> Keep]
        BY <1>1 DEF BeginTx
  <1>6. TxView(srv'[r]) = store
    <2>1. TxView(srv'[r]) = [k \in Keys |-> ApplyEffect(Keep, store[k])]
          BY <1>5 DEF TxView, ApplyAll
    <2>2. \A k \in Keys : ApplyEffect(Keep, store[k]) = store[k]
          BY DEF ApplyEffect, Keep
    <2>3. store = [k \in Keys |-> store[k]]
          BY <1>1 DEF Rows
    <2> QED BY <2>1, <2>2, <2>3
  <1>7. RowsAfter(run[r].n, 0, store) = store
        BY <1>1, <1>2, RowsAfterFacts
  <1>8. run'[r].i - 1 = 0
        BY <1>4
  <1> QED BY <1>3, <1>4, <1>5, <1>6, <1>7, <1>8 DEF Whole

(* A step passed adds what it does to the rows to what the transaction shows. *)
LEMMA NextRows ==
    ASSUME NEW x \in Indices, NEW j \in 1..Len(Steps(x)) + 1, NEW t \in ServerTx,
           TxView(t) = RowsAfter(x, j - 1, t.base)
    PROVE  /\ KindAt(x, j) = "blank" => TxView(t) = RowsAfter(x, j, t.base)
           /\ KindAt(x, j) = "run" =>
                  TxView(TxWrite(t, StmtEffect(StmtAt(x, j), TxView(t)))) = RowsAfter(x, j, t.base)
  <1>1. t.base \in Rows /\ t.eff \in [Keys -> Effect] /\ TxView(t) \in Rows
        BY TxTyping DEF ServerTx
  <1>2. RowsAfter(x, j, t.base) = StepRows(x, j, TxView(t))
        BY <1>1, RowsAfterFacts
  <1>3. CASE KindAt(x, j) = "blank"
        BY <1>2, <1>3 DEF StepRows
  <1>4. CASE KindAt(x, j) = "run"
    <2> DEFINE eff   == StmtEffect(StmtAt(x, j), TxView(t))
               after == TxWrite(t, eff)
    <2>1. eff \in [Keys -> Effect]
          BY <1>1, StmtAtFacts, StmtTyping
    <2>2. RowsAfter(x, j, t.base) = ApplyAll(eff, TxView(t))
          BY <1>2, <1>4 DEF StepRows
    <2> HIDE DEF eff
    <2>3. after.base = t.base /\ after.eff = [k \in Keys |-> Compose(t.eff[k], eff[k])]
          BY DEF TxWrite, ServerTx
    <2>4. ASSUME NEW k \in Keys
          PROVE  ApplyEffect(Compose(t.eff[k], eff[k]), t.base[k]) = ApplyEffect(eff[k], TxView(t)[k])
      <3>1. t.eff[k] \in Effect /\ eff[k] \in Effect /\ t.base[k] \in Row
            BY <1>1, <2>1 DEF Rows
      <3>2. TxView(t)[k] = ApplyEffect(t.eff[k], t.base[k])
            BY DEF TxView, ApplyAll
      <3> QED BY <3>1, <3>2, ComposeApplies
    <2>5. TxView(after) = [k \in Keys |-> ApplyEffect(Compose(t.eff[k], eff[k]), t.base[k])]
          BY <2>3 DEF TxView, ApplyAll
    <2>6. TxView(after) = ApplyAll(eff, TxView(t))
          BY <2>4, <2>5 DEF ApplyAll
    <2> QED BY <1>4, <2>2, <2>6 DEF eff
  <1> QED BY <1>3, <1>4

(* Blank text changes nothing. *)
LEMMA BlankWhole ==
    ASSUME MigInv, NEW r \in Runners, Whole(run[r], srv[r]), Blank(r)
    PROVE  Whole(run'[r], srv'[r]) /\ \A q \in Runners \ {r} : run'[q] = run[q]
  <1>1. /\ run' = [run EXCEPT ![r].i = @ + 1] /\ run[r].at = "step" /\ At(r, "step")
        /\ KindAt(run[r].n, run[r].i) = "blank" /\ srv' = srv
        BY DEF Blank, At
  <1>2. /\ run \in [Runners -> Run] /\ run[r] \in Run /\ srv[r] \in ServerTx
        /\ run[r].n \in Indices /\ run[r].i \in 1..Len(Steps(run[r].n)) + 1
        /\ Len(Steps(run[r].n)) \in Nat
        BY <1>1, StepFacts
  <1>3. run'[r] = [run[r] EXCEPT !.i = @ + 1] /\ \A q \in Runners \ {r} : run'[q] = run[q]
        BY <1>1, <1>2
  <1>4. run'[r].at = "step" /\ run'[r].i = run[r].i + 1 /\ run'[r].n = run[r].n
        BY <1>1, <1>2, <1>3 DEF Run
  <1>5. TxView(srv[r]) = RowsAfter(run[r].n, run[r].i - 1, srv[r].base)
        BY <1>1 DEF Whole
  <1>6. TxView(srv[r]) = RowsAfter(run[r].n, run[r].i, srv[r].base)
        BY <1>1, <1>2, <1>5, NextRows
  <1>7. run'[r].i - 1 = run[r].i
        BY <1>2, <1>4
  <1> QED BY <1>1, <1>3, <1>4, <1>6, <1>7 DEF Whole

(* A statement that succeeds, the CREATE of the record at last. *)
LEMMA StmtWhole ==
    ASSUME MigInv, NEW r \in Runners, Whole(run[r], srv[r]), StmtOk(r)
    PROVE  Whole(run'[r], srv'[r]) /\ \A q \in Runners \ {r} : run'[q] = run[q]
  <1> DEFINE x     == run[r].n
             j     == run[r].i
             N     == Len(Steps(x))
             after == TxWrite(srv[r], StmtEffect(StmtAt(x, j), TxView(srv[r])))
  <1>1. /\ run[r].at = "step" /\ At(r, "step") /\ KindAt(x, j) = "run"
        /\ ~Refused(StmtAt(x, j), TxView(srv[r])) /\ srv' = [srv EXCEPT ![r] = after]
        /\ run' = IF j > N THEN [run EXCEPT ![r].at = "commit"] ELSE [run EXCEPT ![r].i = @ + 1]
        BY DEF StmtOk, Advance, At
  <1>2. /\ run \in [Runners -> Run] /\ run[r] \in Run /\ srv[r] \in ServerTx
        /\ srv \in [Runners -> ServerTx \cup {NoTx}]
        /\ x \in Indices /\ N \in Nat /\ j \in 1..N + 1
        /\ Written(srv[r].eff) \cap Tracking = {}
        BY <1>1, StepFacts
  <1>3. TxView(srv[r]) = RowsAfter(x, j - 1, srv[r].base)
        BY <1>1 DEF Whole
  <1>4. TxView(after) = RowsAfter(x, j, srv[r].base)
        BY <1>1, <1>2, <1>3, NextRows
  <1>5. after.base = srv[r].base
        BY <1>1, <1>2, StmtWrites
  <1> HIDE DEF after
  <1>6. srv'[r] = after /\ \A q \in Runners \ {r} : run'[q] = run[q]
        BY <1>1, <1>2
  <1>7. CASE j > N
    <2>1. run'[r] = [run[r] EXCEPT !.at = "commit"] /\ j = N + 1
          BY <1>1, <1>2, <1>7
    <2>2. run'[r].at = "commit" /\ run'[r].n = x
          BY <1>2, <2>1 DEF Run
    <2>3. TxView(after) = Outcome(x, after.base)
          BY <1>4, <1>5, <2>1 DEF Outcome
    <2> QED BY <1>6, <2>2, <2>3 DEF Whole
  <1>8. CASE ~(j > N)
    <2>1. run'[r] = [run[r] EXCEPT !.i = @ + 1]
          BY <1>1, <1>2, <1>8
    <2>2. run'[r].at = "step" /\ run'[r].n = x /\ run'[r].i = j + 1
          BY <1>1, <1>2, <2>1 DEF Run
    <2>3. run'[r].i - 1 = j
          BY <1>2, <2>2
    <2> QED BY <1>4, <1>5, <1>6, <2>2, <2>3 DEF Whole
  <1> QED BY <1>7, <1>8

(* Every step keeps what the transactions show in step with the statements. *)
LEMMA WholeStep ==
    ASSUME WholeInv, [Next]_vars, NEW q \in Runners
    PROVE  Whole(run'[q], srv'[q])
  <1>1. MigInv /\ Whole(run[q], srv[q]) /\ srv[q] \in ServerTx \cup {NoTx}
        BY DEF WholeInv, MigInv, TypeOK
  <1>2. \A xs \in SUBSET Keys : Whole(run[q], MarkStale(srv[q], xs))
        BY <1>1, WholeKept
  <1>3. ASSUME NEW r \in Runners, Continue(r) \/ Begin(r) \/ Crash(r)
        PROVE  Whole(run'[q], srv'[q])
    <2>1. CASE BeginOk(r) \/ Blank(r) \/ StmtOk(r)
      <3>1. Whole(run[r], srv[r])
            BY DEF WholeInv
      <3>2. Whole(run'[r], srv'[r]) /\ \A p \in Runners \ {r} : run'[p] = run[p]
            BY <1>1, <2>1, <3>1, BeginWhole, BlankWhole, StmtWhole
      <3>3. CASE q # r
        <4>1. srv'[q] = srv[q] \/ \E xs \in SUBSET Keys : srv'[q] = MarkStale(srv[q], xs)
              BY <1>1, <1>3, <3>3, OthersWhole
        <4> QED BY <1>1, <1>2, <3>2, <3>3, <4>1
      <3> QED BY <3>2, <3>3
    <2>2. CASE ~(BeginOk(r) \/ Blank(r) \/ StmtOk(r))
      <3>1. \/ Begin(r) \/ EnsureOk(r) \/ SelectOk(r) \/ Apply(r) \/ Crash(r)
            \/ \E facts : AwaitFails(r, facts) \/ StmtFails(r, facts)
            \/ CancelOk(r) \/ CancelFails(r) \/ CommitOk(r) \/ CommitConflicts(r) \/ CommitFails(r)
            BY <1>3, <2>2 DEF Continue
      <3>2. run'[r].at \notin {"step", "commit"} /\ \A p \in Runners \ {r} : run'[p] = run[p]
            BY <1>1, <3>1, QuietSteps
      <3>3. CASE q = r
            BY <3>2, <3>3 DEF Whole
      <3>4. CASE q # r
        <4>1. srv'[q] = srv[q] \/ \E xs \in SUBSET Keys : srv'[q] = MarkStale(srv[q], xs)
              BY <1>1, <1>3, <3>4, OthersWhole
        <4> QED BY <1>1, <1>2, <3>2, <3>4, <4>1
      <3> QED BY <3>3, <3>4
    <2> QED BY <2>1, <2>2
  <1>4. CASE \E r \in Runners : UserTransaction(r)
    <2>1. run' = run /\ srv' = srv
          BY <1>4 DEF UserTransaction
    <2> QED BY <1>1, <2>1
  <1>5. ASSUME NEW w \in Writes, Write(w) PROVE Whole(run'[q], srv'[q])
    <2>1. run' = run
          BY <1>5 DEF Write
    <2>2. \E xs \in SUBSET Keys : srv'[q] = MarkStale(srv[q], xs)
          BY <1>1, <1>5, WriteFacts
    <2> QED BY <1>2, <2>1, <2>2
  <1>6. CASE UNCHANGED vars
    <2>1. run' = run /\ srv' = srv
          BY <1>6 DEF vars
    <2> QED BY <1>1, <2>1
  <1> QED BY <1>3, <1>4, <1>5, <1>6 DEF Next

(* A run whose user has a transaction open goes no further than to be refused. *)
LEMMA ApartStep ==
    ASSUME WholeInv, [Next]_vars, NEW q \in Runners, transaction'[q]
    PROVE  run'[q].at \in {"idle", "apply"}
  <1>1. MigInv /\ TypeOK /\ transaction \in [Runners -> BOOLEAN]
        BY DEF WholeInv, MigInv, TypeOK
  <1>2. transaction[q] => run[q].at \in {"idle", "apply"}
        BY DEF WholeInv, UsersApart
  <1>3. ASSUME NEW r \in Runners, Continue(r) \/ Begin(r) \/ Crash(r)
        PROVE  run'[q].at \in {"idle", "apply"}
    <2>1. Continue(r) \/ Begin(r) => transaction' = transaction
          BY DEF Continue, Begin, EnsureOk, SelectOk, Apply, BeginOk, AwaitFails, Blank, StmtOk,
                 StmtFails, CancelOk, CancelFails, CommitOk, CommitConflicts, CommitFails
    <2>2. Crash(r) => transaction' = [transaction EXCEPT ![r] = FALSE]
          BY DEF Crash
    <2>3. CASE q # r
      <3>1. transaction[q]
            BY <1>1, <1>3, <2>1, <2>2, <2>3
      <3>2. run'[q] = run[q]
        <4>1. CASE BeginOk(r) \/ Blank(r) \/ StmtOk(r)
          <5>1. Whole(run[r], srv[r])
                BY DEF WholeInv
          <5> QED BY <1>1, <2>3, <4>1, <5>1, BeginWhole, BlankWhole, StmtWhole
        <4>2. CASE ~(BeginOk(r) \/ Blank(r) \/ StmtOk(r))
          <5>1. \/ Begin(r) \/ EnsureOk(r) \/ SelectOk(r) \/ Apply(r) \/ Crash(r)
                \/ \E facts : AwaitFails(r, facts) \/ StmtFails(r, facts)
                \/ CancelOk(r) \/ CancelFails(r) \/ CommitOk(r) \/ CommitConflicts(r) \/ CommitFails(r)
                BY <1>3, <4>2 DEF Continue
          <5> QED BY <1>1, <2>3, <5>1, QuietSteps
        <4> QED BY <4>1, <4>2
      <3> QED BY <1>2, <3>1, <3>2
    <2>4. CASE q = r
      <3>1. transaction[r] /\ run[r].at \in {"idle", "apply"} /\ ~Crash(r)
            BY <1>1, <1>2, <1>3, <2>1, <2>2, <2>4
      <3>2. Begin(r) \/ Apply(r)
            BY <1>3, <3>1 DEF Continue, At, EnsureOk, SelectOk, BeginOk, AwaitFails, Blank, StmtOk,
                 StmtFails, CancelOk, CancelFails, CommitOk, CommitConflicts, CommitFails
      <3>3. Finish(r, "invalid_statement")
            BY <3>1, <3>2 DEF Begin, Apply
      <3> QED BY <1>1, <2>4, <3>3, Moves
    <2> QED BY <2>3, <2>4
  <1>4. ASSUME NEW r \in Runners, UserTransaction(r)
        PROVE  run'[q].at \in {"idle", "apply"}
    <2>1. /\ run[r].at \in {"idle", "apply"} /\ run' = run
          /\ transaction' = [transaction EXCEPT ![r] = ~@]
          BY <1>4 DEF UserTransaction
    <2> QED BY <1>1, <1>2, <2>1
  <1>5. CASE UNCHANGED vars \/ \E w \in Writes : Write(w)
    <2>1. run' = run /\ transaction' = transaction
          BY <1>5 DEF vars, Write
    <2> QED BY <1>2, <2>1
  <1> QED BY <1>3, <1>4, <1>5 DEF Next

(* At any moment a migration's transaction shows what the statements it has
   passed make of its snapshot (conn.rs:178-219), and nothing is sent on a
   connection whose user has a transaction open (conn.rs:163), for any runners,
   migrations and application statements.                                   *)
THEOREM ViewsWhole == Spec => []WholeInv
  <1>1. Init => WholeInv
    <2>1. ASSUME Init, NEW r \in Runners PROVE Whole(run[r], srv[r])
      <3>1. run[r].at = "idle"
            BY <2>1 DEF Init, Idle
      <3> QED BY <3>1 DEF Whole
    <2>2. Init => UsersApart
          BY DEF Init, UsersApart
    <2> QED BY <2>1, <2>2, InitInv DEF WholeInv
  <1>2. WholeInv /\ [Next]_vars => WholeInv'
    <2> SUFFICES ASSUME WholeInv, [Next]_vars PROVE WholeInv'
        OBVIOUS
    <2>1. MigInv'
          BY NextInv DEF WholeInv
    <2>2. \A r \in Runners : Whole(run'[r], srv'[r])
          BY WholeStep
    <2>3. (\A r \in Runners : Whole(run[r], srv[r]))'
          BY <2>2 DEF Whole
    <2>4. UsersApart'
          BY ApartStep DEF UsersApart
    <2> QED BY <2>1, <2>3, <2>4 DEF WholeInv
  <1> QED BY <1>1, <1>2, PTL DEF Spec

(* What a commit makes of the rows: a row that nobody has changed since the
   migration began becomes what the migration makes of it, the others stay. *)
LEMMA CommitWhole ==
    ASSUME WholeInv, NEW r \in Runners, At(r, "commit"), ~Conflicts(srv[r]), Publish(r), NEW k \in Keys
    PROVE  store'[k] = IF k \in srv[r].stale THEN store[k] ELSE Outcome(run[r].n, store)[k]
  <1> DEFINE x == run[r].n
             t == srv[r]
  <1>1. /\ MigInv /\ run[r].at = "commit" /\ store \in Rows /\ t \in ServerTx \cup {NoTx}
        /\ Sound(run[r], t, store) /\ Whole(run[r], t)
        BY DEF WholeInv, MigInv, TypeOK, RunsSound, At
  <1>2. x \in Indices /\ t \in ServerTx /\ \A l \in Keys \ t.stale : t.base[l] = store[l]
        BY <1>1 DEF Sound
  <1>3. TxView(t) = Outcome(x, t.base) /\ t.base \in Rows
        BY <1>1, <1>2 DEF Whole, ServerTx
  <1>4. store'[k] = IF k \in Written(t.eff) THEN TxView(t)[k] ELSE store[k]
        BY DEF Publish, CommitRows
  <1>5. CASE k \in t.stale
    <2>1. k \notin Written(t.eff)
          BY <1>5 DEF Conflicts
    <2> QED BY <1>4, <1>5, <2>1
  <1>6. CASE k \notin t.stale
    <2>1. t.base[k] = store[k]
          BY <1>2, <1>6
    <2>2. Outcome(x, store)[k] = TxView(t)[k]
          BY <1>1, <1>2, <1>3, <2>1, OutcomeLocal
    <2>3. k \notin Written(t.eff) => TxView(t)[k] = t.base[k]
          BY DEF Written, TxView, ApplyAll, ApplyEffect
    <2> QED BY <1>4, <1>6, <2>1, <2>2, <2>3
  <1> QED BY <1>5, <1>6

(* AppliesWhole: a migration changes the store as a whole, together with its
   record, or not at all, and leaves alone what an application has changed in
   the meantime (conn.rs:178-225).                                          *)
THEOREM WholeOrNot == Spec => AppliesWhole
  <1>1. WholeInv /\ [Next]_vars =>
           [store' # store =>
             \/ \E w \in Writes : Write(w)
             \/ \E r \in Runners :
                   /\ At(r, "commit") /\ ~Recorded(run[r].n)
                   /\ \A k \in Keys :
                          store'[k] = IF k \in srv[r].stale THEN store[k]
                                      ELSE Outcome(run[r].n, store)[k]]_vars
    <2> SUFFICES ASSUME WholeInv, Next, store' # store, ~(\E w \in Writes : Write(w))
                 PROVE  \E r \in Runners :
                            /\ At(r, "commit") /\ ~Recorded(run[r].n)
                            /\ \A k \in Keys :
                                   store'[k] = IF k \in srv[r].stale THEN store[k]
                                               ELSE Outcome(run[r].n, store)[k]
        OBVIOUS
    <2>1. MigInv
          BY DEF WholeInv
    <2>2. PICK r \in Runners : At(r, "commit") /\ ~Conflicts(srv[r]) /\ Publish(r)
          BY <2>1, StoreSteps
    <2>3. ~Recorded(run[r].n)
          BY <2>1, <2>2, PublishFacts DEF Recorded
    <2>4. \A k \in Keys : store'[k] = IF k \in srv[r].stale THEN store[k]
                                      ELSE Outcome(run[r].n, store)[k]
          BY <2>2, CommitWhole
    <2> QED BY <2>2, <2>3, <2>4
  <1> QED BY <1>1, ViewsWhole, PTL DEF Spec, AppliesWhole
=============================================================================
