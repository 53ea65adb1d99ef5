--------------------------- MODULE ConnectionProofs ---------------------------
(***************************************************************************)
(* Proofs about Connection, for any set of connections, record ids and     *)
(* operations: its invariant, and that it implements AtomicStore.  And     *)
(* about RetryClient, for any finite pool of connections: clients that     *)
(* repeat their transaction on a serialization failure count each of them  *)
(* exactly once, whatever fails and however their calls interleave.  The   *)
(* assumptions of RetryClient are cited only there.                        *)
(***************************************************************************)
EXTENDS RetryClient, StoreProofs, FiniteSetTheorems, TLAPS

-----------------------------------------------------------------------------
(* The one-statement query of every handler but insert's. *)
LEMMA Singleton ==
    ASSUME NEW S, NEW x \in S
    PROVE  /\ <<x>> \in Seq(S) /\ <<x>> # << >>
           /\ \A i \in 1..Len(<<x>>) : <<x>>[i] = x
  OBVIOUS

(* Every handler renders well-formed statements. *)
LEMMA RenderTyping ==
    /\ \A rows \in Inserts : exec_insert_stmts(rows) \in Seq(Statement)
    /\ \A op \in Updates : UpdateStmt(op) \in Statement
    /\ \A op \in Deletes : DeleteStmt(op) \in Statement
    /\ \A op \in Upserts : UpsertStmt(op) \in Statement
    /\ \A op \in Gets : GetStmt(op) \in Statement
    /\ \A op \in Queries : \A v \in {"SELECT", "SELECT PK"} : FilterStmt(v, op) \in Statement
  <1>1. Keep \in Effect /\ Del \in Effect
        BY DEF Keep, Del, Effect
  <1>2. ASSUME NEW rows \in Inserts
        PROVE  exec_insert_stmts(rows) \in Seq(Statement)
    <2> DEFINE Cell == [key : Keys, v : Int, build : Coding, decode : Coding]
    <2>1. ASSUME NEW row \in Cell
          PROVE  CreateStmt(row) \in Statement
          BY <1>1 DEF CreateStmt, Statement, Verb
    <2>2. rows \in Seq(Cell)
          BY OperationsAssumption DEF InsertOp
    <2> HIDE DEF Cell
    <2>3. \A i \in 1..Len(rows) : CreateStmt(rows[i]) \in Statement
          BY <2>1, <2>2
    <2> QED BY <2>2, <2>3 DEF exec_insert_stmts
  <1>3. ASSUME NEW op \in Updates
        PROVE  UpdateStmt(op) \in Statement
        BY OperationsAssumption DEF UpdateOp, UpdateStmt, Statement, Verb
  <1>4. ASSUME NEW op \in Deletes
        PROVE  DeleteStmt(op) \in Statement
        BY <1>1, OperationsAssumption DEF DeleteOp, DeleteStmt, Statement, Verb, Coding
  <1>5. ASSUME NEW op \in Upserts
        PROVE  UpsertStmt(op) \in Statement
        BY <1>1, OperationsAssumption DEF UpsertOp, UpsertStmt, Statement, Verb
  <1>6. ASSUME NEW op \in Gets
        PROVE  GetStmt(op) \in Statement
        BY <1>1, OperationsAssumption DEF GetOp, GetStmt, Statement, Verb
  <1>7. ASSUME NEW op \in QueryOp, NEW v \in Verb
        PROVE  FilterStmt(v, op) \in Statement
        BY <1>1 DEF QueryOp, FilterStmt, Statement
  <1>8. Queries \subseteq QueryOp /\ {"SELECT", "SELECT PK"} \subseteq Verb
        BY OperationsAssumption DEF Verb
  <1> QED BY <1>2, <1>3, <1>4, <1>5, <1>6, <1>7, <1>8

(* No call in flight is a value of `pend`, and no rows are rows. *)
LEMMA IdleTyping == Idle \in Pend /\ NoRows \in Rows
    BY DEF Idle, Pend, Waiting, NoRows, Rows, Row

(* classify_error answers only with statuses of the driver. *)
LEMMA ClassifyTyping == \A facts : classify_error(facts) \in Status
    BY DEF classify_error, Status, Coding

-----------------------------------------------------------------------------
(* A fresh pool satisfies the invariant. *)
LEMMA InitInv == Init => ConnInv
  <1> SUFFICES ASSUME Init PROVE ConnInv
      OBVIOUS
  <1>1. TypeOK
        BY IdleTyping, BoundsAssumption DEF Init, TypeOK, Reply, Status, Coding
  <1>2. HandleLive /\ PendLive /\ ReadOnlyHygiene /\ SnapshotFresh
        BY DEF Init, HandleLive, PendLive, ReadOnlyHygiene, SnapshotFresh, Idle
  <1> QED BY <1>1, <1>2 DEF ConnInv

(* A call that returns leaves its connection idle and the others waiting. *)
LEMMA ReturnEffect ==
    ASSUME TypeOK, NEW c \in Conns, NEW status \in Status, NEW rows \in Rows,
           Return(c, status, rows)
    PROVE  /\ pend' \in [Conns -> Pend] /\ reply' \in [Conns -> Reply]
           /\ pend'[c] = Idle /\ pend'[c].await = "idle"
           /\ \A d \in Conns \ {c} : pend'[d] = pend[d]
  BY IdleTyping DEF TypeOK, Return, Reply, Idle

(* A handler that returns before its first await. *)
LEMMA RefuseKeeps ==
    ASSUME ConnInv, NEW c \in Conns, NEW status \in Status, Refuse(c, status)
    PROVE  ConnInv'
  <1>1. /\ UNCHANGED <<store, srv, transaction, read_only, faults>>
        /\ calls' \in 0..MaxCalls /\ pend[c].await = "idle"
        BY BoundsAssumption DEF ConnInv, TypeOK, Refuse, Call, data, conn
  <1>2. /\ pend' \in [Conns -> Pend] /\ reply' \in [Conns -> Reply]
        /\ pend'[c].await = "idle"
        /\ \A d \in Conns \ {c} : pend'[d] = pend[d]
        BY ReturnEffect, IdleTyping DEF ConnInv, Refuse
  <1>3. TypeOK'
        BY <1>1, <1>2 DEF ConnInv, TypeOK
  <1>4. HandleLive' /\ PendLive'
        BY <1>1, <1>2 DEF ConnInv, HandleLive, PendLive
  <1>5. ReadOnlyHygiene' /\ SnapshotFresh'
        BY <1>1 DEF ConnInv, ReadOnlyHygiene, SnapshotFresh
  <1> QED BY <1>3, <1>4, <1>5 DEF ConnInv

(* A handler that goes on to send statements; on a read-only connection
   these must be SELECTs.                                                    *)
LEMMA QueryKeeps ==
    ASSUME ConnInv, NEW c \in Conns, NEW stmts \in Seq(Statement), stmts # << >>,
           NEW condition \in BOOLEAN, NEW ignore \in BOOLEAN,
           read_only[c] => SelectsOnly(stmts),
           Query(c, stmts, condition, ignore)
    PROVE  ConnInv'
  <1> DEFINE p == [Idle EXCEPT !.await = "query", !.todo = stmts,
                               !.condition = condition, !.ignore = ignore]
  <1>1. /\ UNCHANGED <<store, srv, transaction, read_only, faults, reply>>
        /\ calls' \in 0..MaxCalls /\ pend[c].await = "idle"
        BY BoundsAssumption DEF ConnInv, TypeOK, Query, Suspend, Call, data, conn
  <1>2. p \in Pend /\ p.await = "query" /\ p.todo = stmts
        BY IdleTyping DEF Pend, Idle, Waiting
  <1>3. pend' = [pend EXCEPT ![c] = p]
        BY DEF Query, Suspend
  <1>4. pend' \in [Conns -> Pend] /\ pend'[c] = p /\ \A d \in Conns \ {c} : pend'[d] = pend[d]
        BY <1>2, <1>3 DEF ConnInv, TypeOK
  <1> HIDE DEF p
  <1>5. TypeOK'
        BY <1>1, <1>4 DEF ConnInv, TypeOK
  <1>6. HandleLive' /\ PendLive'
        BY <1>1, <1>2, <1>4 DEF ConnInv, HandleLive, PendLive
  <1>7. ReadOnlyHygiene' /\ SnapshotFresh'
        BY <1>1 DEF ConnInv, ReadOnlyHygiene, SnapshotFresh
  <1> QED BY <1>5, <1>6, <1>7 DEF ConnInv

(* Start suspends in begin() only without an open transaction. *)
LEMMA StartKeeps ==
    ASSUME ConnInv, NEW c \in Conns, NEW op \in StartOp, Start(c, op)
    PROVE  ConnInv'
  <1> DEFINE p == [Idle EXCEPT !.await = "begin", !.read_only = op.read_only]
  <1>1. CASE Refuse(c, "unsupported_feature") \/ Refuse(c, "invalid_statement")
        BY <1>1, RefuseKeeps DEF Status, Coding
  <1>2. CASE ~transaction[c] /\ Suspend(c, p) /\ UNCHANGED conn
    <2>1. /\ UNCHANGED <<store, srv, transaction, read_only, faults, reply>>
          /\ calls' \in 0..MaxCalls /\ pend[c].await = "idle"
          BY <1>2, BoundsAssumption DEF ConnInv, TypeOK, Suspend, Call, data, conn
    <2>2. p \in Pend /\ p.await = "begin"
          BY IdleTyping, OperationsAssumption DEF Pend, Idle, Waiting, StartOp
    <2>3. pend' = [pend EXCEPT ![c] = p]
          BY <1>2 DEF Suspend
    <2>4. pend' \in [Conns -> Pend] /\ pend'[c] = p /\ \A d \in Conns \ {c} : pend'[d] = pend[d]
          BY <2>2, <2>3 DEF ConnInv, TypeOK
    <2> HIDE DEF p
    <2>5. srv[c] = NoTx
          BY <1>2, <2>1 DEF ConnInv, HandleLive
    <2>6. TypeOK'
          BY <2>1, <2>4 DEF ConnInv, TypeOK
    <2>7. HandleLive' /\ PendLive'
          BY <2>1, <2>2, <2>4, <2>5 DEF ConnInv, HandleLive, PendLive
    <2>8. ReadOnlyHygiene' /\ SnapshotFresh'
          BY <2>1 DEF ConnInv, ReadOnlyHygiene, SnapshotFresh
    <2> QED BY <2>6, <2>7, <2>8 DEF ConnInv
  <1> QED BY <1>1, <1>2 DEF Start

(* Commit and Rollback move the handle and reset the flag together. *)
LEMMA TakeKeeps ==
    ASSUME ConnInv, NEW c \in Conns, NEW await \in {"commit", "cancel"}, Take(c, await)
    PROVE  ConnInv'
  <1> DEFINE p == [Idle EXCEPT !.await = await]
  <1>1. CASE Refuse(c, "invalid_statement")
        BY <1>1, RefuseKeeps DEF Status, Coding
  <1>2. CASE /\ transaction[c] /\ Suspend(c, p)
             /\ transaction' = [transaction EXCEPT ![c] = FALSE]
             /\ read_only' = [read_only EXCEPT ![c] = FALSE]
    <2>1. /\ UNCHANGED <<store, srv, faults, reply>>
          /\ calls' \in 0..MaxCalls /\ pend[c].await = "idle"
          BY <1>2, BoundsAssumption DEF ConnInv, TypeOK, Suspend, Call, data
    <2>2. p \in Pend /\ p.await \in {"commit", "cancel"}
          BY IdleTyping DEF Pend, Idle, Waiting
    <2>3. pend' = [pend EXCEPT ![c] = p]
          BY <1>2 DEF Suspend
    <2>4. pend' \in [Conns -> Pend] /\ pend'[c] = p /\ \A d \in Conns \ {c} : pend'[d] = pend[d]
          BY <2>2, <2>3 DEF ConnInv, TypeOK
    <2> HIDE DEF p
    <2>5. srv[c] # NoTx
          BY <1>2 DEF ConnInv, HandleLive
    <2>6. TypeOK'
          BY <1>2, <2>1, <2>4 DEF ConnInv, TypeOK
    <2>7. HandleLive' /\ PendLive'
          BY <1>2, <2>1, <2>2, <2>4, <2>5 DEF ConnInv, TypeOK, HandleLive, PendLive
    <2>8. ReadOnlyHygiene' /\ SnapshotFresh'
          BY <1>2, <2>1 DEF ConnInv, TypeOK, ReadOnlyHygiene, SnapshotFresh
    <2> QED BY <2>6, <2>7, <2>8 DEF ConnInv
  <1> QED BY <1>1, <1>2 DEF Take

(* begin() answers: handle, flag and SDK transaction appear together. *)
LEMMA BeginOkKeeps ==
    ASSUME ConnInv, NEW c \in Conns, BeginOk(c)
    PROVE  ConnInv'
  <1>1. /\ UNCHANGED <<store, calls, faults>> /\ store \in Rows
        /\ srv' = [srv EXCEPT ![c] = BeginTx(store)]
        /\ transaction' = [transaction EXCEPT ![c] = TRUE]
        /\ read_only' = [read_only EXCEPT ![c] = pend[c].read_only]
        /\ pend[c].read_only \in BOOLEAN
        BY DEF ConnInv, TypeOK, BeginOk, Resolve, Pend
  <1>2. /\ pend' \in [Conns -> Pend] /\ reply' \in [Conns -> Reply]
        /\ pend'[c].await = "idle"
        /\ \A d \in Conns \ {c} : pend'[d] = pend[d]
        BY ReturnEffect, IdleTyping DEF ConnInv, BeginOk, Status, Coding
  <1>3. TypeOK'
        BY <1>1, <1>2, BeginTyping DEF ConnInv, TypeOK
  <1>4. HandleLive' /\ PendLive'
        BY <1>1, <1>2, BeginTyping DEF ConnInv, TypeOK, HandleLive, PendLive
  <1>5. ReadOnlyHygiene' /\ SnapshotFresh'
        BY <1>1, BeginTyping DEF ConnInv, TypeOK, ReadOnlyHygiene, SnapshotFresh
  <1> QED BY <1>3, <1>4, <1>5 DEF ConnInv

(* Completions that change neither data nor flags: begin() failing, and the
   outcomes of a statement that was not executed.                           *)
LEMMA FailKeeps ==
    ASSUME ConnInv, NEW c \in Conns, NEW status \in Status,
           pend[c].await \in {"begin", "query"}, Return(c, status, NoRows),
           UNCHANGED <<store, srv, transaction, read_only, calls>>,
           faults' \in 0..MaxFaults
    PROVE  ConnInv'
  <1>1. /\ pend' \in [Conns -> Pend] /\ reply' \in [Conns -> Reply]
        /\ pend'[c].await = "idle"
        /\ \A d \in Conns \ {c} : pend'[d] = pend[d]
        BY ReturnEffect, IdleTyping DEF ConnInv
  <1>2. TypeOK'
        BY <1>1 DEF ConnInv, TypeOK
  <1>3. HandleLive' /\ PendLive'
        BY <1>1 DEF ConnInv, HandleLive, PendLive
  <1>4. ReadOnlyHygiene' /\ SnapshotFresh'
        BY DEF ConnInv, ReadOnlyHygiene, SnapshotFresh
  <1> QED BY <1>2, <1>3, <1>4 DEF ConnInv

(* The transaction ends without being published. *)
LEMMA DiscardKeeps ==
    ASSUME ConnInv, NEW c \in Conns, NEW status \in Status,
           Discard(c), Return(c, status, NoRows),
           ~transaction'[c], ~read_only'[c],
           \A d \in Conns \ {c} : transaction'[d] = transaction[d] /\ read_only'[d] = read_only[d],
           transaction' \in [Conns -> BOOLEAN], read_only' \in [Conns -> BOOLEAN],
           calls' \in 0..MaxCalls, faults' \in 0..MaxFaults
    PROVE  ConnInv'
  <1>1. /\ pend' \in [Conns -> Pend] /\ reply' \in [Conns -> Reply]
        /\ pend'[c].await = "idle"
        /\ \A d \in Conns \ {c} : pend'[d] = pend[d]
        BY ReturnEffect, IdleTyping DEF ConnInv
  <1>2. /\ store' = store /\ srv' \in [Conns -> ServerTx \cup {NoTx}]
        /\ srv'[c] = NoTx /\ \A d \in Conns \ {c} : srv'[d] = srv[d]
        BY DEF ConnInv, TypeOK, Discard
  <1>3. TypeOK'
        BY <1>1, <1>2 DEF ConnInv, TypeOK
  <1>4. HandleLive' /\ PendLive'
        BY <1>1, <1>2 DEF ConnInv, HandleLive, PendLive
  <1>5. ReadOnlyHygiene' /\ SnapshotFresh'
        BY <1>2 DEF ConnInv, ReadOnlyHygiene, SnapshotFresh
  <1> QED BY <1>3, <1>4, <1>5 DEF ConnInv

(* Rows change only where they are written, and the transactions open
   elsewhere are told.                                                      *)
LEMMA SpreadKeeps ==
    ASSUME TypeOK, SnapshotFresh, NEW C \in SUBSET Conns, NEW xs \in SUBSET Keys,
           \A k \in Keys \ xs : store'[k] = store[k],
           \A d \in Conns \ C : srv'[d] = MarkStale(srv[d], xs)
    PROVE  \A d \in Conns \ C :
             /\ srv'[d] \in ServerTx \cup {NoTx}
             /\ srv'[d] = NoTx <=> srv[d] = NoTx
             /\ srv[d] # NoTx => srv'[d].eff = srv[d].eff
             /\ srv'[d] # NoTx => \A k \in Keys \ srv'[d].stale : srv'[d].base[k] = store'[k]
  <1> SUFFICES ASSUME NEW d \in Conns \ C
               PROVE  /\ srv'[d] \in ServerTx \cup {NoTx}
                      /\ srv'[d] = NoTx <=> srv[d] = NoTx
                      /\ srv[d] # NoTx => srv'[d].eff = srv[d].eff
                      /\ srv'[d] # NoTx =>
                            \A k \in Keys \ srv'[d].stale : srv'[d].base[k] = store'[k]
      OBVIOUS
  <1>1. srv[d] \in ServerTx \cup {NoTx}
        BY DEF TypeOK
  <1>2. /\ srv'[d] \in ServerTx \cup {NoTx}
        /\ srv'[d] = NoTx <=> srv[d] = NoTx
        /\ srv[d] # NoTx => /\ srv'[d].base = srv[d].base
                            /\ srv'[d].eff = srv[d].eff
                            /\ srv'[d].stale = srv[d].stale \cup xs
        BY <1>1, MarkStaleEffect
  <1>3. ASSUME srv'[d] # NoTx, NEW k \in Keys \ srv'[d].stale
        PROVE  srv'[d].base[k] = store'[k]
    <2>1. srv[d].base[k] = store[k] /\ k \notin xs
          BY <1>2, <1>3 DEF SnapshotFresh
    <2> QED BY <1>2, <1>3, <2>1
  <1> QED BY <1>2, <1>3

(* The transaction is published: by a commit that is answered, or not. *)
LEMMA PublishKeeps ==
    ASSUME ConnInv, NEW c \in Conns, NEW status \in Status,
           pend[c].await = "commit", Publish(c), Return(c, status, NoRows),
           UNCHANGED <<transaction, read_only, calls>>, faults' \in 0..MaxFaults
    PROVE  ConnInv'
  <1>1. /\ pend' \in [Conns -> Pend] /\ reply' \in [Conns -> Reply]
        /\ pend'[c].await = "idle"
        /\ \A d \in Conns \ {c} : pend'[d] = pend[d]
        BY ReturnEffect, IdleTyping DEF ConnInv
  <1>2. srv[c] \in ServerTx
        BY DEF ConnInv, TypeOK, PendLive
  <1>3. Written(srv[c].eff) \in SUBSET Keys
        BY DEF Written
  <1>4. store' = CommitRows(srv[c], store) /\ store' \in Rows
        BY <1>2, TxTyping DEF ConnInv, TypeOK, Publish
  <1>5. \A k \in Keys \ Written(srv[c].eff) : store'[k] = store[k]
        BY <1>4 DEF CommitRows
  <1>6. /\ srv' = [d \in Conns |-> srv'[d]] /\ srv'[c] = NoTx
        /\ \A d \in Conns \ {c} : srv'[d] = MarkStale(srv[d], Written(srv[c].eff))
        BY DEF Publish
  <1>7. \A d \in Conns \ {c} :
             /\ srv'[d] \in ServerTx \cup {NoTx}
             /\ srv'[d] = NoTx <=> srv[d] = NoTx
             /\ srv[d] # NoTx => srv'[d].eff = srv[d].eff
             /\ srv'[d] # NoTx => \A k \in Keys \ srv'[d].stale : srv'[d].base[k] = store'[k]
        BY <1>3, <1>5, <1>6, SpreadKeeps DEF ConnInv
  <1>8. ~transaction[c] /\ ~read_only[c]
        BY DEF ConnInv, HandleLive, ReadOnlyHygiene
  <1>9. TypeOK'
    <2>1. srv' \in [Conns -> ServerTx \cup {NoTx}]
          BY <1>6, <1>7
    <2> QED BY <1>1, <1>4, <2>1 DEF ConnInv, TypeOK
  <1>10. HandleLive' /\ PendLive'
        BY <1>1, <1>6, <1>7, <1>8 DEF ConnInv, HandleLive, PendLive
  <1>11. ReadOnlyHygiene'
    <2>1. ASSUME NEW d \in Conns, read_only'[d]
          PROVE  transaction'[d] /\ Written(srv'[d].eff) = {}
      <3>1. d # c /\ transaction[d] /\ Written(srv[d].eff) = {}
            BY <1>8, <2>1 DEF ConnInv, ReadOnlyHygiene
      <3>2. srv[d] # NoTx
            BY <3>1 DEF ConnInv, HandleLive
      <3> QED BY <1>7, <3>1, <3>2
    <2> QED BY <2>1 DEF ReadOnlyHygiene
  <1>12. SnapshotFresh'
        BY <1>6, <1>7 DEF SnapshotFresh
  <1> QED BY <1>9, <1>10, <1>11, <1>12 DEF ConnInv

(* What is left of a list of statements after its first one is sent. *)
LEMMA TailFacts ==
    ASSUME NEW S, NEW q \in Seq(S), q # << >>
    PROVE  /\ Len(q) # 1 => Tail(q) # << >>
           /\ SelectsOnly(q) => Head(q).verb \in {"SELECT", "SELECT PK"}
           /\ SelectsOnly(q) => SelectsOnly(Tail(q))
  <1> DEFINE t == Tail(q)
             reads(x) == x.verb \in {"SELECT", "SELECT PK"}
  <1>1. t \in Seq(S) /\ Len(q) \in Nat /\ Len(q) # 0 /\ Len(t) = Len(q) - 1
        OBVIOUS
  <1>2. Head(q) = q[1] /\ \A i \in 1..Len(t) : t[i] = q[i + 1]
        OBVIOUS
  <1>3. Len(<< >>) = 0
        OBVIOUS
  <1> HIDE DEF t
  <1>4. Len(q) # 1 => t # << >>
        BY <1>1, <1>3
  <1>5. SelectsOnly(q) <=> \A i \in 1..Len(q) : reads(q[i])
        BY DEF SelectsOnly
  <1>6. SelectsOnly(t) <=> \A i \in 1..Len(t) : reads(t[i])
        BY DEF SelectsOnly
  <1> HIDE DEF reads
  <1>7. 1 \in 1..Len(q) /\ \A i \in 1..Len(t) : i + 1 \in 1..Len(q)
        BY <1>1
  <1>8. SelectsOnly(q) => reads(Head(q)) /\ SelectsOnly(t)
        BY <1>2, <1>5, <1>6, <1>7
  <1> QED BY <1>4, <1>8 DEF t, reads

(* The statement about to be sent, and the rows it sees. *)
LEMMA StmtFacts ==
    ASSUME ConnInv, NEW c \in Conns, pend[c].await = "query"
    PROVE  /\ Stmt(c) \in Statement /\ Tail(pend[c].todo) \in Seq(Statement)
           /\ View(c) \in Rows
           /\ transaction[c] <=> srv[c] # NoTx
           /\ transaction[c] => srv[c] \in ServerTx
           /\ read_only[c] => Stmt(c).verb \in {"SELECT", "SELECT PK"}
           /\ read_only[c] => SelectsOnly(Tail(pend[c].todo))
  <1>1. pend[c].todo \in Seq(Statement) /\ pend[c].todo # << >>
        BY DEF ConnInv, TypeOK, Pend, PendLive
  <1>2. Stmt(c) \in Statement /\ Tail(pend[c].todo) \in Seq(Statement)
        BY <1>1 DEF Stmt
  <1>3. transaction[c] <=> srv[c] # NoTx
        BY DEF ConnInv, HandleLive
  <1>4. transaction[c] => srv[c] \in ServerTx
        BY <1>3 DEF ConnInv, TypeOK
  <1>5. View(c) \in Rows
        BY <1>4, TxTyping DEF View, ConnInv, TypeOK
  <1>6. ASSUME read_only[c]
        PROVE  Stmt(c).verb \in {"SELECT", "SELECT PK"} /\ SelectsOnly(Tail(pend[c].todo))
    <2>1. SelectsOnly(pend[c].todo)
          BY <1>6 DEF ConnInv, PendLive
    <2> QED BY <1>1, <2>1, TailFacts DEF Stmt
  <1> QED BY <1>2, <1>3, <1>4, <1>5, <1>6

(* Executing a statement, inside or outside a transaction. *)
LEMMA RunQueryKeeps ==
    ASSUME ConnInv, NEW c \in Conns, pend[c].await = "query", run_query(c, Stmt(c)),
           UNCHANGED <<transaction, read_only>>
    PROVE  /\ store' \in Rows /\ srv' \in [Conns -> ServerTx \cup {NoTx}]
           /\ \A d \in Conns : srv'[d] = NoTx <=> srv[d] = NoTx
           /\ ReadOnlyHygiene' /\ SnapshotFresh'
  <1> DEFINE eff == StmtEffect(Stmt(c), View(c))
  <1>1. eff \in [Keys -> Effect]
        BY StmtFacts, StmtTyping
  <1>2. read_only[c] => \A k \in Keys : eff[k] = Keep
        BY StmtFacts DEF StmtEffect
  <1>3. CASE transaction[c]
    <2>1. /\ srv' = [srv EXCEPT ![c] = TxWrite(@, eff)] /\ store' = store
          BY <1>3 DEF run_query
    <2> HIDE DEF eff
    <2>2. srv[c] \in ServerTx /\ TxWrite(srv[c], eff) \in ServerTx
          BY <1>1, <1>3, StmtFacts, TxTyping
    <2>3. /\ TxWrite(srv[c], eff).base = srv[c].base
          /\ TxWrite(srv[c], eff).stale = srv[c].stale
          /\ TxWrite(srv[c], eff).eff = [k \in Keys |-> Compose(srv[c].eff[k], eff[k])]
          BY <2>2 DEF TxWrite, ServerTx
    <2>4. store' \in Rows /\ srv' \in [Conns -> ServerTx \cup {NoTx}]
          BY <2>1, <2>2 DEF ConnInv, TypeOK
    <2>5. /\ srv'[c] = TxWrite(srv[c], eff)
          /\ \A d \in Conns \ {c} : srv'[d] = srv[d]
          BY <2>1 DEF ConnInv, TypeOK
    <2>6. srv[c] # NoTx /\ srv'[c] # NoTx
          BY <2>2, <2>5, NoTxAssumption
    <2>7. SnapshotFresh'
          BY <2>1, <2>3, <2>5, <2>6 DEF ConnInv, SnapshotFresh
    <2>8. read_only[c] => Written(srv'[c].eff) = {}
      <3>1. ASSUME read_only[c], NEW k \in Keys
            PROVE  Compose(srv[c].eff[k], eff[k]).kind = "keep"
        <4>1. srv[c].eff[k].kind = "keep"
              BY <3>1 DEF ConnInv, ReadOnlyHygiene, Written
        <4>2. eff[k].kind = "keep"
              BY <1>2, <3>1 DEF Keep
        <4> QED BY <4>1, <4>2 DEF Compose
      <3> QED BY <2>3, <2>5, <3>1 DEF Written
    <2>9. ReadOnlyHygiene'
          BY <2>5, <2>8 DEF ConnInv, ReadOnlyHygiene
    <2> QED BY <2>4, <2>5, <2>6, <2>7, <2>9
  <1>4. CASE ~transaction[c]
    <2>1. /\ store' = ApplyAll(eff, store)
          /\ srv' = [d \in Conns |-> MarkStale(srv[d], Written(eff))]
          BY <1>4 DEF run_query
    <2> HIDE DEF eff
    <2>2. store' \in Rows
          BY <1>1, <2>1, ApplyAllTyping DEF ConnInv, TypeOK
    <2>3. \A k \in Keys \ Written(eff) : store'[k] = store[k]
          BY <2>1 DEF ApplyAll, ApplyEffect, Written
    <2>4. Written(eff) \in SUBSET Keys /\ {} \in SUBSET Conns
          BY DEF Written
    <2>5. \A d \in Conns \ {} : srv'[d] = MarkStale(srv[d], Written(eff))
          BY <2>1
    <2>6. \A d \in Conns \ {} :
             /\ srv'[d] \in ServerTx \cup {NoTx}
             /\ srv'[d] = NoTx <=> srv[d] = NoTx
             /\ srv[d] # NoTx => srv'[d].eff = srv[d].eff
             /\ srv'[d] # NoTx => \A k \in Keys \ srv'[d].stale : srv'[d].base[k] = store'[k]
          BY <2>3, <2>4, <2>5, SpreadKeeps DEF ConnInv
    <2>7. srv' \in [Conns -> ServerTx \cup {NoTx}]
          BY <2>1, <2>6
    <2>8. SnapshotFresh'
          BY <2>6 DEF SnapshotFresh
    <2>9. ReadOnlyHygiene'
      <3>1. ASSUME NEW d \in Conns, read_only'[d]
            PROVE  transaction'[d] /\ Written(srv'[d].eff) = {}
        <4>1. transaction[d] /\ Written(srv[d].eff) = {} /\ srv[d] # NoTx
              BY <3>1 DEF ConnInv, ReadOnlyHygiene, HandleLive
        <4> QED BY <2>6, <4>1
      <3> QED BY <3>1 DEF ReadOnlyHygiene
    <2> QED BY <2>2, <2>6, <2>7, <2>8, <2>9
  <1> QED BY <1>3, <1>4

(* An executed statement after which the call returns. *)
LEMMA LastStmtKeeps ==
    ASSUME ConnInv, NEW c \in Conns, NEW status \in Status, NEW rows \in Rows,
           pend[c].await = "query", run_query(c, Stmt(c)), Return(c, status, rows),
           UNCHANGED <<transaction, read_only, calls>>, faults' \in 0..MaxFaults
    PROVE  ConnInv'
  <1>1. /\ pend' \in [Conns -> Pend] /\ reply' \in [Conns -> Reply]
        /\ pend'[c].await = "idle"
        /\ \A d \in Conns \ {c} : pend'[d] = pend[d]
        BY ReturnEffect DEF ConnInv
  <1>2. /\ store' \in Rows /\ srv' \in [Conns -> ServerTx \cup {NoTx}]
        /\ \A d \in Conns : srv'[d] = NoTx <=> srv[d] = NoTx
        /\ ReadOnlyHygiene' /\ SnapshotFresh'
        BY RunQueryKeeps
  <1>3. TypeOK'
        BY <1>1, <1>2 DEF ConnInv, TypeOK
  <1>4. HandleLive' /\ PendLive'
        BY <1>1, <1>2 DEF ConnInv, HandleLive, PendLive
  <1> QED BY <1>2, <1>3, <1>4 DEF ConnInv

(* An executed statement, whether or not more of the same call follow. *)
LEMMA QueryOkKeeps ==
    ASSUME ConnInv, NEW c \in Conns, QueryOk(c)
    PROVE  ConnInv'
  <1> DEFINE rows   == StmtRows(Stmt(c), View(c))
             status == StmtStatus(c, rows)
             got    == Merge(pend[c].got, rows)
             p      == [pend[c] EXCEPT !.todo = Tail(@), !.got = got]
  <1>1. /\ pend[c].await = "query" /\ run_query(c, Stmt(c))
        /\ UNCHANGED <<transaction, read_only, calls, faults>> /\ faults' \in 0..MaxFaults
        BY DEF QueryOk, Sent, Resolve, conn, ConnInv, TypeOK
  <1>2. rows \in Rows /\ Stmt(c).decode \in Coding
        BY <1>1, StmtFacts, StmtTyping DEF Statement
  <1>3. pend[c] \in Pend
        BY DEF ConnInv, TypeOK
  <1>4. got \in Rows
    <2>1. pend[c].got \in Rows
          BY <1>3 DEF Pend
    <2> QED BY <1>2, <2>1 DEF Merge, Rows
  <1>5. status \in Status
        BY <1>2 DEF StmtStatus, Status, Coding
  <1>6. \/ Return(c, status, NoRows) \/ Return(c, "ok", got)
        \/ /\ status = "ok" /\ Len(pend[c].todo) # 1
           /\ pend' = [pend EXCEPT ![c].todo = Tail(@), ![c].got = got]
           /\ UNCHANGED reply
        BY DEF QueryOk
  <1> HIDE DEF rows, status, got
  <1>7. CASE Return(c, status, NoRows) \/ Return(c, "ok", got)
        BY <1>1, <1>4, <1>5, <1>7, IdleTyping, LastStmtKeeps DEF Status, Coding
  <1>8. CASE /\ Len(pend[c].todo) # 1
             /\ pend' = [pend EXCEPT ![c].todo = Tail(@), ![c].got = got]
             /\ UNCHANGED reply
    <2>1. pend' = [pend EXCEPT ![c] = p]
          BY <1>8
    <2>2. p \in Pend /\ p.await = "query" /\ p.todo = Tail(pend[c].todo)
          BY <1>1, <1>3, <1>4, StmtFacts DEF Pend
    <2>3. pend' \in [Conns -> Pend] /\ pend'[c] = p /\ \A d \in Conns \ {c} : pend'[d] = pend[d]
          BY <2>1, <2>2 DEF ConnInv, TypeOK
    <2>4. Tail(pend[c].todo) # << >>
      <3>1. pend[c].todo \in Seq(Statement) /\ pend[c].todo # << >>
            BY <1>1, <1>3 DEF Pend, ConnInv, PendLive
      <3> QED BY <1>8, <3>1, TailFacts
    <2>5. read_only[c] => SelectsOnly(Tail(pend[c].todo))
          BY <1>1, StmtFacts
    <2> HIDE DEF p
    <2>6. /\ store' \in Rows /\ srv' \in [Conns -> ServerTx \cup {NoTx}]
          /\ \A d \in Conns : srv'[d] = NoTx <=> srv[d] = NoTx
          /\ ReadOnlyHygiene' /\ SnapshotFresh'
          BY <1>1, RunQueryKeeps
    <2>7. TypeOK'
          BY <1>1, <1>8, <2>3, <2>6 DEF ConnInv, TypeOK
    <2>8. HandleLive' /\ PendLive'
          BY <1>1, <2>2, <2>3, <2>4, <2>5, <2>6 DEF ConnInv, HandleLive, PendLive
    <2> QED BY <2>6, <2>7, <2>8 DEF ConnInv
  <1> QED BY <1>6, <1>7, <1>8
(* The lists of statements the operations start with. *)
LEMMA WriteQueryKeeps ==
    ASSUME ConnInv, NEW c \in Conns, NEW stmts \in Seq(Statement), stmts # << >>,
           NEW condition \in BOOLEAN, NEW ignore \in BOOLEAN,
           ensure_writable(c), Query(c, stmts, condition, ignore)
    PROVE  ConnInv'
  BY QueryKeeps DEF ensure_writable

(* GetByKey, QueryPk, Scan and FindPkByIndex send one SELECT. *)
LEMMA ReadQueryKeeps ==
    ASSUME ConnInv, NEW c \in Conns, NEW s \in Statement, s.verb \in {"SELECT", "SELECT PK"},
           Query(c, <<s>>, FALSE, FALSE)
    PROVE  ConnInv'
  <1>1. /\ <<s>> \in Seq(Statement) /\ <<s>> # << >>
        /\ \A i \in 1..Len(<<s>>) : <<s>>[i] = s
        BY Singleton
  <1>2. SelectsOnly(<<s>>)
        BY <1>1, Zenon DEF SelectsOnly
  <1> QED BY <1>1, <1>2, QueryKeeps

(* Every operation of Connection::exec, up to its first await. *)
LEMMA ExecKeeps ==
    ASSUME ConnInv, NEW c \in Conns, Exec(c)
    PROVE  ConnInv'
  <1>1. CASE WriteRefused(c)
        BY <1>1, RefuseKeeps DEF WriteRefused, Status
  <1>2. CASE Unsupported(c)
        BY <1>2, RefuseKeeps DEF Unsupported, Status, Coding
  <1>3. CASE Commit(c) \/ Rollback(c)
        BY <1>3, TakeKeeps DEF Commit, Rollback
  <1>4. CASE \E op \in Starts : Start(c, op)
        BY <1>4, StartKeeps, OperationsAssumption
  <1>5. ASSUME NEW rows \in Inserts, Insert(c, rows)
        PROVE  ConnInv'
    <2>1. CASE rows = << >>
          BY <1>5, <2>1, RefuseKeeps DEF Insert, Status, Coding
    <2>2. CASE rows # << >>
      <3>1. exec_insert_stmts(rows) \in Seq(Statement)
            BY RenderTyping
      <3>2. exec_insert_stmts(rows) # << >>
        <4> DEFINE Cell == [key : Keys, v : Int, build : Coding, decode : Coding]
        <4>1. rows \in Seq(Cell)
              BY OperationsAssumption DEF InsertOp
        <4> HIDE DEF Cell
        <4>2. Len(rows) \in Nat /\ Len(rows) # 0
              BY <2>2, <4>1
        <4>3. DOMAIN exec_insert_stmts(rows) = 1..Len(rows) /\ 1 \in 1..Len(rows)
              BY <4>2 DEF exec_insert_stmts
        <4>4. DOMAIN << >> = {}
              OBVIOUS
        <4> QED BY <4>3, <4>4
      <3>3. ensure_writable(c) /\ Query(c, exec_insert_stmts(rows), FALSE, FALSE)
            BY <1>5, <2>2 DEF Insert
      <3> QED BY <3>1, <3>2, <3>3, WriteQueryKeeps
    <2> QED BY <2>1, <2>2
  <1>6. ASSUME NEW op \in Updates, UpdateByKey(c, op)
        PROVE  ConnInv'
    <2>1. \/ Refuse(c, "invalid_statement")
          \/ Query(c, <<UpdateStmt(op)>>, op.condition # NoPred, FALSE)
          BY <1>6 DEF UpdateByKey
    <2>2. <<UpdateStmt(op)>> \in Seq(Statement) /\ <<UpdateStmt(op)>> # << >>
          BY RenderTyping, Singleton
    <2> QED BY <1>6, <2>1, <2>2, RefuseKeeps, WriteQueryKeeps DEF UpdateByKey, Status, Coding
  <1>7. ASSUME NEW op \in Deletes, DeleteByKey(c, op)
        PROVE  ConnInv'
    <2>1. \/ Refuse(c, "invalid_statement")
          \/ Query(c, <<DeleteStmt(op)>>, op.condition # NoPred, FALSE)
          BY <1>7 DEF DeleteByKey
    <2>2. <<DeleteStmt(op)>> \in Seq(Statement) /\ <<DeleteStmt(op)>> # << >>
          BY RenderTyping, Singleton
    <2> QED BY <1>7, <2>1, <2>2, RefuseKeeps, WriteQueryKeeps DEF DeleteByKey, Status, Coding
  <1>8. ASSUME NEW op \in Upserts, Upsert(c, op)
        PROVE  ConnInv'
    <2>1. <<UpsertStmt(op)>> \in Seq(Statement) /\ <<UpsertStmt(op)>> # << >>
          BY RenderTyping, Singleton
    <2> QED BY <1>8, <2>1, WriteQueryKeeps DEF Upsert
  <1>9. ASSUME NEW op \in Gets, GetByKey(c, op)
        PROVE  ConnInv'
    <2>1. GetStmt(op) \in Statement
          BY RenderTyping
    <2>2. GetStmt(op).verb = "SELECT"
          BY DEF GetStmt
    <2> QED BY <1>9, <2>1, <2>2, RefuseKeeps, ReadQueryKeeps DEF GetByKey, Status, Coding
  <1>10. ASSUME NEW op \in Queries, NEW v \in {"SELECT", "SELECT PK"},
                Query(c, <<FilterStmt(v, op)>>, FALSE, FALSE)
         PROVE  ConnInv'
    <2>1. FilterStmt(v, op) \in Statement
          BY RenderTyping
    <2>2. FilterStmt(v, op).verb = v
          BY DEF FilterStmt
    <2> QED BY <1>10, <2>1, <2>2, ReadQueryKeeps
  <1>11. CASE \E op \in Queries : QueryPkOrScan(c, op) \/ FindPkByIndex(c, op)
         BY <1>10, <1>11 DEF QueryPkOrScan, FindPkByIndex
  <1> QED BY <1>1, <1>2, <1>3, <1>4, <1>5, <1>6, <1>7, <1>8, <1>9, <1>11 DEF Exec

(* Every way an await can end. *)
LEMMA CompleteKeeps ==
    ASSUME ConnInv, NEW c \in Conns, Complete(c)
    PROVE  ConnInv'
  <1>1. Fault => faults' \in 0..MaxFaults
        BY BoundsAssumption DEF Fault, ConnInv, TypeOK
  <1>2. calls \in 0..MaxCalls /\ faults \in 0..MaxFaults
        BY DEF ConnInv, TypeOK
  <1>3. \A facts : classify_error(facts) \in Status
        BY ClassifyTyping
  <1>4. {"ok"} \subseteq Status /\ Coding \subseteq Status
        BY DEF Status, Coding
  <1>5. CASE BeginOk(c)
        BY <1>5, BeginOkKeeps
  <1>6. CASE BeginFails(c)
        BY <1>1, <1>3, <1>6, FailKeeps DEF BeginFails, Resolve, data, conn
  <1>7. CASE CommitOk(c)
        BY <1>2, <1>4, <1>7, PublishKeeps DEF CommitOk, Resolve, conn
  <1>8. CASE CommitAnswerLost(c)
        BY <1>1, <1>3, <1>8, PublishKeeps DEF CommitAnswerLost, Resolve, conn
  <1>9. ASSUME NEW status \in Status, pend[c].await \in {"commit", "cancel"},
               Discard(c), Return(c, status, NoRows),
               UNCHANGED <<transaction, read_only, calls>>, faults' \in 0..MaxFaults
        PROVE  ConnInv'
    <2>1. ~transaction[c] /\ ~read_only[c]
          BY <1>9 DEF ConnInv, HandleLive, ReadOnlyHygiene
    <2>2. transaction \in [Conns -> BOOLEAN] /\ read_only \in [Conns -> BOOLEAN]
          BY DEF ConnInv, TypeOK
    <2> QED BY <1>2, <1>9, <2>1, <2>2, DiscardKeeps
  <1>10. CASE CommitConflicts(c)
         BY <1>2, <1>3, <1>9, <1>10 DEF CommitConflicts, Resolve, conn
  <1>11. CASE CommitFails(c)
         BY <1>1, <1>3, <1>9, <1>11 DEF CommitFails, Resolve, conn
  <1>12. CASE CancelOk(c)
         BY <1>2, <1>4, <1>9, <1>12 DEF CancelOk, Resolve, conn
  <1>13. CASE CancelFails(c)
         BY <1>1, <1>3, <1>9, <1>13 DEF CancelFails, Resolve, conn
  <1>14. CASE BuildFails(c)
    <2>1. Stmt(c).build \in Status
          BY <1>4, <1>14, StmtFacts DEF BuildFails, Resolve, Statement
    <2> QED BY <1>2, <1>14, <2>1, FailKeeps DEF BuildFails, Resolve, data, conn
  <1>15. CASE QueryOk(c)
         BY <1>15, QueryOkKeeps
  <1>16. ASSUME NEW facts, QueryError(c, facts)
         PROVE  \E status \in Status : Return(c, status, NoRows)
         BY <1>3, <1>4, <1>16 DEF QueryError
  <1>17. CASE QueryRefused(c)
         BY <1>2, <1>16, <1>17, FailKeeps DEF QueryRefused, Sent, Resolve, data, conn
  <1>18. CASE QueryAnswerLost(c)
         BY <1>1, <1>16, <1>18, IdleTyping, LastStmtKeeps
         DEF QueryAnswerLost, Sent, Resolve, conn
  <1>19. ASSUME NEW facts, QueryFails(c, facts)
         PROVE  ConnInv'
         BY <1>1, <1>16, <1>19, FailKeeps DEF QueryFails, Sent, Resolve, data, conn
  <1> QED BY <1>5, <1>6, <1>7, <1>8, <1>10, <1>11, <1>12, <1>13, <1>14, <1>15, <1>17, <1>18,
             <1>19 DEF Complete

(* The pool replaces an idle connection. *)
LEMMA ReconnectKeeps ==
    ASSUME ConnInv, NEW c \in Conns, Reconnect(c)
    PROVE  ConnInv'
  <1>1. transaction \in [Conns -> BOOLEAN] /\ read_only \in [Conns -> BOOLEAN]
        /\ calls' \in 0..MaxCalls /\ faults' \in 0..MaxFaults
        BY BoundsAssumption DEF Reconnect, ConnInv, TypeOK
  <1>2. /\ transaction' \in [Conns -> BOOLEAN] /\ read_only' \in [Conns -> BOOLEAN]
        /\ ~transaction'[c] /\ ~read_only'[c]
        /\ \A d \in Conns \ {c} : transaction'[d] = transaction[d] /\ read_only'[d] = read_only[d]
        BY <1>1 DEF Reconnect
  <1>3. Discard(c) /\ Return(c, "ok", NoRows) /\ "ok" \in Status
        BY DEF Reconnect, Status, Coding
  <1> QED BY <1>1, <1>2, <1>3, DiscardKeeps

(* Nothing happens. *)
LEMMA StutterKeeps ==
    ASSUME ConnInv, UNCHANGED vars
    PROVE  ConnInv'
  BY DEF ConnInv, TypeOK, HandleLive, PendLive, ReadOnlyHygiene, SnapshotFresh, SelectsOnly, vars

(* The connections, their calls and the store's transactions always agree. *)
THEOREM Invariance == Spec => []ConnInv
  <1>1. ConnInv /\ [Next]_vars => ConnInv'
        BY ExecKeeps, CompleteKeeps, ReconnectKeeps, StutterKeeps DEF Next
  <1> QED BY InitInv, <1>1, PTL DEF Spec

(* Type correctness. *)
THEOREM TypeCorrect == Spec => []TypeOK
  BY Invariance, PTL DEF ConnInv

(* A connection holds a handle exactly while the SDK transaction behind it is
   open and unfinalized (conn.rs, exec_transaction).                        *)
THEOREM HandlesLive == Spec => []HandleLive
  BY Invariance, PTL DEF ConnInv

(* A read-only flag never outlives its transaction, and that transaction has
   written nothing (conn.rs, ensure_writable and exec_transaction).         *)
THEOREM ReadOnlySound == Spec => []ReadOnlyHygiene
  BY Invariance, PTL DEF ConnInv

-----------------------------------------------------------------------------
(* Connection implements AtomicStore.

   The instance has its own copies of the store's operators; they are equal. *)
LEMMA SameEffects ==
    /\ Abstract!Keep = Keep /\ Abstract!NoRows = NoRows
    /\ \A n : Abstract!Put(n) = Put(n)
    /\ \A e, row : Abstract!ApplyEffect(e, row) = ApplyEffect(e, row)
    /\ \A d, e : Abstract!Compose(d, e) = Compose(d, e)
  <1>1. Abstract!Keep = Keep /\ Abstract!NoRows = NoRows
        BY DEF Keep, Abstract!Keep, NoRows, Abstract!NoRows
  <1>2. \A n : Abstract!Put(n) = Put(n)
        BY DEF Put, Abstract!Put
  <1>3. \A e, row : Abstract!ApplyEffect(e, row) = ApplyEffect(e, row)
        BY DEF ApplyEffect, Abstract!ApplyEffect
  <1>4. \A d, e : Abstract!Compose(d, e) = Compose(d, e)
        BY DEF Compose, Abstract!Compose
  <1> QED BY <1>1, <1>2, <1>3, <1>4

(* Both modules mean the same by a statement: they instantiate one store
   with the same constants.                                                  *)
LEMMA SameStatements ==
    /\ Abstract!Statement = Statement
    /\ \A eff, rows : Abstract!ApplyAll(eff, rows) = ApplyAll(eff, rows)
    /\ \A s, rows : Abstract!Refused(s, rows) <=> Refused(s, rows)
    /\ \A s, rows : Abstract!StmtEffect(s, rows) = StmtEffect(s, rows)
    /\ \A s, rows : Abstract!StmtRows(s, rows) = StmtRows(s, rows)
  <1>1. Abstract!Statement = Statement
        BY DEF Statement, Abstract!Statement, Verb, Abstract!Verb, Effect, Abstract!Effect,
               Pred, Abstract!Pred, Coding, Abstract!Coding
  <1>2. \A eff, rows : Abstract!ApplyAll(eff, rows) = ApplyAll(eff, rows)
        BY SameEffects DEF ApplyAll, Abstract!ApplyAll
  <1>3. \A s, rows : Abstract!Refused(s, rows) <=> Refused(s, rows)
        BY DEF Refused, Abstract!Refused
  <1>4. \A s, rows : Abstract!Hits(s, rows) = Hits(s, rows)
        BY DEF Hits, Abstract!Hits
  <1>5. \A s, rows : Abstract!StmtEffect(s, rows) = StmtEffect(s, rows)
        BY <1>4, SameEffects DEF StmtEffect, Abstract!StmtEffect
  <1>6. \A s, rows : Abstract!StmtRows(s, rows) = StmtRows(s, rows)
        BY <1>4, <1>5, SameEffects DEF StmtRows, Abstract!StmtRows
  <1> QED BY <1>1, <1>2, <1>3, <1>5, <1>6

-----------------------------------------------------------------------------
(* GotSound is an invariant, relative to ConnInv. *)

(* GotSound depends on nothing but the call that changes. *)
LEMMA GotStep ==
    ASSUME TypeOK, GotSound, NEW c \in Conns, NEW p, pend' = [pend EXCEPT ![c] = p],
           p.await = "query" => OnlyCreates(p.todo) \/ (Len(p.todo) = 1 /\ p.got = NoRows)
    PROVE  GotSound'
  <1>1. pend'[c] = p /\ \A d \in Conns \ {c} : pend'[d] = pend[d]
        BY DEF TypeOK
  <1> QED BY <1>1, Zenon DEF GotSound

(* A call that returns collects nothing any more. *)
LEMMA GotReturn ==
    ASSUME TypeOK, GotSound, NEW c \in Conns, NEW status, NEW rows, Return(c, status, rows)
    PROVE  GotSound'
  <1>1. pend' = [pend EXCEPT ![c] = Idle] /\ Idle.await # "query"
        BY DEF Return, Idle
  <1> QED BY <1>1, GotStep

(* A call begins with no rows collected. *)
LEMMA GotQuery ==
    ASSUME TypeOK, GotSound, NEW c \in Conns, NEW stmts, NEW condition, NEW ignore,
           Query(c, stmts, condition, ignore), OnlyCreates(stmts) \/ Len(stmts) = 1
    PROVE  GotSound'
  <1> DEFINE p == [Idle EXCEPT !.await = "query", !.todo = stmts,
                               !.condition = condition, !.ignore = ignore]
  <1>1. pend' = [pend EXCEPT ![c] = p]
        BY DEF Query, Suspend
  <1>2. p.todo = stmts /\ p.got = NoRows
        BY DEF Idle
  <1> HIDE DEF p
  <1> QED BY <1>1, <1>2, GotStep

(* Insert sends only CREATE statements. *)
LEMMA InsertCreates ==
    ASSUME NEW rows \in Inserts
    PROVE  OnlyCreates(exec_insert_stmts(rows))
  <1> DEFINE Cell == [key : Keys, v : Int, build : Coding, decode : Coding]
  <1>1. rows \in Seq(Cell)
        BY OperationsAssumption DEF InsertOp
  <1> HIDE DEF Cell
  <1>2. Len(rows) \in Nat
        BY <1>1
  <1>3. Len(exec_insert_stmts(rows)) = Len(rows)
        BY <1>2 DEF exec_insert_stmts
  <1>4. \A i \in 1..Len(rows) : exec_insert_stmts(rows)[i] = CreateStmt(rows[i])
        BY DEF exec_insert_stmts
  <1>5. \A row : CreateStmt(row).verb = "CREATE"
        BY DEF CreateStmt
  <1> QED BY <1>3, <1>4, <1>5, Zenon DEF OnlyCreates

(* Every operation, up to its first await, keeps GotSound. *)
LEMMA GotExec ==
    ASSUME ConnInv, GotSound, NEW c \in Conns, Exec(c)
    PROVE  GotSound'
  <1>0. TypeOK
        BY DEF ConnInv
  <1>1. ASSUME NEW status, Refuse(c, status)
        PROVE  GotSound'
        BY <1>0, <1>1, GotReturn DEF Refuse
  <1>2. ASSUME NEW s, NEW condition, NEW ignore, Query(c, <<s>>, condition, ignore)
        PROVE  GotSound'
    <2>1. Len(<<s>>) = 1
          OBVIOUS
    <2> QED BY <1>0, <1>2, <2>1, GotQuery
  <1>3. ASSUME NEW p, p.await # "query", Suspend(c, p)
        PROVE  GotSound'
        BY <1>0, <1>3, GotStep DEF Suspend
  <1>4. ASSUME NEW op \in Starts, Start(c, op)
        PROVE  GotSound'
    <2>1. [Idle EXCEPT !.await = "begin", !.read_only = op.read_only].await # "query"
          BY DEF Idle
    <2> QED BY <1>1, <1>3, <1>4, <2>1 DEF Start
  <1>5. ASSUME NEW await \in {"commit", "cancel"}, Take(c, await)
        PROVE  GotSound'
    <2>1. [Idle EXCEPT !.await = await].await # "query"
          BY DEF Idle
    <2> QED BY <1>1, <1>3, <1>5, <2>1 DEF Take
  <1>6. ASSUME NEW rows \in Inserts, Insert(c, rows)
        PROVE  GotSound'
        BY <1>0, <1>1, <1>6, GotQuery, InsertCreates DEF Insert
  <1>7. CASE WriteRefused(c) \/ Unsupported(c)
        BY <1>1, <1>7 DEF WriteRefused, Unsupported
  <1>8. CASE Commit(c) \/ Rollback(c)
        BY <1>5, <1>8 DEF Commit, Rollback
  <1>9. CASE \E op \in Updates : UpdateByKey(c, op)
        BY <1>1, <1>2, <1>9 DEF UpdateByKey
  <1>10. CASE \E op \in Deletes : DeleteByKey(c, op)
        BY <1>1, <1>2, <1>10 DEF DeleteByKey
  <1>11. CASE \E op \in Upserts : Upsert(c, op)
        BY <1>2, <1>11 DEF Upsert
  <1>12. CASE \E op \in Gets : GetByKey(c, op)
        BY <1>1, <1>2, <1>12 DEF GetByKey
  <1>13. CASE \E op \in Queries : QueryPkOrScan(c, op) \/ FindPkByIndex(c, op)
        BY <1>2, <1>13 DEF QueryPkOrScan, FindPkByIndex
  <1> QED BY <1>4, <1>6, <1>7, <1>8, <1>9, <1>10, <1>11, <1>12, <1>13 DEF Exec

(* CREATE statements are followed by CREATE statements. *)
LEMMA TailCreates ==
    ASSUME NEW S, NEW q \in Seq(S), q # << >>, OnlyCreates(q)
    PROVE  OnlyCreates(Tail(q)) /\ Head(q).verb = "CREATE"
  <1> DEFINE t == Tail(q)
  <1>1. t \in Seq(S) /\ Len(q) \in Nat /\ Len(q) # 0 /\ Len(t) = Len(q) - 1
        OBVIOUS
  <1>2. Head(q) = q[1] /\ \A i \in 1..Len(t) : t[i] = q[i + 1]
        OBVIOUS
  <1> HIDE DEF t
  <1>3. 1 \in 1..Len(q) /\ \A i \in 1..Len(t) : i + 1 \in 1..Len(q)
        BY <1>1
  <1>4. OnlyCreates(t) /\ Head(q).verb = "CREATE"
        BY <1>2, <1>3, Zenon DEF OnlyCreates
  <1> QED BY <1>4 DEF t

(* Every end of an await keeps GotSound. *)
LEMMA GotComplete ==
    ASSUME ConnInv, GotSound, NEW c \in Conns, Complete(c)
    PROVE  GotSound'
  <1>0. TypeOK
        BY DEF ConnInv
  <1>1. CASE \E status, rows : Return(c, status, rows)
        BY <1>0, <1>1, GotReturn
  <1>2. ASSUME NEW facts, QueryError(c, facts)
        PROVE  \E status, rows : Return(c, status, rows)
        BY <1>2 DEF QueryError
  <1>3. CASE QueryOk(c)
    <2> DEFINE got == Merge(pend[c].got, StmtRows(Stmt(c), View(c)))
               p   == [pend[c] EXCEPT !.todo = Tail(@), !.got = got]
    <2>1. \/ \E status, rows : Return(c, status, rows)
          \/ /\ pend[c].await = "query" /\ Len(pend[c].todo) # 1
             /\ pend' = [pend EXCEPT ![c] = p]
          BY <1>3 DEF QueryOk, Sent, Resolve
    <2> HIDE DEF got
    <2>2. CASE /\ pend[c].await = "query" /\ Len(pend[c].todo) # 1
               /\ pend' = [pend EXCEPT ![c] = p]
      <3>1. pend[c] \in Pend /\ pend[c].todo # << >>
            BY <2>2 DEF ConnInv, TypeOK, PendLive
      <3>2. pend[c].todo \in Seq(Statement) /\ p.todo = Tail(pend[c].todo)
            BY <3>1 DEF Pend
      <3>3. OnlyCreates(pend[c].todo)
            BY <2>2 DEF GotSound
      <3>4. OnlyCreates(p.todo)
            BY <3>1, <3>2, <3>3, TailCreates
      <3> HIDE DEF p
      <3> QED BY <1>0, <2>2, <3>4, GotStep
    <2> QED BY <1>1, <2>1, <2>2
  <1>4. CASE \/ BeginOk(c) \/ BeginFails(c) \/ CommitOk(c) \/ CommitConflicts(c) \/ CommitFails(c)
             \/ CommitAnswerLost(c) \/ CancelOk(c) \/ CancelFails(c) \/ BuildFails(c)
        BY <1>1, <1>4 DEF BeginOk, BeginFails, CommitOk, CommitConflicts, CommitFails,
                          CommitAnswerLost, CancelOk, CancelFails, BuildFails
  <1>5. CASE \/ QueryRefused(c) \/ QueryAnswerLost(c)
             \/ \E facts \in {OtherError, QueryConflict} : QueryFails(c, facts)
        BY <1>1, <1>2, <1>5 DEF QueryRefused, QueryAnswerLost, QueryFails
  <1> QED BY <1>3, <1>4, <1>5 DEF Complete

(* The invariant the refinement rests on (conn.rs exec; op/insert.rs 36-64
   for the rows an insert collects).                                        *)
THEOREM RefInvariance == Spec => []RefInv
  <1>1. Init => GotSound
        BY DEF Init, GotSound, Idle
  <1>2. ConnInv /\ GotSound /\ [Next]_vars => GotSound'
    <2> SUFFICES ASSUME ConnInv, GotSound, [Next]_vars PROVE GotSound'
        OBVIOUS
    <2>1. ASSUME NEW c \in Conns, Reconnect(c)
          PROVE  GotSound'
          BY <2>1, GotReturn DEF Reconnect, ConnInv
    <2>2. CASE UNCHANGED vars
          BY <2>2 DEF vars, GotSound
    <2> QED BY <2>1, <2>2, GotExec, GotComplete DEF Next
  <1> QED BY <1>1, <1>2, Invariance, PTL DEF Spec, RefInv

-----------------------------------------------------------------------------
(* The mapping of transactions and of waiting calls. *)

(* What a client sees of a transaction; staleness is not part of it. *)
LEMMA SessionFacts ==
    ASSUME NEW t \in ServerTx \cup {NoTx}
    PROVE  /\ Session(t) = NoTx <=> t = NoTx
           /\ t # NoTx => Session(t).base = t.base /\ Session(t).eff = t.eff
           /\ t # NoTx => Session(t) = [base |-> t.base, eff |-> t.eff]
           /\ \A xs \in SUBSET Keys : Session(MarkStale(t, xs)) = Session(t)
  <1>1. CASE t = NoTx
        BY <1>1 DEF Session, MarkStale
  <1>2. CASE t # NoTx
    <2>1. t \in ServerTx
          BY <1>2
    <2>2. Session(t) = [base |-> t.base, eff |-> t.eff]
          BY <1>2 DEF Session
    <2>3. Session(t) \in Snapshot
          BY <2>1, <2>2 DEF ServerTx, Snapshot
    <2>4. ASSUME NEW xs \in SUBSET Keys
          PROVE  Session(MarkStale(t, xs)) = Session(t)
          BY <1>2, <2>2, MarkStaleEffect DEF Session
    <2> QED BY <1>2, <2>2, <2>3, <2>4, NoTxAssumption
  <1> QED BY <1>1, <1>2

(* A call that returns without rows, seen abstractly. *)
LEMMA AnsweredMap ==
    ASSUME TypeOK, NEW c \in Conns, NEW statuses, NEW status \in statuses,
           Return(c, status, NoRows)
    PROVE  Abstract!Answered(c, statuses)
  <1>1. Asked(Idle) = Abstract!NoRequest
        BY DEF Asked, Idle, Abstract!NoRequest
  <1>2. [d \in Conns |-> Asked(pend'[d])]
            = [[d \in Conns |-> Asked(pend[d])] EXCEPT ![c] = Abstract!NoRequest]
        BY <1>1 DEF Return, TypeOK
  <1> QED BY <1>2, SameEffects DEF Abstract!Answered, Return

(* A transaction given up, seen abstractly. *)
LEMMA DiscardMap ==
    ASSUME TypeOK, NEW c \in Conns, Discard(c)
    PROVE  /\ [d \in Conns |-> Session(srv'[d])]
                  = [[d \in Conns |-> Session(srv[d])] EXCEPT ![c] = NoTx]
           /\ store' = store
  BY DEF Discard, TypeOK, Session

(* A call refused before its first await is an immediate answer. *)
LEMMA RefuseMap ==
    ASSUME TypeOK, NEW c \in Conns, NEW status \in Abstract!Errors \cup {"ok"}, Refuse(c, status)
    PROVE  Abstract!Next
  <1>1. Abstract!Answered(c, Abstract!Errors \cup {"ok"})
        BY AnsweredMap DEF Refuse
  <1>2. pend[c].await = "idle" /\ store' = store /\ srv' = srv
        BY DEF Refuse, Call, data
  <1>3. Abstract!Immediate(c)
        BY <1>1, <1>2 DEF Abstract!Immediate, Asked
  <1> QED BY <1>3 DEF Abstract!Next

(* A call that reaches its first await is a request. *)
LEMMA SuspendMap ==
    ASSUME ConnInv, NEW c \in Conns, NEW p \in Pend, Suspend(c, p),
           p.await = "begin" => srv[c] = NoTx,
           p.await \in {"commit", "cancel"} => srv[c] # NoTx
    PROVE  Abstract!Next
  <1>1. /\ pend[c].await = "idle" /\ store' = store /\ srv' = srv /\ reply' = reply
        /\ pend' = [pend EXCEPT ![c] = p]
        BY DEF Suspend, Call, data
  <1>2. [d \in Conns |-> Asked(pend'[d])]
            = [[d \in Conns |-> Asked(pend[d])] EXCEPT ![c] = Asked(p)]
        BY <1>1 DEF ConnInv, TypeOK
  <1>3. Asked(p) \in Abstract!Request
        BY SameStatements DEF Asked, Abstract!Request, Pend, Waiting
  <1>4. [d \in Conns |-> Asked(pend'[d])][c] = Asked(p)
        BY <1>2
  <1>5. srv[c] \in ServerTx \cup {NoTx}
        BY DEF ConnInv, TypeOK
  <1>6. Asked(p).what = p.await
        BY DEF Asked
  <1>7. Abstract!Ask(c)
        BY <1>1, <1>2, <1>3, <1>4, <1>5, <1>6, SessionFacts DEF Abstract!Ask, Asked
  <1> QED BY <1>7 DEF Abstract!Next

(* What a statement sees, and what it leaves. *)
LEMMA ViewMap ==
    ASSUME ConnInv, NEW c \in Conns, pend[c].await = "query"
    PROVE  Abstract!View(c) = View(c)
  <1>1. transaction[c] <=> srv[c] # NoTx
        BY StmtFacts
  <1>2. srv[c] \in ServerTx \cup {NoTx}
        BY DEF ConnInv, TypeOK
  <1>3. Session(srv[c]) = NoTx <=> srv[c] = NoTx
        BY <1>2, SessionFacts
  <1>4. srv[c] # NoTx => Session(srv[c]).base = srv[c].base /\ Session(srv[c]).eff = srv[c].eff
        BY <1>2, SessionFacts
  <1>5. Abstract!View(c) = IF Session(srv[c]) = NoTx THEN store
                           ELSE Abstract!ApplyAll(Session(srv[c]).eff, Session(srv[c]).base)
        BY DEF Abstract!View
  <1> QED BY <1>1, <1>3, <1>4, <1>5, SameStatements DEF View, TxView

(* A commit applies the transaction's effects to the current rows: those it
   wrote are fresh, so the value it computed from its snapshot is theirs.    *)
LEMMA PublishMap ==
    ASSUME ConnInv, NEW c \in Conns, pend[c].await = "commit", ~Conflicts(srv[c]), Publish(c)
    PROVE  /\ store' = ApplyAll(Session(srv[c]).eff, store)
           /\ [d \in Conns |-> Session(srv'[d])]
                  = [[d \in Conns |-> Session(srv[d])] EXCEPT ![c] = NoTx]
  <1>1. srv[c] \in ServerTx /\ srv[c] # NoTx
        BY DEF ConnInv, TypeOK, PendLive
  <1>2. srv[c].eff \in [Keys -> Effect] /\ Session(srv[c]).eff = srv[c].eff
        BY <1>1, SessionFacts DEF ServerTx
  <1>3. ASSUME NEW k \in Keys
        PROVE  CommitRows(srv[c], store)[k] = ApplyAll(srv[c].eff, store)[k]
    <2>1. CASE k \in Written(srv[c].eff)
      <3>1. srv[c].base[k] = store[k]
            BY <1>1, <2>1 DEF ConnInv, SnapshotFresh, Conflicts
      <3> QED BY <2>1, <3>1 DEF CommitRows, TxView, ApplyAll
    <2>2. CASE k \notin Written(srv[c].eff)
          BY <2>2 DEF CommitRows, ApplyAll, ApplyEffect, Written
    <2> QED BY <2>1, <2>2
  <1>4. CommitRows(srv[c], store) = ApplyAll(srv[c].eff, store)
        BY <1>3 DEF CommitRows, ApplyAll
  <1>5. Written(srv[c].eff) \in SUBSET Keys
        BY DEF Written
  <1>6. \A d \in Conns : Session(srv'[d]) = IF d = c THEN NoTx ELSE Session(srv[d])
    <2>1. ASSUME NEW d \in Conns
          PROVE  Session(srv'[d]) = IF d = c THEN NoTx ELSE Session(srv[d])
      <3>1. srv[d] \in ServerTx \cup {NoTx}
            BY DEF ConnInv, TypeOK
      <3>2. srv'[d] = IF d = c THEN NoTx ELSE MarkStale(srv[d], Written(srv[c].eff))
            BY DEF Publish
      <3>3. d = c => srv'[d] = NoTx
            BY <3>2
      <3>4. d # c => Session(srv'[d]) = Session(srv[d])
            BY <1>5, <3>1, <3>2, SessionFacts
      <3> QED BY <3>3, <3>4 DEF Session
    <2> QED BY <2>1
  <1> QED BY <1>2, <1>4, <1>6 DEF Publish

(* An executed statement takes effect in the one place the abstract view
   names.                                                                    *)
LEMMA ExecutedMap ==
    ASSUME ConnInv, NEW c \in Conns, pend[c].await = "query", run_query(c, Stmt(c)),
           Stmt(c).build = "ok", ~Refused(Stmt(c), View(c)),
           Abstract!Told(c, Stmt(c), StmtRows(Stmt(c), View(c)))
    PROVE  Abstract!Next
  <1> DEFINE eff == StmtEffect(Stmt(c), View(c))
  <1>0. /\ Asked(pend[c]).what = "query" /\ Head(Asked(pend[c]).todo) = Stmt(c)
        /\ Abstract!View(c) = View(c)
        BY ViewMap DEF Asked, Stmt
  <1>1. srv[c] \in ServerTx \cup {NoTx} /\ (transaction[c] <=> srv[c] # NoTx)
        BY StmtFacts DEF ConnInv, TypeOK
  <1>2. eff \in [Keys -> Effect]
        BY StmtFacts, StmtTyping
  <1>3. ASSUME srv[c] = NoTx
        PROVE  Abstract!Execute(c)
    <2>1. /\ store' = ApplyAll(eff, store)
          /\ srv' = [d \in Conns |-> MarkStale(srv[d], Written(eff))]
          BY <1>1, <1>3 DEF run_query
    <2>2. Written(eff) \in SUBSET Keys
          BY DEF Written
    <2> HIDE DEF eff
    <2>3. ASSUME NEW d \in Conns
          PROVE  Session(srv'[d]) = Session(srv[d])
      <3>1. srv[d] \in ServerTx \cup {NoTx} /\ srv'[d] = MarkStale(srv[d], Written(eff))
            BY <2>1 DEF ConnInv, TypeOK
      <3> QED BY <2>2, <3>1, SessionFacts
    <2>4. [d \in Conns |-> Session(srv'[d])] = [d \in Conns |-> Session(srv[d])]
          BY <2>3
    <2>5. Session(srv[c]) = NoTx
          BY <1>1, <1>3, SessionFacts
    <2> QED BY <1>0, <2>1, <2>4, <2>5, SameStatements DEF Abstract!Execute, eff
  <1>4. ASSUME srv[c] # NoTx
        PROVE  Abstract!Execute(c)
    <2> DEFINE new == TxWrite(srv[c], eff)
               neff == [k \in Keys |-> Compose(srv[c].eff[k], eff[k])]
    <2>1. /\ srv' = [srv EXCEPT ![c] = new] /\ store' = store
          BY <1>1, <1>4 DEF run_query
    <2>2. srv[c] \in ServerTx /\ new \in ServerTx
          BY <1>1, <1>2, <1>4, TxTyping
    <2> HIDE DEF eff
    <2>3. new.base = srv[c].base /\ new.eff = neff
          BY <2>2 DEF TxWrite, ServerTx
    <2> HIDE DEF new
    <2>4. Session(srv[c]) = [base |-> srv[c].base, eff |-> srv[c].eff] /\ Session(srv[c]) # NoTx
          BY <1>1, <1>4, SessionFacts
    <2>5. Session(new) = [base |-> srv[c].base, eff |-> neff]
          BY <2>2, <2>3, NoTxAssumption DEF Session
    <2>6. [Session(srv[c]) EXCEPT !.eff = neff] = Session(new)
          BY <2>4, <2>5
    <2>7. Session(srv[c]).eff = srv[c].eff
          BY <2>4
    <2>8. [d \in Conns |-> Session(srv'[d])]
              = [[d \in Conns |-> Session(srv[d])] EXCEPT ![c] = Session(new)]
          BY <2>1 DEF ConnInv, TypeOK
    <2>9. [d \in Conns |-> Session(srv'[d])]
              = [[d \in Conns |-> Session(srv[d])] EXCEPT ![c].eff =
                     [k \in Keys |-> Abstract!Compose(@[k], eff[k])]]
          BY <2>6, <2>7, <2>8, SameEffects
    <2> QED BY <1>0, <2>1, <2>4, <2>9, SameStatements DEF Abstract!Execute, eff
  <1>5. Abstract!Execute(c)
        BY <1>1, <1>3, <1>4
  <1> QED BY <1>5 DEF Abstract!Next

(* The answer to an executed statement is one the abstract store may give. *)
LEMMA ToldMap ==
    ASSUME ConnInv, GotSound, NEW c \in Conns, QueryOk(c)
    PROVE  Abstract!Told(c, Stmt(c), StmtRows(Stmt(c), View(c)))
  <1> DEFINE rows == StmtRows(Stmt(c), View(c))
             got  == Merge(pend[c].got, rows)
             p    == [pend[c] EXCEPT !.todo = Tail(@), !.got = got]
  <1>1. pend[c].await = "query" /\ Stmt(c) \in Statement /\ TypeOK
        BY StmtFacts DEF QueryOk, Sent, Resolve, ConnInv
  <1>2. rows \in Rows
        BY <1>1, StmtFacts, StmtTyping
  <1>3. /\ pend[c] \in Pend /\ pend[c].todo \in Seq(Statement) /\ pend[c].todo # << >>
        /\ pend[c].got \in Rows
        BY <1>1 DEF TypeOK, Pend, ConnInv, PendLive
  <1>4. Len(pend[c].todo) \in Nat /\ Len(pend[c].todo) # 0
        BY <1>3
  <1>5. /\ Asked(pend[c]).todo = pend[c].todo
        /\ Asked(pend[c]).strict = pend[c].condition
        BY DEF Asked
  <1>6. \/ StmtStatus(c, rows) # "ok" /\ Return(c, StmtStatus(c, rows), NoRows)
        \/ StmtStatus(c, rows) = "ok" /\ Len(pend[c].todo) = 1 /\ Return(c, "ok", got)
        \/ /\ Len(pend[c].todo) # 1 /\ reply' = reply
           /\ pend' = [pend EXCEPT ![c] = p]
        BY DEF QueryOk
  <1>7. CASE StmtStatus(c, rows) # "ok" /\ Return(c, StmtStatus(c, rows), NoRows)
    <2>1. \/ pend[c].condition /\ rows = NoRows /\ Return(c, "condition_failed", NoRows)
          \/ rows # NoRows /\ Stmt(c).decode # "ok" /\ Return(c, Stmt(c).decode, NoRows)
          BY <1>7 DEF StmtStatus
    <2>2. CASE pend[c].condition /\ rows = NoRows /\ Return(c, "condition_failed", NoRows)
      <3>1. Abstract!Answered(c, {"condition_failed"})
            BY <1>1, <2>2, AnsweredMap
      <3> QED BY <1>5, <2>2, <3>1, SameEffects DEF Abstract!Told
    <2>3. CASE rows # NoRows /\ Stmt(c).decode # "ok" /\ Return(c, Stmt(c).decode, NoRows)
      <3>1. Abstract!Answered(c, {Stmt(c).decode} \ {"ok"})
            BY <1>1, <2>3, AnsweredMap
      <3> QED BY <1>5, <2>3, <3>1, SameEffects DEF Abstract!Told
    <2> QED BY <2>1, <2>2, <2>3
  <1>8. CASE StmtStatus(c, rows) = "ok" /\ Len(pend[c].todo) = 1 /\ Return(c, "ok", got)
    <2>1. ~(pend[c].condition /\ rows = NoRows) /\ (rows # NoRows => Stmt(c).decode = "ok")
          BY <1>8 DEF StmtStatus
    <2>2. [d \in Conns |-> Asked(pend'[d])]
              = [[d \in Conns |-> Asked(pend[d])] EXCEPT ![c] = Abstract!NoRequest]
      <3>1. Asked(Idle) = Abstract!NoRequest
            BY DEF Asked, Idle, Abstract!NoRequest
      <3> QED BY <1>1, <1>8, <3>1 DEF Return, TypeOK
    <2>3. reply'[c] = [status |-> "ok", rows |-> got]
          /\ reply' = [reply EXCEPT ![c] = [status |-> "ok", rows |-> got]]
          BY <1>1, <1>8 DEF Return, TypeOK
    <2>4. ASSUME NEW k \in Keys, rows[k] # NoRow \/ Stmt(c).verb # "CREATE"
          PROVE  got[k] = rows[k]
      <3>1. CASE rows[k] # NoRow
            BY <3>1 DEF Merge
      <3>2. CASE rows[k] = NoRow /\ Stmt(c).verb # "CREATE"
        <4>1. ~OnlyCreates(pend[c].todo)
              BY <1>3, <3>2, TailCreates DEF Stmt
        <4>2. pend[c].got[k] = NoRow
              BY <1>1, <4>1 DEF GotSound, NoRows
        <4> QED BY <3>2, <4>2 DEF Merge
      <3> QED BY <2>4, <3>1, <3>2
    <2>5. reply'[c].rows = got
          BY <2>3
    <2> HIDE DEF got, rows
    <2>6. \A k \in Keys : (rows[k] # NoRow \/ Stmt(c).verb # "CREATE") => reply'[c].rows[k] = rows[k]
          BY <2>4, <2>5
    <2>7. reply' = [reply EXCEPT ![c] = [status |-> "ok", rows |-> reply'[c].rows]]
          BY <2>3, <2>5
    <2>8. Abstract!Told(c, Stmt(c), rows)
          BY <1>5, <1>8, <2>1, <2>2, <2>6, <2>7, SameEffects DEF Abstract!Told
    <2> QED BY <2>8 DEF rows
  <1>9. CASE Len(pend[c].todo) # 1 /\ reply' = reply /\ pend' = [pend EXCEPT ![c] = p]
    <2>1. Len(pend[c].todo) > 1
      <3>1. \A n \in Nat : n # 0 /\ n # 1 => n > 1
            OBVIOUS
      <3> QED BY <1>4, <1>9, <3>1, Zenon
    <2> HIDE DEF got
    <2>2. Asked(p) = [Asked(pend[c]) EXCEPT !.todo = Tail(@)]
      <3> DEFINE q == Tail(pend[c].todo)
      <3>1. /\ p.await = pend[c].await /\ p.todo = q
            /\ p.condition = pend[c].condition /\ p.ignore = pend[c].ignore
            BY <1>3 DEF Pend
      <3> HIDE DEF p, q
      <3>2. [Asked(pend[c]) EXCEPT !.todo = q]
                = [what |-> pend[c].await, todo |-> q, strict |-> pend[c].condition,
                   ignore |-> pend[c].ignore]
            BY DEF Asked
      <3>3. Asked(p) = [Asked(pend[c]) EXCEPT !.todo = q]
            BY <3>1, <3>2 DEF Asked
      <3> QED BY <1>5, <3>3 DEF q
    <2> HIDE DEF p
    <2>3. [d \in Conns |-> Asked(pend'[d])]
              = [[d \in Conns |-> Asked(pend[d])] EXCEPT ![c].todo = Tail(@)]
          BY <1>1, <1>9, <2>2 DEF TypeOK
    <2> QED BY <1>5, <1>9, <2>1, <2>3 DEF Abstract!Told
  <1> QED BY <1>6, <1>7, <1>8, <1>9

(* Every operation, up to its first await, is an abstract step. *)
LEMMA ExecMap ==
    ASSUME ConnInv, NEW c \in Conns, Exec(c)
    PROVE  Abstract!Next
  <1>0. TypeOK
        BY DEF ConnInv
  <1>1. ASSUME NEW status \in Abstract!Errors \cup {"ok"}, Refuse(c, status)
        PROVE  Abstract!Next
        BY <1>0, <1>1, RefuseMap
  <1>2. {"unsupported_feature", "invalid_statement", "read_only_transaction", "ok"}
            \subseteq Abstract!Errors \cup {"ok"}
        BY DEF Abstract!Errors
  <1>3. ASSUME NEW stmts \in Seq(Statement), NEW condition \in BOOLEAN, NEW ignore \in BOOLEAN,
               Query(c, stmts, condition, ignore)
        PROVE  Abstract!Next
    <2> DEFINE p == [Idle EXCEPT !.await = "query", !.todo = stmts,
                                 !.condition = condition, !.ignore = ignore]
    <2>1. p \in Pend /\ p.await = "query"
          BY IdleTyping DEF Pend, Idle, Waiting
    <2>2. Suspend(c, p)
          BY <1>3 DEF Query
    <2> HIDE DEF p
    <2> QED BY <2>1, <2>2, SuspendMap
  <1>4. ASSUME NEW s \in Statement, NEW condition \in BOOLEAN, NEW ignore \in BOOLEAN,
               Query(c, <<s>>, condition, ignore)
        PROVE  Abstract!Next
    <2>1. <<s>> \in Seq(Statement)
          BY Singleton
    <2> QED BY <1>3, <1>4, <2>1
  <1>5. ASSUME NEW op \in Starts, Start(c, op)
        PROVE  Abstract!Next
    <2> DEFINE p == [Idle EXCEPT !.await = "begin", !.read_only = op.read_only]
    <2>1. p \in Pend /\ p.await = "begin"
          BY IdleTyping, OperationsAssumption DEF Pend, Idle, Waiting, StartOp
    <2>2. CASE ~transaction[c] /\ Suspend(c, p)
      <3>1. pend[c].await = "idle"
            BY <2>2 DEF Suspend, Call
      <3>2. srv[c] = NoTx
            BY <2>2, <3>1 DEF ConnInv, HandleLive
      <3> HIDE DEF p
      <3> QED BY <2>1, <2>2, <3>2, SuspendMap
    <2> QED BY <1>1, <1>2, <1>5, <2>2 DEF Start
  <1>6. ASSUME NEW await \in {"commit", "cancel"}, Take(c, await)
        PROVE  Abstract!Next
    <2> DEFINE p == [Idle EXCEPT !.await = await]
    <2>1. p \in Pend /\ p.await = await
          BY IdleTyping DEF Pend, Idle, Waiting
    <2>2. CASE transaction[c] /\ Suspend(c, p)
      <3>1. srv[c] # NoTx
            BY <2>2 DEF ConnInv, HandleLive
      <3> HIDE DEF p
      <3> QED BY <2>1, <2>2, <3>1, SuspendMap
    <2> QED BY <1>1, <1>2, <1>6, <2>2 DEF Take
  <1>7. CASE WriteRefused(c) \/ Unsupported(c)
        BY <1>1, <1>2, <1>7 DEF WriteRefused, Unsupported
  <1>8. CASE Commit(c) \/ Rollback(c)
        BY <1>6, <1>8 DEF Commit, Rollback
  <1>9. CASE \E rows \in Inserts : Insert(c, rows)
        BY <1>1, <1>2, <1>3, <1>9, RenderTyping DEF Insert
  <1>10. CASE \E op \in Updates : UpdateByKey(c, op)
        BY <1>1, <1>2, <1>4, <1>10, RenderTyping DEF UpdateByKey
  <1>11. CASE \E op \in Deletes : DeleteByKey(c, op)
        BY <1>1, <1>2, <1>4, <1>11, RenderTyping DEF DeleteByKey
  <1>12. CASE \E op \in Upserts : Upsert(c, op)
        BY <1>4, <1>12, RenderTyping DEF Upsert
  <1>13. CASE \E op \in Gets : GetByKey(c, op)
        BY <1>1, <1>2, <1>4, <1>13, RenderTyping DEF GetByKey
  <1>14. CASE \E op \in Queries : QueryPkOrScan(c, op) \/ FindPkByIndex(c, op)
        BY <1>4, <1>14, RenderTyping DEF QueryPkOrScan, FindPkByIndex
  <1> QED BY <1>5, <1>7, <1>8, <1>9, <1>10, <1>11, <1>12, <1>13, <1>14 DEF Exec

(* Every end of an await is an abstract step. *)
LEMMA CompleteMap ==
    ASSUME ConnInv, GotSound, NEW c \in Conns, Complete(c)
    PROVE  Abstract!Next
  <1>0. TypeOK
        BY DEF ConnInv
  <1>1. /\ classify_error(OtherError) = "driver_operation_failed"
        /\ classify_error(CommitConflict) = "serialization_failure"
        /\ classify_error(QueryConflict) = "serialization_failure"
        /\ classify_error(RecordExists) = "condition_failed"
        /\ is_conflict(RecordExists) /\ ~is_conflict(OtherError) /\ ~is_conflict(QueryConflict)
        BY DEF classify_error, is_transaction_conflict, is_conflict,
               OtherError, CommitConflict, QueryConflict, RecordExists
  <1>2. ASSUME NEW statuses, NEW status \in statuses, Return(c, status, NoRows)
        PROVE  Abstract!Answered(c, statuses)
        BY <1>0, <1>2, AnsweredMap
  <1>3. Asked(pend[c]).what = pend[c].await
        BY DEF Asked
  <1>4. CASE BeginOk(c)
    <2>1. Session(BeginTx(store)) = Abstract!Fresh(store)
      <3>1. BeginTx(store) # NoTx
            BY BeginTyping DEF ConnInv, TypeOK
      <3> QED BY <3>1, SameEffects DEF Session, BeginTx, Abstract!Fresh
    <2>2. [d \in Conns |-> Session(srv'[d])]
              = [[d \in Conns |-> Session(srv[d])] EXCEPT ![c] = Abstract!Fresh(store)]
          BY <1>0, <1>4, <2>1 DEF BeginOk, TypeOK
    <2>3. Abstract!Answered(c, {"ok"}) /\ store' = store /\ pend[c].await = "begin"
          BY <1>2, <1>4 DEF BeginOk, Resolve
    <2>4. Abstract!Begin(c)
          BY <1>3, <2>2, <2>3 DEF Abstract!Begin
    <2> QED BY <2>4 DEF Abstract!Next
  <1>5. CASE BeginFails(c)
    <2>1. /\ Abstract!Answered(c, {"driver_operation_failed"}) /\ store' = store
          /\ srv' = srv /\ pend[c].await = "begin"
          BY <1>1, <1>2, <1>5 DEF BeginFails, Resolve, data
    <2>2. Abstract!BeginRefused(c)
          BY <1>3, <2>1 DEF Abstract!BeginRefused
    <2> QED BY <2>2 DEF Abstract!Next
  <1>6. CASE CommitOk(c) \/ CommitAnswerLost(c)
    <2>1. /\ pend[c].await = "commit" /\ ~Conflicts(srv[c]) /\ Publish(c)
          /\ Abstract!Answered(c, {"ok", "driver_operation_failed"})
          BY <1>1, <1>2, <1>6 DEF CommitOk, CommitAnswerLost, Resolve
    <2>2. /\ store' = ApplyAll(Session(srv[c]).eff, store)
          /\ [d \in Conns |-> Session(srv'[d])]
                 = [[d \in Conns |-> Session(srv[d])] EXCEPT ![c] = NoTx]
          BY <2>1, PublishMap
    <2>3. Abstract!Commit(c)
          BY <1>3, <2>1, <2>2, SameStatements DEF Abstract!Commit
    <2> QED BY <2>3 DEF Abstract!Next
  <1>7. CASE CommitConflicts(c) \/ CommitFails(c)
    <2>1. /\ pend[c].await = "commit" /\ Discard(c)
          /\ Abstract!Answered(c, {"serialization_failure", "driver_operation_failed"})
          BY <1>1, <1>2, <1>7 DEF CommitConflicts, CommitFails, Resolve
    <2>2. Abstract!CommitRefused(c)
          BY <1>0, <1>3, <2>1, DiscardMap DEF Abstract!CommitRefused
    <2> QED BY <2>2 DEF Abstract!Next
  <1>8. CASE CancelOk(c) \/ CancelFails(c)
    <2>1. /\ pend[c].await = "cancel" /\ Discard(c)
          /\ Abstract!Answered(c, {"ok", "driver_operation_failed"})
          BY <1>1, <1>2, <1>8 DEF CancelOk, CancelFails, Resolve
    <2>2. Abstract!Rollback(c)
          BY <1>0, <1>3, <2>1, DiscardMap DEF Abstract!Rollback
    <2> QED BY <2>2 DEF Abstract!Next
  <1>9. ASSUME pend[c].await = "query", UNCHANGED <<store, srv>>,
               \/ Stmt(c).build # "ok" /\ Abstract!Answered(c, {Stmt(c).build})
               \/ /\ Refused(Stmt(c), View(c))
                  /\ Abstract!Answered(c, {IF pend[c].ignore THEN "ok" ELSE "condition_failed"})
               \/ Abstract!Answered(c, {"serialization_failure", "driver_operation_failed"})
        PROVE  Abstract!Next
    <2>1. /\ Head(Asked(pend[c]).todo) = Stmt(c) /\ Asked(pend[c]).ignore = pend[c].ignore
          /\ Abstract!View(c) = View(c)
          BY <1>9, ViewMap DEF Asked, Stmt
    <2>2. Abstract!Skip(c)
          BY <1>3, <1>9, <2>1, SameStatements DEF Abstract!Skip
    <2> QED BY <2>2 DEF Abstract!Next
  <1>10. CASE BuildFails(c)
         BY <1>2, <1>9, <1>10 DEF BuildFails, Resolve, data
  <1>11. CASE QueryRefused(c)
    <2>1. Return(c, IF pend[c].ignore THEN "ok" ELSE "condition_failed", NoRows)
          BY <1>1, <1>11 DEF QueryRefused, QueryError
    <2> QED BY <1>2, <1>9, <1>11, <2>1 DEF QueryRefused, Sent, Resolve, data
  <1>12. ASSUME NEW facts \in {OtherError, QueryConflict}, QueryFails(c, facts)
         PROVE  Abstract!Next
    <2>1. Return(c, classify_error(facts), NoRows)
          BY <1>1, <1>12 DEF QueryFails, QueryError
    <2>2. classify_error(facts) \in {"serialization_failure", "driver_operation_failed"}
          BY <1>1
    <2> QED BY <1>2, <1>9, <1>12, <2>1, <2>2 DEF QueryFails, Sent, Resolve, data
  <1>13. CASE QueryOk(c)
         BY <1>13, ToldMap, ExecutedMap DEF QueryOk, Sent, Resolve
  <1>14. CASE QueryAnswerLost(c)
    <2>1. Abstract!Answered(c, {"driver_operation_failed"})
          BY <1>1, <1>2, <1>14 DEF QueryAnswerLost, QueryError
    <2>2. Abstract!Told(c, Stmt(c), StmtRows(Stmt(c), View(c)))
          BY <2>1 DEF Abstract!Told
    <2> QED BY <1>14, <2>2, ExecutedMap DEF QueryAnswerLost, Sent, Resolve
  <1> QED BY <1>4, <1>5, <1>6, <1>7, <1>8, <1>10, <1>11, <1>12, <1>13, <1>14 DEF Complete

(* A replaced connection is an abstract drop of the session. *)
LEMMA ReconnectMap ==
    ASSUME ConnInv, NEW c \in Conns, Reconnect(c)
    PROVE  Abstract!Next
  <1>1. TypeOK /\ pend[c].await = "idle" /\ Discard(c) /\ Return(c, "ok", NoRows)
        BY DEF ConnInv, Reconnect
  <1>2. Abstract!Answered(c, {"ok"})
        BY <1>1, AnsweredMap
  <1>3. Asked(pend[c]).what = pend[c].await
        BY DEF Asked
  <1>4. Abstract!Drop(c)
        BY <1>1, <1>2, <1>3, DiscardMap DEF Abstract!Drop
  <1> QED BY <1>4 DEF Abstract!Next

(* The driver over the SDK implements the transactional store AtomicStore
   describes, for every set of connections, keys and operations: exec,
   exec_transaction and run_query of conn.rs and the handlers of op.        *)
THEOREM Refinement == Spec => ImplementsAtomicStore
  <1>1. Init => Abstract!Init
    <2> SUFFICES ASSUME Init PROVE Abstract!Init
        OBVIOUS
    <2>1. Asked(Idle) = Abstract!NoRequest /\ Session(NoTx) = NoTx
          BY DEF Asked, Idle, Abstract!NoRequest, Session
    <2> QED BY <2>1, SameEffects DEF Init, Abstract!Init
  <1>2. RefInv /\ [Next]_vars => [Abstract!Next]_Abstract!vars
    <2> SUFFICES ASSUME RefInv, [Next]_vars PROVE [Abstract!Next]_Abstract!vars
        OBVIOUS
    <2>1. CASE UNCHANGED vars
          BY <2>1 DEF vars, Abstract!vars
    <2>2. CASE Next
      <3>1. Abstract!Next
            BY <2>2, ExecMap, CompleteMap, ReconnectMap DEF Next, RefInv
      <3> QED BY <3>1
    <2> QED BY <2>1, <2>2
  <1> QED BY <1>1, <1>2, RefInvariance, PTL DEF Spec, ImplementsAtomicStore, Abstract!Spec

-----------------------------------------------------------------------------
(* Clients that repeat their transaction (RetryClient). *)

(* Nothing a client can tell happens to the connections other than c; a commit
   may have made the snapshots of their transactions stale.                 *)
Aside(c) == \A d \in Conns \ {c} :
    /\ pend'[d] = pend[d] /\ reply'[d] = reply[d]
    /\ phase'[d] = phase[d] /\ read_only'[d] = read_only[d]
    /\ srv'[d] = NoTx <=> srv[d] = NoTx
    /\ srv[d] # NoTx => srv'[d].eff = srv[d].eff /\ srv'[d].base = srv[d].base

LEMMA AsideAligned ==
    ASSUME NEW c \in Conns, Aside(c), NEW d \in Conns \ {c}, Aligned(d)
    PROVE  Aligned(d)'
<1>1. /\ pend'[d] = pend[d] /\ reply'[d] = reply[d] /\ phase'[d] = phase[d]
      /\ srv'[d] = NoTx <=> srv[d] = NoTx
      /\ srv[d] # NoTx => srv'[d].eff = srv[d].eff /\ srv'[d].base = srv[d].base
  BY DEF Aside
<1>2. (Untouched(srv[d]) => Untouched(srv'[d])) /\ (Counted(srv[d]) => Counted(srv'[d]))
  BY <1>1 DEF Untouched, Counted
<1>3. \A S : Answered(d, S) => Answered(d, S)'
  BY <1>1 DEF Answered
<1> QED BY <1>1, <1>2, <1>3 DEF Aligned

(* The sets of clients are finite, and no client is in both. *)
LEMMA Finite ==
    /\ IsFiniteSet(Told) /\ IsFiniteSet(Doubt) /\ Told \cap Doubt = {}
    /\ Cardinality(Told) \in Nat /\ Cardinality(Doubt) \in Nat
<1>1. Told \in SUBSET Conns /\ Doubt \in SUBSET Conns
  BY DEF Told, Doubt
<1>2. IsFiniteSet(Told) /\ IsFiniteSet(Doubt)
  BY <1>1, PoolAssumption, FS_Subset
<1>3. Told \cap Doubt = {}
  BY DEF Told, Doubt, Answered
<1> QED BY <1>2, <1>3, FS_CardinalityType

(* Counting client c in, or leaving the counter: what a step has to show. *)
LEMMA Tally ==
    ASSUME RetryInv, NEW c \in Conns, Aside(c), ConnInv', phase' \in [Conns -> Phase],
           ~read_only'[c], ~pend'[c].read_only, Aligned(c)',
           \/ Count' = Count /\ (c \in Told' <=> c \in Told) /\ (c \in Doubt => c \in Doubt')
           \/ Count' = Count + 1 /\ c \notin Told \cup Doubt /\ c \in Told' \cup Doubt'
    PROVE  RetryInv'
<1>1. \A d \in Conns : ~read_only'[d] /\ ~pend'[d].read_only /\ Aligned(d)'
  BY AsideAligned DEF Aside, RetryInv
<1>2. ASSUME NEW d \in Conns \ {c}
      PROVE  (d \in Told' <=> d \in Told) /\ (d \in Doubt' <=> d \in Doubt)
  BY DEF Aside, Told, Doubt, Answered
<1>3. /\ Told \subseteq Conns /\ Told' \subseteq Conns
      /\ Doubt \subseteq Conns /\ Doubt' \subseteq Conns
  BY DEF Told, Doubt
<1>4. /\ Told' = Told \/ Told' = Told \cup {c}
      /\ c \in Doubt => Doubt' \in {Doubt, Doubt \ {c}}
      /\ c \notin Doubt => Doubt' \in {Doubt, Doubt \cup {c}}
  BY <1>2, <1>3
<1>5. /\ IsFiniteSet(Told) /\ IsFiniteSet(Doubt)
      /\ Cardinality(Told) \in Nat /\ Cardinality(Doubt) \in Nat /\ Told' \cap Doubt' = {}
  BY Finite DEF Told, Doubt, Answered
<1>6. Cardinality(Told \cup {c}) = IF c \in Told THEN Cardinality(Told) ELSE Cardinality(Told) + 1
  BY <1>5, FS_AddElement
<1>7. Cardinality(Doubt \cup {c}) = IF c \in Doubt THEN Cardinality(Doubt) ELSE Cardinality(Doubt) + 1
  BY <1>5, FS_AddElement
<1>8. Count \in Cardinality(Told) .. Cardinality(Told) + Cardinality(Doubt)
  BY DEF RetryInv
<1>9. Count' \in Cardinality(Told') .. Cardinality(Told') + Cardinality(Doubt')
  <2>1. CASE Count' = Count /\ (c \in Told' <=> c \in Told) /\ (c \in Doubt => c \in Doubt')
    <3>1. Told' = Told /\ Doubt' \in {Doubt, Doubt \cup {c}}
      BY <1>2, <1>3, <1>4, <2>1
    <3>2. /\ Cardinality(Told') = Cardinality(Told)
          /\ Cardinality(Doubt') \in {Cardinality(Doubt), Cardinality(Doubt) + 1}
      BY <1>7, <3>1
    <3> QED BY <1>5, <1>8, <2>1, <3>2
  <2>2. CASE Count' = Count + 1 /\ c \notin Told \cup Doubt /\ c \in Told' \cup Doubt'
    <3>1. \/ Told' = Told \cup {c} /\ Doubt' = Doubt
          \/ Told' = Told /\ Doubt' = Doubt \cup {c}
      BY <1>2, <1>3, <1>5, <2>2
    <3>2. \/ /\ Cardinality(Told') = Cardinality(Told) + 1
             /\ Cardinality(Doubt') = Cardinality(Doubt)
          \/ /\ Cardinality(Told') = Cardinality(Told)
             /\ Cardinality(Doubt') = Cardinality(Doubt) + 1
      BY <1>6, <1>7, <2>2, <3>1
    <3> QED BY <1>5, <1>8, <2>2, <3>2
  <2> QED BY <2>1, <2>2
<1> QED BY <1>1, <1>9 DEF RetryInv

-----------------------------------------------------------------------------
(* The operations of a client are ones the driver knows. *)
LEMMA Operations ==
    /\ StartTx \in StartOp /\ Increment \in UpsertOp /\ UpsertStmt(Increment) \in Statement
    /\ UpsertStmt(Increment) = [verb |-> "UPSERT", ids |-> {Counter}, eff |-> Add(1), init |-> 1,
                                where |-> {}, build |-> "ok", decode |-> "ok"]
<1>1. StartTx \in StartOp
  BY DEF StartTx, StartOp
<1>2. Add(1) \in Effect
  BY DEF Add, Effect
<1>3. Increment \in UpsertOp
  BY <1>2, CounterAssumption DEF Increment, UpsertOp, Coding
<1>4. UpsertStmt(Increment) = [verb |-> "UPSERT", ids |-> {Counter}, eff |-> Add(1), init |-> 1,
                               where |-> {}, build |-> "ok", decode |-> "ok"]
  BY DEF UpsertStmt, Increment
<1>5. UpsertStmt(Increment) \in Statement
  BY <1>2, <1>4, CounterAssumption DEF Statement, Verb, Coding
<1> QED BY <1>1, <1>3, <1>4, <1>5

(* A call on an idle connection touches neither the rows nor the others. *)
LEMMA CallAside ==
    ASSUME TypeOK, phase \in [Conns -> Phase], NEW c \in Conns, NEW p \in Phase, Call(c),
           Become(c, p), NEW q, pend' = [pend EXCEPT ![c] = q], UNCHANGED reply,
           \A d \in Conns \ {c} : read_only'[d] = read_only[d]
    PROVE  /\ Aside(c) /\ phase' \in [Conns -> Phase] /\ phase'[c] = p
           /\ pend[c].await = "idle" /\ pend'[c] = q
           /\ UNCHANGED <<store, srv, reply>> /\ Count' = Count
<1>1. /\ phase' \in [Conns -> Phase] /\ phase'[c] = p
      /\ \A d \in Conns \ {c} : phase'[d] = phase[d]
  BY DEF Become
<1>2. pend'[c] = q /\ \A d \in Conns \ {c} : pend'[d] = pend[d]
  BY DEF TypeOK
<1>3. UNCHANGED <<store, srv, reply>> /\ pend[c].await = "idle"
  BY DEF Call, data
<1> QED BY <1>1, <1>2, <1>3 DEF Aside, Count

(* A client's next operation. *)
LEMMA SendKeeps ==
    ASSUME RetryInv, NEW c \in Conns, Send(c)
    PROVE  RetryInv'
<1>0. /\ ConnInv /\ TypeOK /\ HandleLive /\ phase \in [Conns -> Phase]
      /\ Aligned(c) /\ ~read_only[c] /\ ~pend[c].read_only
  BY DEF RetryInv, ConnInv
<1>1. CASE phase[c] = "new" /\ Start(c, StartTx) /\ Become(c, "start")
  <2> DEFINE q == [Idle EXCEPT !.await = "begin", !.read_only = FALSE]
  <2>1. srv[c] = NoTx /\ ~transaction[c]
    BY <1>0, <1>1 DEF Aligned, HandleLive
  <2>2. Suspend(c, q) /\ UNCHANGED conn
    BY <1>1, <2>1 DEF Start, StartTx
  <2>3. q.await = "begin" /\ q.read_only = FALSE
    BY DEF Idle
  <2> HIDE DEF q
  <2>4. /\ Aside(c) /\ phase' \in [Conns -> Phase] /\ phase'[c] = "start"
        /\ pend'[c] = q /\ UNCHANGED <<store, srv, reply>> /\ Count' = Count
    BY <1>0, <1>1, <2>2, CallAside DEF Suspend, conn, Phase
  <2>5. ConnInv'
    BY <1>0, <1>1, StartKeeps, Operations
  <2>6. Aligned(c)' /\ ~read_only'[c] /\ ~pend'[c].read_only
    BY <1>0, <2>2, <2>3, <2>4 DEF Aligned, conn
  <2>7. c \notin Told /\ c \notin Told' /\ c \notin Doubt
    BY <1>1, <2>4 DEF Told, Doubt
  <2> QED BY <2>4, <2>5, <2>6, <2>7, Tally
<1>2. CASE Got(c, "start", "ok") /\ Upsert(c, Increment) /\ Become(c, "upsert")
  <2> DEFINE q == [Idle EXCEPT !.await = "query", !.todo = <<UpsertStmt(Increment)>>,
                               !.condition = FALSE, !.ignore = FALSE]
  <2>1. Query(c, <<UpsertStmt(Increment)>>, FALSE, FALSE)
    BY <1>2 DEF Upsert, Increment
  <2>2. Suspend(c, q) /\ UNCHANGED conn
    BY <2>1 DEF Query
  <2>3. /\ q.await = "query" /\ q.read_only = FALSE /\ q.condition = FALSE
        /\ q.todo = <<UpsertStmt(Increment)>>
    BY DEF Idle
  <2> HIDE DEF q
  <2>4. /\ Aside(c) /\ phase' \in [Conns -> Phase] /\ phase'[c] = "upsert"
        /\ pend'[c] = q /\ UNCHANGED <<store, srv, reply>> /\ Count' = Count
    BY <1>0, <1>2, <2>2, CallAside DEF Suspend, conn, Phase
  <2>5. ConnInv'
    <3>1. <<UpsertStmt(Increment)>> \in Seq(Statement) /\ <<UpsertStmt(Increment)>> # << >>
      BY Operations, Singleton
    <3> QED BY <1>0, <2>1, <3>1, QueryKeeps
  <2>6. Untouched(srv[c])
    BY <1>0, <1>2 DEF Aligned, Got, Answered
  <2>7. Aligned(c)' /\ ~read_only'[c] /\ ~pend'[c].read_only
    BY <1>0, <2>2, <2>3, <2>4, <2>6 DEF Aligned, conn
  <2>8. c \notin Told /\ c \notin Told' /\ c \notin Doubt
    BY <1>2, <2>4 DEF Told, Doubt, Got
  <2> QED BY <2>4, <2>5, <2>7, <2>8, Tally
<1>3. ASSUME NEW p \in Phase, NEW await \in {"commit", "cancel"},
             phase[c] = "upsert", srv[c] # NoTx, pend[c].await = "idle",
             Take(c, await), Become(c, p),
             \/ p = "commit" /\ await = "commit" /\ Counted(srv[c])
             \/ p \in {"rollback", "abandon"} /\ await = "cancel"
      PROVE  RetryInv'
  <2> DEFINE q == [Idle EXCEPT !.await = await]
  <2>1. transaction[c]
    BY <1>0, <1>3 DEF HandleLive
  <2>2. Suspend(c, q) /\ read_only' = [read_only EXCEPT ![c] = FALSE]
    BY <1>3, <2>1 DEF Take
  <2>3. q.await = await /\ q.read_only = FALSE
    BY DEF Idle
  <2> HIDE DEF q
  <2>4. /\ Aside(c) /\ phase' \in [Conns -> Phase] /\ phase'[c] = p
        /\ pend'[c] = q /\ UNCHANGED <<store, srv, reply>> /\ Count' = Count
    <3>1. \A d \in Conns \ {c} : read_only'[d] = read_only[d]
      BY <1>0, <2>2 DEF TypeOK
    <3> QED BY <1>0, <1>3, <2>2, <3>1, CallAside DEF Suspend
  <2>5. ConnInv'
    BY <1>0, <1>3, TakeKeeps
  <2>6. Aligned(c)' /\ ~read_only'[c] /\ ~pend'[c].read_only
    BY <1>0, <1>3, <2>2, <2>3, <2>4 DEF Aligned, TypeOK
  <2>7. c \notin Told /\ c \notin Told' /\ c \notin Doubt
    BY <1>3, <2>3, <2>4 DEF Told, Doubt, Answered
  <2> QED BY <2>4, <2>5, <2>6, <2>7, Tally
<1>4. CASE Got(c, "upsert", "ok") /\ Commit(c) /\ Become(c, "commit")
  <2>1. Counted(srv[c])
    BY <1>0, <1>4 DEF Aligned, Got, Answered
  <2> QED BY <1>3, <1>4, <2>1 DEF Got, Commit, Counted, Phase
<1>5. CASE \/ Got(c, "upsert", "serialization_failure") /\ Rollback(c) /\ Become(c, "rollback")
           \/ Got(c, "upsert", "driver_operation_failed") /\ Rollback(c) /\ Become(c, "abandon")
  <2>1. srv[c] # NoTx
    BY <1>0, <1>5 DEF Aligned, Got, Answered
  <2> QED BY <1>3, <1>5, <2>1 DEF Got, Rollback, Phase
<1> QED BY <1>1, <1>2, <1>4, <1>5 DEF Send

(* A client settles on what the answer of its last operation means. *)
LEMMA FinishKeeps ==
    ASSUME RetryInv, NEW c \in Conns, Finish(c)
    PROVE  RetryInv'
<1>0. /\ ConnInv /\ TypeOK /\ phase \in [Conns -> Phase]
      /\ Aligned(c) /\ ~read_only[c] /\ ~pend[c].read_only
  BY DEF RetryInv, ConnInv
<1>1. ASSUME NEW p \in {"new", "done", "gaveup"}, Settle(c, p),
             pend[c].await = "idle", srv[c] = NoTx,
             c \in Told <=> p = "done",
             c \in Doubt => p = "gaveup"
      PROVE  RetryInv'
  <2>1. /\ UNCHANGED <<store, srv, transaction, read_only, pend, reply, calls, faults>>
        /\ phase' = [phase EXCEPT ![c] = p]
    BY <1>1 DEF Settle, Become, vars
  <2>2. phase' \in [Conns -> Phase] /\ phase'[c] = p /\ \A d \in Conns \ {c} : phase'[d] = phase[d]
    BY <1>0, <2>1 DEF Phase
  <2>3. Aside(c) /\ Count' = Count
    BY <2>1, <2>2 DEF Aside, Count
  <2>4. ConnInv'
    BY <1>0, <2>1, StutterKeeps DEF vars
  <2>5. Aligned(c)'
    BY <1>1, <2>1, <2>2 DEF Aligned
  <2>6. (c \in Told' <=> p = "done") /\ (c \in Doubt' <=> p = "gaveup")
    BY <1>1, <2>2 DEF Told, Doubt
  <2> QED BY <1>0, <1>1, <2>1, <2>2, <2>3, <2>4, <2>5, <2>6, Tally
<1>2. CASE Got(c, "commit", "ok") /\ Settle(c, "done")
  <2>1. srv[c] = NoTx /\ c \in Told /\ c \notin Doubt
    BY <1>0, <1>2 DEF Aligned, Got, Answered, Told, Doubt
  <2> QED BY <1>1, <1>2, <2>1 DEF Got
<1>3. CASE Got(c, "commit", "serialization_failure") /\ Settle(c, "new")
  <2>1. srv[c] = NoTx /\ c \notin Told /\ c \notin Doubt
    BY <1>0, <1>3 DEF Aligned, Got, Answered, Told, Doubt
  <2> QED BY <1>1, <1>3, <2>1 DEF Got
<1>4. ASSUME NEW st \in {"ok", "driver_operation_failed"}, NEW p \in {"rollback", "abandon"},
             Got(c, p, st), NEW q \in {"new", "gaveup"}, Settle(c, q)
      PROVE  RetryInv'
  <2>1. srv[c] = NoTx /\ c \notin Told /\ c \notin Doubt
    BY <1>0, <1>4 DEF Aligned, Got, Answered, Told, Doubt
  <2> QED BY <1>1, <1>4, <2>1 DEF Got
<1>5. ASSUME NEW p \in {"start", "commit"},
             Got(c, p, "driver_operation_failed"), Settle(c, "gaveup")
      PROVE  RetryInv'
  <2>1. srv[c] = NoTx /\ c \notin Told
    BY <1>0, <1>5 DEF Aligned, Got, Answered, Told
  <2> QED BY <1>1, <1>5, <2>1 DEF Got
<1> QED BY <1>2, <1>3, <1>4, <1>5 DEF Finish

-----------------------------------------------------------------------------
(* A call that returns leaves the others alone, where the rows it has committed
   are marked stale or nothing is. *)
LEMMA ReturnAside ==
    ASSUME RetryInv, NEW c \in Conns, NEW status \in Status, NEW rows, Return(c, status, rows),
           UNCHANGED <<phase, read_only>>,
           \A d \in Conns \ {c} :
              srv'[d] = srv[d] \/ \E xs \in SUBSET Keys : srv'[d] = MarkStale(srv[d], xs)
    PROVE  /\ Aside(c) /\ phase' \in [Conns -> Phase]
           /\ pend'[c].await = "idle" /\ ~pend'[c].read_only
           /\ reply'[c].status = status /\ phase'[c] = phase[c]
<1>1. /\ pend'[c] = Idle /\ reply'[c].status = status
      /\ \A d \in Conns \ {c} : pend'[d] = pend[d] /\ reply'[d] = reply[d]
  BY DEF RetryInv, ConnInv, TypeOK, Return
<1>2. ASSUME NEW d \in Conns \ {c}
      PROVE  /\ srv'[d] = NoTx <=> srv[d] = NoTx
             /\ srv[d] # NoTx => srv'[d].eff = srv[d].eff /\ srv'[d].base = srv[d].base
  <2>1. srv[d] \in ServerTx \cup {NoTx}
    BY DEF RetryInv, ConnInv, TypeOK
  <2> QED BY <2>1, MarkStaleEffect
<1> QED BY <1>1, <1>2 DEF Aside, RetryInv, Idle

(* Answers that change nothing of what is counted. *)
LEMMA AnswerKeeps ==
    ASSUME RetryInv, NEW c \in Conns, NEW status \in Status, NEW rows, Return(c, status, rows),
           UNCHANGED <<store, phase, read_only>>, ConnInv',
           \A d \in Conns \ {c} :
              srv'[d] = srv[d] \/ \E xs \in SUBSET Keys : srv'[d] = MarkStale(srv[d], xs),
           pend[c].await # "idle",
           \/ phase[c] = "start" /\ status = "ok" /\ Untouched(srv'[c])
           \/ phase[c] = "start" /\ status = "driver_operation_failed" /\ srv'[c] = NoTx
           \/ phase[c] = "upsert" /\ status = "ok" /\ Counted(srv'[c])
           \/ /\ phase[c] = "upsert" /\ srv'[c] # NoTx
              /\ status \in {"serialization_failure", "driver_operation_failed"}
           \/ /\ phase[c] = "commit" /\ srv'[c] = NoTx
              /\ status \in {"serialization_failure", "driver_operation_failed"}
           \/ /\ phase[c] \in {"rollback", "abandon"} /\ srv'[c] = NoTx
              /\ status \in {"ok", "driver_operation_failed"}
    PROVE  RetryInv'
<1>1. /\ Aside(c) /\ phase' \in [Conns -> Phase]
      /\ pend'[c].await = "idle" /\ ~pend'[c].read_only
      /\ reply'[c].status = status /\ phase'[c] = phase[c]
  BY ReturnAside
<1>2. \A S : status \in S => Answered(c, S)'
  BY <1>1 DEF Answered
<1>3. Aligned(c)'
  BY <1>1, <1>2 DEF Aligned
<1>4. c \notin Told /\ c \notin Told' /\ c \notin Doubt
  BY <1>1 DEF Told, Doubt, Answered
<1>5. Count' = Count /\ ~read_only'[c]
  BY DEF Count, RetryInv
<1> QED BY <1>1, <1>3, <1>4, <1>5, Tally

(* The counter moves by one when an increment of its current value is published:
   no conflict means the snapshot is current where it was written.          *)
LEMMA PublishCounts ==
    ASSUME RetryInv, NEW c \in Conns, pend[c].await = "commit", Counted(srv[c]),
           ~Conflicts(srv[c]), Publish(c)
    PROVE  Count' = Count + 1
<1> DEFINE t == srv[c]
<1>1. t \in ServerTx /\ t # NoTx /\ store \in Rows
  BY DEF RetryInv, ConnInv, TypeOK, Counted
<1>2. t.base[Counter] \in Row /\ t.eff \in [Keys -> Effect]
  BY <1>1, CounterAssumption DEF ServerTx, Rows
<1>3. t.eff[Counter] = IF t.base[Counter] = NoRow THEN Put(1) ELSE Add(1)
  BY CounterAssumption DEF Counted
<1>4. Counter \in Written(t.eff)
  BY <1>3, CounterAssumption DEF Written, Put, Add
<1>5. t.base[Counter] = store[Counter]
  <2>1. Counter \notin t.stale
    BY <1>4 DEF Conflicts
  <2> QED BY <1>1, <2>1, CounterAssumption DEF RetryInv, ConnInv, SnapshotFresh
<1>6. store'[Counter] = ApplyEffect(t.eff[Counter], t.base[Counter])
  BY <1>4, CounterAssumption DEF Publish, CommitRows, TxView, ApplyAll
<1>7. store'[Counter] = IF store[Counter] = NoRow THEN 1 ELSE store[Counter] + 1
  BY <1>3, <1>5, <1>6 DEF ApplyEffect, Put, Add
<1>8. store[Counter] \in Int \cup {NoRow}
  BY <1>2, <1>5 DEF Row
<1> QED BY <1>7, <1>8, NoRowAssumption DEF Count

(* The statement of a client increments the counter of its snapshot. *)
LEMMA UpsertCounts ==
    ASSUME NEW t \in ServerTx, t # NoTx, Untouched(t)
    PROVE  LET s == UpsertStmt(Increment)
           IN  /\ ~Refused(s, TxView(t))
               /\ Counted(TxWrite(t, StmtEffect(s, TxView(t))))
<1> DEFINE s == UpsertStmt(Increment)
           e == StmtEffect(s, TxView(t))
           w == TxWrite(t, e)
<1>1. s = [verb |-> "UPSERT", ids |-> {Counter}, eff |-> Add(1), init |-> 1,
           where |-> {}, build |-> "ok", decode |-> "ok"]
  BY Operations
<1>2. t.base \in Rows /\ t.eff = [k \in Keys |-> Keep]
  BY DEF ServerTx, Untouched
<1>3. TxView(t) = t.base
  <2>1. t.eff \in [Keys -> Effect] /\ \A k \in Keys : t.eff[k] = Keep
    BY <1>2 DEF Keep, Effect
  <2>2. \A k \in Keys : TxView(t)[k] = t.base[k]
    BY <1>2, <2>1, KeepsRow DEF TxView
  <2> QED BY <1>2, <2>2 DEF TxView, ApplyAll, Rows
<1>4. e = [k \in Keys |-> IF k # Counter THEN Keep
                          ELSE IF t.base[k] = NoRow THEN Put(1) ELSE Add(1)]
  BY <1>1, <1>3, CounterAssumption DEF StmtEffect, Hits
<1>5. w.base = t.base /\ w.eff = [k \in Keys |-> Compose(Keep, e[k])]
  BY <1>2 DEF TxWrite, ServerTx
<1>6. \A k \in Keys : Compose(Keep, e[k]) = e[k]
  <2>1. Compose(Keep, Keep) = Keep /\ Compose(Keep, Put(1)) = Put(1) /\ Compose(Keep, Add(1)) = Add(1)
    BY DEF Compose, Keep, Put, Add
  <2>2. \A k \in Keys : e[k] \in {Keep, Put(1), Add(1)}
    BY <1>4
  <2> HIDE DEF e
  <2> QED BY <2>1, <2>2
<1>7. w \in ServerTx
  <2>1. e \in [Keys -> Effect]
    BY <1>4 DEF Effect, Keep, Put, Add
  <2> QED BY <2>1, TxTyping
<1>8. w.eff = e
  BY <1>4, <1>5, <1>6
<1>9. Counted(w)
  BY <1>4, <1>5, <1>7, <1>8, NoTxAssumption DEF Counted
<1> QED BY <1>1, <1>9 DEF Refused

(* The outcomes of what a client awaits. *)
LEMMA DatabaseKeeps ==
    ASSUME RetryInv, NEW c \in Conns, Complete(c), UNCHANGED phase
    PROVE  RetryInv'
<1>0. /\ ConnInv /\ TypeOK /\ HandleLive /\ phase \in [Conns -> Phase]
      /\ Aligned(c) /\ ~read_only[c] /\ ~pend[c].read_only
      /\ read_only \in [Conns -> BOOLEAN] /\ srv \in [Conns -> ServerTx \cup {NoTx}]
  BY DEF RetryInv, ConnInv, TypeOK
<1>1. ConnInv'
  BY <1>0, CompleteKeeps
<1>2. /\ pend[c].await = "begin" => phase[c] = "start"
      /\ pend[c].await = "query" => /\ phase[c] = "upsert" /\ Untouched(srv[c])
                                    /\ pend[c].todo = <<UpsertStmt(Increment)>> /\ ~pend[c].condition
      /\ pend[c].await = "commit" => phase[c] = "commit" /\ Counted(srv[c])
      /\ pend[c].await = "cancel" => phase[c] \in {"rollback", "abandon"}
  BY <1>0 DEF Aligned, Answered, Phase
<1>3. /\ {"ok", "serialization_failure", "driver_operation_failed"} \subseteq Status
      /\ classify_error(OtherError) = "driver_operation_failed"
      /\ classify_error(QueryConflict) = "serialization_failure"
      /\ classify_error(CommitConflict) = "serialization_failure"
      /\ ~is_conflict(OtherError) /\ ~is_conflict(QueryConflict)
  BY DEF Status, Coding, classify_error, is_transaction_conflict, is_conflict,
         OtherError, QueryConflict, CommitConflict
<1>4. CASE BeginOk(c)
  <2>1. /\ pend[c].await = "begin" /\ Return(c, "ok", NoRows) /\ UNCHANGED store
        /\ srv' = [srv EXCEPT ![c] = BeginTx(store)]
        /\ read_only' = [read_only EXCEPT ![c] = FALSE]
    BY <1>0, <1>4 DEF BeginOk, Resolve, TypeOK, Pend
  <2>2. read_only' = read_only
    BY <1>0, <2>1
  <2>3. srv'[c] = BeginTx(store) /\ \A d \in Conns \ {c} : srv'[d] = srv[d]
    BY <1>0, <2>1
  <2>4. Untouched(srv'[c])
    BY <1>0, <2>3, BeginTyping DEF Untouched, BeginTx, TypeOK
  <2> QED BY <1>1, <1>2, <1>3, <2>1, <2>2, <2>3, <2>4, AnswerKeeps
<1>5. CASE BeginFails(c)
  <2>1. /\ pend[c].await = "begin" /\ Return(c, "driver_operation_failed", NoRows)
        /\ UNCHANGED <<store, srv, read_only>>
    BY <1>3, <1>5 DEF BeginFails, Resolve, data, conn
  <2>2. srv[c] = NoTx
    BY <1>0, <2>1 DEF ConnInv, PendLive
  <2> QED BY <1>1, <1>2, <1>3, <2>1, <2>2, AnswerKeeps
(* A commit or cancel that publishes nothing. *)
<1>6. ASSUME NEW status \in Status, pend[c].await \in {"commit", "cancel"}, Discard(c),
             Return(c, status, NoRows), UNCHANGED read_only,
             \/ status = "driver_operation_failed"
             \/ status = "serialization_failure" /\ pend[c].await = "commit"
             \/ status = "ok" /\ pend[c].await = "cancel"
      PROVE  RetryInv'
  <2>1. UNCHANGED store /\ srv'[c] = NoTx /\ \A d \in Conns \ {c} : srv'[d] = srv[d]
    BY <1>0, <1>6 DEF Discard
  <2> QED BY <1>1, <1>2, <1>6, <2>1, AnswerKeeps
<1>7. CASE CommitConflicts(c) \/ CommitFails(c) \/ CancelOk(c) \/ CancelFails(c)
  BY <1>3, <1>6, <1>7 DEF CommitConflicts, CommitFails, CancelOk, CancelFails, Resolve, conn
(* A commit that publishes, whether or not it is answered. *)
<1>8. ASSUME NEW status \in {"ok", "driver_operation_failed"}, pend[c].await = "commit",
             ~Conflicts(srv[c]), Publish(c), Return(c, status, NoRows), UNCHANGED read_only
      PROVE  RetryInv'
  <2>1. Count' = Count + 1
    BY <1>2, <1>8, PublishCounts
  <2>2. /\ srv'[c] = NoTx /\ Written(srv[c].eff) \in SUBSET Keys
        /\ \A d \in Conns \ {c} : srv'[d] = MarkStale(srv[d], Written(srv[c].eff))
    BY <1>8 DEF Publish, Written
  <2>3. /\ Aside(c) /\ phase' \in [Conns -> Phase]
        /\ pend'[c].await = "idle" /\ ~pend'[c].read_only
        /\ reply'[c].status = status /\ phase'[c] = "commit"
    BY <1>2, <1>3, <1>8, <2>2, ReturnAside
  <2>4. Aligned(c)' /\ ~read_only'[c]
    BY <1>0, <1>8, <2>2, <2>3 DEF Aligned, Answered
  <2>5. c \notin Told \cup Doubt /\ c \in Told' \cup Doubt'
    BY <1>2, <1>8, <2>3 DEF Told, Doubt, Answered
  <2> QED BY <1>1, <2>1, <2>3, <2>4, <2>5, Tally
<1>9. CASE CommitOk(c) \/ CommitAnswerLost(c)
  BY <1>3, <1>8, <1>9 DEF CommitOk, CommitAnswerLost, Resolve, conn
(* The statement in the client's transaction. *)
<1>10. ASSUME pend[c].await = "query"
       PROVE  /\ Stmt(c) = UpsertStmt(Increment) /\ Stmt(c).build = "ok" /\ Stmt(c).decode = "ok"
              /\ transaction[c] /\ srv[c] \in ServerTx /\ srv[c] # NoTx /\ View(c) = TxView(srv[c])
              /\ ~Refused(Stmt(c), View(c))
              /\ Counted(TxWrite(srv[c], StmtEffect(Stmt(c), View(c))))
              /\ \A facts \in {OtherError, QueryConflict} :
                    QueryError(c, facts) => Return(c, classify_error(facts), NoRows)
  <2>1. Stmt(c) = UpsertStmt(Increment)
    BY <1>2, <1>10 DEF Stmt
  <2>2. srv[c] # NoTx /\ srv[c] \in ServerTx /\ transaction[c]
    BY <1>0, <1>2, <1>10 DEF Untouched, HandleLive
  <2>3. View(c) = TxView(srv[c])
    BY <2>2 DEF View
  <2>4. \A facts \in {OtherError, QueryConflict} :
            QueryError(c, facts) => Return(c, classify_error(facts), NoRows)
    BY <1>3 DEF QueryError
  <2> QED BY <1>2, <1>10, <2>1, <2>2, <2>3, <2>4, Operations, UpsertCounts
<1>11. CASE BuildFails(c) \/ QueryRefused(c)
  BY <1>10, <1>11 DEF BuildFails, QueryRefused, Sent, Resolve
<1>12. ASSUME pend[c].await = "query", run_query(c, Stmt(c))
       PROVE  /\ UNCHANGED store /\ Counted(srv'[c]) /\ \A d \in Conns \ {c} : srv'[d] = srv[d]
  BY <1>0, <1>10, <1>12 DEF run_query
<1>13. CASE QueryOk(c)
  <2> DEFINE rows == StmtRows(Stmt(c), View(c))
             got  == Merge(pend[c].got, rows)
  <2>1. pend[c].await = "query" /\ run_query(c, Stmt(c)) /\ UNCHANGED read_only
    BY <1>13 DEF QueryOk, Sent, Resolve, conn
  <2>2. StmtStatus(c, rows) = "ok"
    BY <1>2, <1>10, <2>1 DEF StmtStatus
  <2>3. Len(pend[c].todo) = 1
    BY <1>2, <2>1
  <2>4. Return(c, "ok", got)
    BY <1>13, <2>2, <2>3 DEF QueryOk
  <2> HIDE DEF got
  <2> QED BY <1>1, <1>2, <1>3, <1>12, <2>1, <2>4, AnswerKeeps
(* A statement that fails, or whose answer is lost, leaves the transaction open. *)
<1>14. ASSUME NEW facts \in {OtherError, QueryConflict}, QueryError(c, facts), Sent(c),
              UNCHANGED data \/ run_query(c, Stmt(c))
       PROVE  RetryInv'
  <2>1. pend[c].await = "query" /\ UNCHANGED read_only
    BY <1>14 DEF Sent, Resolve, conn
  <2>2. Return(c, classify_error(facts), NoRows)
    BY <1>10, <1>14, <2>1
  <2>3. classify_error(facts) \in {"serialization_failure", "driver_operation_failed"}
    BY <1>3, <1>14
  <2>4. UNCHANGED store /\ srv'[c] # NoTx /\ \A d \in Conns \ {c} : srv'[d] = srv[d]
    BY <1>10, <1>12, <1>14, <2>1 DEF Counted, data
  <2> QED BY <1>1, <1>2, <1>3, <2>1, <2>2, <2>3, <2>4, AnswerKeeps
<1>15. CASE QueryAnswerLost(c)
  BY <1>14, <1>15 DEF QueryAnswerLost
<1>16. CASE \E facts \in {OtherError, QueryConflict} : QueryFails(c, facts)
  BY <1>14, <1>16 DEF QueryFails
<1> QED BY <1>4, <1>5, <1>7, <1>9, <1>11, <1>13, <1>15, <1>16 DEF Complete

-----------------------------------------------------------------------------
(* Nobody has counted yet. *)
LEMMA RetryStart == RInit => RetryInv
<1> SUFFICES ASSUME RInit PROVE RetryInv
  OBVIOUS
<1>1. ConnInv /\ phase \in [Conns -> Phase]
  BY InitInv DEF RInit, Phase
<1>2. \A c \in Conns : ~read_only[c] /\ ~pend[c].read_only /\ Aligned(c)
  BY DEF RInit, Init, Idle, Aligned
<1>3. Told = {} /\ Doubt = {}
  BY DEF RInit, Told, Doubt
<1>4. Cardinality(Told) = 0 /\ Cardinality(Doubt) = 0
  BY <1>3, FS_EmptySet
<1>5. Count = 0
  BY CounterAssumption DEF RInit, Init, NoRows, Count
<1> QED BY <1>1, <1>2, <1>4, <1>5 DEF RetryInv

(* Every step of a client or of the database, and none at all. *)
LEMMA RetryStep == RetryInv /\ [RNext]_rvars => RetryInv'
<1>1. ASSUME RetryInv, UNCHANGED rvars PROVE RetryInv'
  <2>1. UNCHANGED <<store, srv, transaction, read_only, pend, reply, calls, faults, phase>>
    BY <1>1 DEF rvars, vars
  <2>2. ConnInv'
    BY <1>1, StutterKeeps DEF RetryInv, rvars
  <2>3. Told' = Told /\ Doubt' = Doubt /\ Count' = Count
    BY <2>1 DEF Told, Doubt, Answered, Count
  <2>4. \A c \in Conns : Aligned(c)' <=> Aligned(c)
    BY <2>1 DEF Aligned, Answered
  <2> QED BY <1>1, <2>1, <2>2, <2>3, <2>4 DEF RetryInv
<1> QED BY <1>1, SendKeeps, FinishKeeps, DatabaseKeeps DEF RNext, Client, Database

(* Clients, connections and the counter always agree. *)
THEOREM RetryInvariance == RSpec => []RetryInv
  BY RetryStart, RetryStep, PTL DEF RSpec

(* Repeating whole transactions on a serialization failure, and only then, neither
   loses an increment nor applies one twice, for any number of clients, calls and
   faults (conn.rs:251-303, 354-377).                                        *)
THEOREM CountedOnce == RSpec => []ExactlyOnce
<1>1. ASSUME RetryInv PROVE ExactlyOnce
  <2> DEFINE D == In({"done"})
             U == In({"commit", "gaveup"})
  <2>1. D \subseteq Told /\ Doubt \subseteq U /\ Told \subseteq D \cup U /\ D \cap U = {}
    BY DEF In, Told, Doubt
  <2>2. IsFiniteSet(D) /\ IsFiniteSet(U)
    <3>1. D \in SUBSET Conns /\ U \in SUBSET Conns
      BY DEF In
    <3> QED BY <3>1, PoolAssumption, FS_Subset
  <2> HIDE DEF D, U
  <2>3. IsFiniteSet(D \cup U) /\ Cardinality(D \cup U) = Cardinality(D) + Cardinality(U)
    <3>1. Cardinality(D \cap U) = 0
      BY <2>1, FS_EmptySet
    <3>2. /\ IsFiniteSet(D \cup U)
          /\ Cardinality(D \cup U) = Cardinality(D) + Cardinality(U) - Cardinality(D \cap U)
      BY <2>2, FS_Union
    <3> QED BY <2>2, <3>1, <3>2, FS_CardinalityType
  <2>4. IsFiniteSet(Told \cup Doubt) /\ Cardinality(Told \cup Doubt) = Cardinality(Told) + Cardinality(Doubt)
    <3>1. Cardinality(Told \cap Doubt) = 0
      BY Finite, FS_EmptySet
    <3>2. /\ IsFiniteSet(Told \cup Doubt)
          /\ Cardinality(Told \cup Doubt)
                = Cardinality(Told) + Cardinality(Doubt) - Cardinality(Told \cap Doubt)
      BY Finite, FS_Union
    <3> QED BY <3>1, <3>2, Finite
  <2>5. Cardinality(D) <= Cardinality(Told)
    BY <2>1, Finite, FS_Subset
  <2>6. Cardinality(Told \cup Doubt) <= Cardinality(D \cup U)
    <3>1. Told \cup Doubt \in SUBSET (D \cup U)
      BY <2>1
    <3> QED BY <2>3, <3>1, FS_Subset
  <2>7. Count \in Cardinality(Told) .. Cardinality(Told) + Cardinality(Doubt)
    BY <1>1 DEF RetryInv
  <2>8. Count \in Cardinality(D) .. Cardinality(D) + Cardinality(U)
    <3>1. Cardinality(D) \in Nat /\ Cardinality(U) \in Nat
      BY <2>2, FS_CardinalityType
    <3> QED BY <2>3, <2>4, <2>5, <2>6, <2>7, <3>1, Finite
  <2> QED BY <2>8 DEF ExactlyOnce, Count, D, U
<1> QED BY <1>1, RetryInvariance, PTL
=============================================================================
