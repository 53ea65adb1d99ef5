------------------------------ MODULE StoreProofs ------------------------------
(***************************************************************************)
(* Lemmas about the operators of SurrealStore, for the proofs about the    *)
(* modules built on it.                                                    *)
(***************************************************************************)
EXTENDS SurrealStore, TLAPS

(* An effect takes a row to a row, and composed effects are effects. *)
LEMMA EffectTyping ==
    ASSUME NEW d \in Effect, NEW e \in Effect, NEW row \in Row
    PROVE  /\ ApplyEffect(e, row) \in Row
           /\ Compose(d, e) \in Effect
    BY NoRowAssumption DEF Effect, Row, ApplyEffect, Compose

(* The composition of two effects does what the two do in turn. *)
LEMMA ComposeApplies ==
    ASSUME NEW d \in Effect, NEW e \in Effect, NEW row \in Row
    PROVE  ApplyEffect(Compose(d, e), row) = ApplyEffect(e, ApplyEffect(d, row))
    BY NoRowAssumption DEF Effect, Row, ApplyEffect, Compose

(* Applying effects row by row gives rows. *)
LEMMA ApplyAllTyping ==
    ASSUME NEW eff \in [Keys -> Effect], NEW rows \in Rows
    PROVE  ApplyAll(eff, rows) \in Rows
    BY EffectTyping DEF ApplyAll, Rows

(* A statement has an effect on every row and returns rows. *)
LEMMA StmtTyping ==
    ASSUME NEW s \in Statement, NEW rows \in Rows
    PROVE  /\ StmtEffect(s, rows) \in [Keys -> Effect]
           /\ StmtRows(s, rows) \in Rows
  <1>1. /\ s.eff \in Effect /\ s.init \in Int
        BY DEF Statement
  <1>2. Put(s.init) \in Effect /\ Keep \in Effect
        BY <1>1 DEF Put, Keep, Effect
  <1>3. StmtEffect(s, rows) \in [Keys -> Effect]
        BY <1>1, <1>2 DEF StmtEffect
  <1>4. ASSUME NEW k \in Keys
        PROVE  StmtRows(s, rows)[k] \in Row
    <2>1. rows[k] \in Row
          BY DEF Rows
    <2>2. /\ ApplyEffect(StmtEffect(s, rows)[k], rows[k]) \in Row
          /\ ApplyEffect(s.eff, rows[k]) \in Row
          BY <1>1, <1>3, <2>1, EffectTyping
    <2>3. NoRow \in Row /\ 0 \in Row
          BY DEF Row
    <2> QED BY <2>1, <2>2, <2>3 DEF StmtRows
  <1> QED BY <1>3, <1>4 DEF StmtRows, Rows

(* Writing in, marking and committing a transaction stay well-typed. *)
LEMMA TxTyping ==
    ASSUME NEW t \in ServerTx
    PROVE  /\ TxView(t) \in Rows
           /\ \A eff \in [Keys -> Effect] : TxWrite(t, eff) \in ServerTx
           /\ \A rows \in Rows : CommitRows(t, rows) \in Rows
           /\ \A ids \in SUBSET Keys : [t EXCEPT !.stale = @ \cup ids] \in ServerTx
  <1>1. /\ t.base \in Rows /\ t.eff \in [Keys -> Effect] /\ t.stale \subseteq Keys
        BY DEF ServerTx
  <1>2. TxView(t) \in Rows
        BY <1>1, ApplyAllTyping DEF TxView
  <1>3. ASSUME NEW eff \in [Keys -> Effect]
        PROVE  TxWrite(t, eff) \in ServerTx
    <2>1. NoRow \in Row
          BY DEF Row
    <2>2. [k \in Keys |-> Compose(t.eff[k], eff[k])] \in [Keys -> Effect]
          BY <1>1, <2>1, EffectTyping
    <2> QED BY <1>1, <2>2 DEF TxWrite, ServerTx
  <1>4. ASSUME NEW rows \in Rows
        PROVE  CommitRows(t, rows) \in Rows
        BY <1>2 DEF CommitRows, Rows
  <1>5. \A ids \in SUBSET Keys : [t EXCEPT !.stale = @ \cup ids] \in ServerTx
        BY <1>1 DEF ServerTx
  <1> QED BY <1>2, <1>3, <1>4, <1>5

(* A transaction that has just begun has its snapshot and no write. *)
LEMMA BeginTyping ==
    ASSUME NEW rows \in Rows
    PROVE  /\ BeginTx(rows) \in ServerTx /\ BeginTx(rows) # NoTx
           /\ BeginTx(rows).base = rows /\ Written(BeginTx(rows).eff) = {}
  <1>1. [k \in Keys |-> Keep] \in [Keys -> Effect]
        BY DEF Keep, Effect
  <1>2. BeginTx(rows) \in ServerTx
        BY <1>1 DEF BeginTx, ServerTx
  <1> QED BY <1>2, NoTxAssumption DEF BeginTx, Written, Keep

(* What other sessions notice of a commit: their transactions stay open and
   keep their snapshot and writes, and know the written rows to be stale.   *)
LEMMA MarkStaleEffect ==
    ASSUME NEW t \in ServerTx \cup {NoTx}, NEW xs \in SUBSET Keys
    PROVE  /\ MarkStale(t, xs) \in ServerTx \cup {NoTx}
           /\ MarkStale(t, xs) = NoTx <=> t = NoTx
           /\ t # NoTx => /\ MarkStale(t, xs).base = t.base
                          /\ MarkStale(t, xs).eff = t.eff
                          /\ MarkStale(t, xs).stale = t.stale \cup xs
  <1>1. CASE t = NoTx
        BY <1>1 DEF MarkStale
  <1>2. CASE t # NoTx
    <2>1. t \in ServerTx
          BY <1>2
    <2>2. MarkStale(t, xs) = [t EXCEPT !.stale = @ \cup xs]
          BY <1>2 DEF MarkStale
    <2>3. MarkStale(t, xs) \in ServerTx
          BY <2>1, <2>2, TxTyping
    <2>4. /\ MarkStale(t, xs).base = t.base
          /\ MarkStale(t, xs).eff = t.eff
          /\ MarkStale(t, xs).stale = t.stale \cup xs
          BY <2>1, <2>2 DEF ServerTx
    <2> QED BY <1>2, <2>3, <2>4, NoTxAssumption
  <1> QED BY <1>1, <1>2

(* A snapshot that is out of date only on stale rows stays so when some rows
   change and are marked.                                                   *)
LEMMA MarkStaleFresh ==
    ASSUME NEW t \in ServerTx \cup {NoTx}, NEW xs \in SUBSET Keys, NEW rows, NEW after,
           t # NoTx => \A k \in Keys \ t.stale : t.base[k] = rows[k],
           \A k \in Keys \ xs : after[k] = rows[k],
           MarkStale(t, xs) # NoTx
    PROVE  \A k \in Keys \ MarkStale(t, xs).stale : MarkStale(t, xs).base[k] = after[k]
  <1>1. /\ t # NoTx /\ MarkStale(t, xs).base = t.base
        /\ MarkStale(t, xs).stale = t.stale \cup xs
        BY MarkStaleEffect
  <1> QED BY <1>1

(* A statement does nothing to a row it does not name, and the effect of a
   CREATE is to put the row.                                                *)
LEMMA StmtLocal ==
    ASSUME NEW s \in Statement, NEW rows
    PROVE  /\ \A k \in Keys \ s.ids : StmtEffect(s, rows)[k] = Keep
           /\ s.verb = "CREATE" => \A k \in Keys \cap s.ids : StmtEffect(s, rows)[k] = Put(s.init)
  BY DEF StmtEffect, Hits

(* Rows that an effect leaves alone are not written and do not change. *)
LEMMA KeepsRow ==
    ASSUME NEW eff \in [Keys -> Effect], NEW rows \in Rows, NEW k \in Keys, eff[k] = Keep
    PROVE  /\ k \notin Written(eff) /\ ApplyAll(eff, rows)[k] = rows[k]
           /\ \A d \in Effect : Compose(d, eff[k]) = d
  BY DEF Keep, Written, ApplyAll, ApplyEffect, Compose
=============================================================================
