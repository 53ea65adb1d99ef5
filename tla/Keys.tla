--------------------------------- MODULE Keys ---------------------------------
(***************************************************************************)
(* Primary keys as record ids: build_row (src/src/op/insert.rs) makes one  *)
(* out of the columns of a row, the operations by key make one out of what *)
(* the engine hands them (src/src/record_id.rs), and row_to_record         *)
(* (src/src/op.rs) reads the columns back out of it.  The column names     *)
(* that an Insert lists come in any order.                                 *)
(***************************************************************************)
EXTENDS Codec, Sequences, FiniteSets

CONSTANTS
    Keyings,    \* primary keys of tables: the types of their columns, in order
    KeyValues   \* KeyValues[ty]: values of a key column of type ty

VARIABLES
    types,    \* the types of the primary key's columns
    rows,     \* the record ids in the table
    known,    \* the keys whose rows were inserted and not deleted since
    asked,    \* the operation and key last answered
    answer    \* "ok", "condition_failed", "unsupported_feature", "none" or a key

vars == <<types, rows, known, asked, answer>>

Arity   == Len(types)
KeysOf(ks) == {k \in [DOMAIN ks -> UNION {KeyValues[ks[i]] : i \in DOMAIN ks}] :
                  \A i \in DOMAIN ks : k[i] \in KeyValues[ks[i]]}
Orders  == {o \in [1..Arity -> 1..Arity] : \A i, j \in 1..Arity : o[i] = o[j] => i = j}

(* Mutant: the values stay in the order in which their columns are listed. *)
pk_unsorted(pairs) ==
    IF Len(pairs) = 1 THEN pairs[1][2]
    ELSE <<"Record", [i \in DOMAIN pairs |-> pairs[i][2]]>>

(* The key columns of a row, each with its position in the primary key, by which
   they are sorted.                                                          *)
pk_to_value(pairs) ==
    LET sorting == CHOOSE o \in Orders : \A i, j \in 1..Arity :
                       i < j => pairs[o[i]][1] <= pairs[o[j]][1]
        values  == [i \in 1..Arity |-> pairs[sorting[i]][2]]
    IN  IF Len(pairs) = 1 THEN values[1] ELSE <<"Record", values>>

(* What the engine hands over: a single key column bare or in a record. *)
Forms(k) == {<<"Record", k>>} \cup (IF Len(k) = 1 THEN {k[1]} ELSE {})

(* project_columns and row_to_record. *)
KeyRead(rid) == [k \in 1..Arity |-> from_surreal(key_column(rid, Arity, k), types[k])]

-----------------------------------------------------------------------------
Init ==
    /\ types \in Keyings
    /\ rows = {} /\ known = {} /\ asked = <<"nothing">> /\ answer = "none"

Answer(op, k, a) == asked' = <<op, k>> /\ answer' = a

Refused(op, k, rid) ==
    /\ rid = unsupported_feature
    /\ Answer(op, k, "unsupported_feature")
    /\ UNCHANGED <<rows, known>>

Insert(k, order) ==
    LET rid == record_id_key(pk_to_value([i \in 1..Arity |-> <<order[i], k[order[i]]>>]), Arity)
    IN  /\ \/ Refused("Insert", k, rid)
           \/ /\ rid # unsupported_feature /\ rid \notin rows
              /\ rows' = rows \cup {rid} /\ known' = known \cup {k}
              /\ Answer("Insert", k, "ok")
           \/ /\ rid # unsupported_feature /\ rid \in rows
              /\ Answer("Insert", k, "condition_failed")
              /\ UNCHANGED <<rows, known>>
        /\ UNCHANGED types

Delete(k, form) ==
    LET rid == record_id_key(form, Arity)
    IN  /\ \/ Refused("Delete", k, rid)
           \/ /\ rid # unsupported_feature
              /\ Answer("Delete", k, IF rid \in rows THEN "ok" ELSE "none")
              /\ rows' = rows \ {rid} /\ known' = known \ {k}
        /\ UNCHANGED types

Get(k, form) ==
    LET rid == record_id_key(form, Arity)
    IN  /\ \/ Refused("Get", k, rid)
           \/ /\ rid # unsupported_feature
              /\ Answer("Get", k, IF rid \in rows THEN "ok" ELSE "none")
              /\ UNCHANGED <<rows, known>>
        /\ UNCHANGED types

Next == \E k \in KeysOf(types) :
    \/ \E order \in Orders : Insert(k, order)
    \/ \E form \in Forms(k) : Delete(k, form) \/ Get(k, form)

Spec == Init /\ [][Next]_vars

-----------------------------------------------------------------------------
(* Properties. *)

(* The rows in the table are those of the keys inserted, one each, and their key
   columns read back as they were written, in the order of the primary key and
   in the width of their types, whatever order and form they came in
   (insert.rs:119-150, record_id.rs:32-53, op.rs:28-42).                      *)
KeysReadBack ==
    /\ {KeyRead(rid) : rid \in rows} = known
    /\ Cardinality(rows) = Cardinality(known)

(* A key is found exactly when its row is there, and can be inserted exactly when
   it is not; the form in which the engine hands it over makes no difference
   (record_id.rs:34-47).                                                      *)
FoundWhenThere ==
    [][answer' # "unsupported_feature" =>
          (answer' = "ok" <=> IF asked'[1] = "Insert" THEN asked'[2] \notin known
                              ELSE asked'[2] \in known)]_vars

(* driver.md:150 has single integer keys of every width, and driver.md:162-163
   says of unsigned integers above i64::MAX, in the section on record ids, that
   they are encoded as a Decimal and no longer refused with unsupported_feature. *)
EveryKeyAccepted == answer # "unsupported_feature"
=============================================================================
