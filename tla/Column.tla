-------------------------------- MODULE Column --------------------------------
(***************************************************************************)
(* A column that is no key, in a row that is written by Insert             *)
(* (src/src/op/insert.rs), UpdateByKey (src/src/op/update_by_key.rs),      *)
(* Upsert (src/src/op/upsert.rs) and DeleteByKey: what each assignment     *)
(* makes of the field, and what row_to_record (src/src/op.rs) reads.       *)
(*                                                                         *)
(* Which record a statement hits, and in which transaction, is the subject *)
(* of Connection; here statements take effect one after the other.         *)
(***************************************************************************)
EXTENDS Codec, Sequences

CONSTANTS
    Inputs,    \* Inputs[ty]: the values written to a column of type ty
    Words,     \* the texts among them
    Amounts,   \* what is added or subtracted
    MaxLen,    \* bound: the length of a list
    MaxSum     \* bound: the size of a Decimal

(* The values of each type; one member stands for those of a document, and of
   a JSON object.                                                            *)
Member == "m"
Texts  == {"String"} \X Words
Bools  == {"Bool"} \X BOOLEAN
Ints(t) == {t} \X IntRange(t)
Leaf   == {Null} \cup Bools \cup Texts \cup Ints("U64")
JsonScalar == {Null} \cup Bools \cup Texts \cup ({"Num"} \X (IntRange("I64") \cup IntRange("U64")))
JsonObject == UNION {[S -> JsonScalar] : S \in SUBSET {Member}}
ValuesOf(t) ==
    CASE t \in IntTypes   -> Ints(t)
      [] t = "Bool"       -> Bools
      [] t = "String"     -> Texts
      [] t = "List(U64)"  -> {"List"} \X Seq(Ints("U64"))
      [] t = "Document"   -> {"Object"} \X [{Member} -> Leaf]
      [] t = "Json"       -> {"Json"} \X ({<<"Invalid">>} \cup JsonScalar \cup ({"Object"} \X JsonObject))
ColumnTypes == IntTypes \cup {"Bool", "String", "List(U64)", "Document", "Json"}

ASSUME InputAssumption ==
    /\ DOMAIN Inputs \subseteq ColumnTypes
    /\ \A t \in DOMAIN Inputs : \A v \in Inputs[t] : v = Null \/ v \in ValuesOf(t)
    /\ Amounts \subseteq Int /\ MaxLen \in Nat /\ MaxSum \in Nat

VARIABLES
    ty,       \* Column.ty; "Json" is String with the storage type Json
    exists,   \* the record is there
    field,    \* its field, NONE when it is absent
    op        \* the last operation that took effect

vars == <<ty, exists, field, op>>

Numeric == IntTypes
Encoded(v) == to_surreal_with_storage(v, ty)
Read(x)    == from_surreal_with_storage(x, ty)
IsError(x) == x[1] = "error"

-----------------------------------------------------------------------------
(* SurrealQL: `x + n`, `x ?? d` and array::concat.  An amount is a value of the
   column's type, added or subtracted, and encoded like one: a Decimal above i64::MAX. *)

IsNumber(x) == x[1] \in {"Int", "Decimal"}
Operands    == {n \in Amounts : n \in IntRange(ty) \/ -n \in IntRange(ty)}
Great(n)    == ty = "U64" /\ (n > MaxInt \/ -n > MaxInt)
Sum(x, n)   == LET m == x[2] + n
               IN  IF x[1] = "Decimal" \/ Great(n) THEN <<"Decimal", m>>
                   ELSE IF m \in IntRange("I64") THEN <<"Int", m>> ELSE <<"error", "overflow">>
Plus(x, n)  == IF IsNumber(x) THEN Sum(x, n) ELSE <<"error", "operands">>
Concat(x, y) == IF x[1] = "Array" THEN <<"Array", x[2] \o y[2]>> ELSE <<"error", "operands">>
Or(x, d)    == IF x \in {NONE, NULL} THEN d ELSE x

-----------------------------------------------------------------------------
Init == ty \in DOMAIN Inputs /\ exists = FALSE /\ field = NONE /\ op = <<"none">>

(* A value that cannot be encoded, or an operator that fails, leaves the row. *)
Assign(o, x) ==
    /\ ~IsError(x)
    /\ x[1] = "Array" => Len(x[2]) <= MaxLen
    /\ x[1] = "Decimal" => x[2] \in -MaxSum..MaxSum
    /\ exists' = TRUE /\ field' = x /\ op' = o
    /\ UNCHANGED ty

(* build_row, then CREATE: a null is left out of the content.  A create-or-ignore
   upsert runs the same statement.                                           *)
Insert(v) == ~exists /\ Assign(<<"Insert", v>>, IF v = Null THEN NONE ELSE Encoded(v))

(* Mutant: a null is assigned like any other value. *)
SetEncoded(v) == exists /\ Assign(<<"Set", v>>, Encoded(v))

(* `col = NONE` or `col = $v` *)
Set(v)  == exists /\ Assign(<<"Set", v>>, IF v = Null THEN NONE ELSE Encoded(v))
Add(n)  == exists /\ Assign(<<"Add", n>>, Plus(field, n))
Push(v) == exists /\ Assign(<<"Push", v>>, Concat(field, Encoded(v)))

(* Mutant: the column is not looked at. *)
CreateAlways(v) ==
    Assign(<<"CreateOnly", v>>, IF v = Null THEN field ELSE Encoded(v))

(* A create-only value: `col = col ?? $v`, and nothing for a null. *)
CreateOnly(v) ==
    Assign(<<"CreateOnly", v>>,
           IF v = Null THEN field
           ELSE IF IsError(Encoded(v)) THEN Encoded(v) ELSE Or(field, Encoded(v)))

(* render_shared_mutation: set, `(col ?? d) + $v`, `array::concat(col ?? d, $v)`.
   On a record that is not there the field is NONE.                          *)
SetShared(v) == Assign(<<"SetShared", v>>, IF v = Null THEN NONE ELSE Encoded(v))
AddOr(n, d)  == Assign(<<"AddOr", n, d>>, Plus(Or(field, Encoded(d)), n))
PushOr(v, d) == Assign(<<"PushOr", v, d>>, Concat(Or(field, Encoded(d)), Encoded(v)))

Delete == exists' = FALSE /\ field' = NONE /\ op' = <<"Delete">> /\ UNCHANGED ty

Values == Inputs[ty] \ {Null}

Next ==
    \/ \E v \in Inputs[ty] : Insert(v) \/ Set(v) \/ CreateOnly(v) \/ SetShared(v)
    \/ ty \in Numeric /\ \E n \in Operands : Add(n) \/ \E d \in Values : AddOr(n, d)
    \/ ty = "List(U64)" /\ \E v \in Values : Push(v) \/ \E d \in Values : PushOr(v, d)
    \/ Delete

Spec == Init /\ [][Next]_vars

-----------------------------------------------------------------------------
(* Properties. *)

(* The members of a document that are absent are null again, and a number is of
   the type its member declares (u64): the engine raises it so.              *)
Raised(f) ==
    [m \in {Member} |-> IF m \notin DOMAIN f THEN Null
                        ELSE IF f[m][1] \in {"I64", "F64"} THEN <<"U64", f[m][2]>> ELSE f[m]]

(* What the column holds: the exact number, or else what is read. *)
Held ==
    CASE IsNumber(field) /\ ty \in Numeric -> <<ty, field[2]>>
      [] ty = "Document" /\ field # NONE -> <<"Object", Raised(Read(field)[2])>>
      [] OTHER -> Read(field)

(* Every assignment does to the value a user reads what it does in the abstract:
   no encoding, no default, no absent field and no overflow turns it into
   another assignment (value.rs:47-177, upsert.rs:92-121, 198-224,
   update_by_key.rs:35-75).                                                  *)
Abstract == INSTANCE Register WITH value <- Held
ImplementsRegister == Abstract!Spec

(* A number within the range of its type is read as it is, whatever sums led to
   it, and any other is read as some value of the type (value.rs:327-367).    *)
ReadsExact ==
    IsNumber(field) /\ ty \in Numeric =>
        LET read == Read(field)[2]
        IN  read \in IntRange(ty) /\ (field[2] \in IntRange(ty) => read = field[2])

(* A column is read as null exactly when its field is absent, which is what the
   filter `IS NONE` asks, and `??` takes for nothing (expr.rs:144-160, value.rs:93-99).
   A JSON null is no absent value.                                           *)
NullMeansNone == exists => (Read(field) = Null <=> field = NONE)
=============================================================================
