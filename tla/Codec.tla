-------------------------------- MODULE Codec --------------------------------
(***************************************************************************)
(* Values of the driver and of the database: to_surreal, from_surreal and  *)
(* their variants for native JSON columns (src/src/value.rs), and keys of  *)
(* record ids (src/src/record_id.rs).                                      *)
(*                                                                         *)
(* A value is a tuple of its variant and what it holds.  Integers have the *)
(* two widths that matter: that of the integers of SurrealDB, and one that *)
(* is narrower.  Lists and documents hold scalars, the text of a JSON      *)
(* column is the JSON value it stands for, and of the scalars that are     *)
(* stored as they are (floats, bytes, UUIDs, text) strings stand for all.  *)
(***************************************************************************)
EXTENDS Integers

CONSTANTS
    MaxInt,   \* i64::MAX
    Narrow    \* number of values of an i8 or u8 (i16, u16, i32, u32)

ASSUME WidthAssumption ==
    /\ MaxInt \in Nat
    /\ Narrow \in 2 .. MaxInt + 1 /\ Narrow % 2 = 0

IntRange(ty) == CASE ty = "I8"  -> -(Narrow \div 2) .. (Narrow \div 2) - 1
               [] ty = "U8"  -> 0 .. Narrow - 1
               [] ty = "I64" -> -(MaxInt + 1) .. MaxInt
               [] ty = "U64" -> 0 .. 2 * MaxInt + 1
IntTypes == {"I8", "U8", "I64", "U64"}

-----------------------------------------------------------------------------
(* Toasty: <<"Null">>, <<"Bool", b>>, <<ty, n>> for an integer type, <<"F64", n>>,
   <<"String", s>>, <<"List", s>>, <<"Object", f>>, and the JSON text <<"Json", j>>.
   SurrealDB: <<"NONE">>, <<"NULL">>, <<"Bool", b>>, <<"Int", n>>, <<"Decimal", n>>,
   <<"String", s>>, <<"Array", s>>, <<"Object", f>>.                          *)

Null == <<"Null">>
NONE == <<"NONE">>
NULL == <<"NULL">>
unsupported_feature   == <<"error", "unsupported_feature">>
invalid_statement     == <<"error", "invalid_statement">>
serialization_failure == <<"error", "serialization_failure">>

(* Number::Int holds an i64; what does not fit is a Decimal. *)
Number(n) == IF n <= MaxInt THEN <<"Int", n>> ELSE <<"Decimal", n>>

(* A JSON text that is not known to be one is a string like any other. *)
to_scalar(v) ==
    CASE v = Null           -> NULL
      [] v[1] \in IntTypes  -> Number(v[2])
      [] v[1] \in {"Bool", "String"} -> v
      [] v[1] = "Json"      -> <<"String", v>>

(* A document leaves out the members that are null. *)
to_surreal(v) ==
    CASE v[1] = "List"   -> <<"Array", [i \in DOMAIN v[2] |-> to_scalar(v[2][i])]>>
      [] v[1] = "Object" -> <<"Object", [m \in {x \in DOMAIN v[2] : v[2][x] # Null}
                                             |-> to_scalar(v[2][m])]>>
      [] OTHER -> to_scalar(v)

(* JSON values: <<"Null">>, <<"Bool", b>>, <<"Num", n>>, <<"String", s>>,
   <<"Object", f>>; a text that is none is <<"Invalid">>.                     *)
json_scalar_to_surreal(j) ==
    CASE j[1] = "Null" -> NULL
      [] j[1] = "Num"  -> Number(j[2])
      [] j[1] \in {"Bool", "String"} -> j

json_text_to_surreal(v) ==
    CASE v = Null -> NONE
      [] v[1] = "Json" /\ v[2][1] = "Invalid" -> serialization_failure
      [] v[1] = "Json" /\ v[2][1] = "Object" ->
            <<"Object", [m \in DOMAIN v[2][2] |-> json_scalar_to_surreal(v[2][2][m])]>>
      [] v[1] = "Json" /\ v[2][1] \notin {"Invalid", "Object"} -> json_scalar_to_surreal(v[2])
      [] OTHER -> serialization_failure

(* With the storage type of the column, where one is known. *)
to_surreal_with_storage(v, storage_ty) ==
    IF storage_ty = "Json" THEN json_text_to_surreal(v) ELSE to_surreal(v)

-----------------------------------------------------------------------------
(* Number::to_int: an i64, if it is one. *)
IsInt(x) == x[2] \in IntRange("I64")
to_int(x) == IF IsInt(x) THEN x[2] ELSE 0

(* Number::to_f64: a double is too short for the last bits of what is no i64. *)
to_f64(x) == (x[2] \div 2) * 2

(* `as`: the value of type ty that is n modulo its width. *)
Wrapped(ty, n) ==
    CASE ty = "U8"  -> n % Narrow
      [] ty = "I8"  -> ((n + Narrow \div 2) % Narrow) - Narrow \div 2
      [] ty = "I64" -> n
      [] ty = "U64" -> n % (2 * MaxInt + 2)

(* Mutant: a u64 is read like the other integers. *)
u64_to_int(x) == Wrapped("U64", to_int(x))

(* A Decimal that is no u64 is read as 0. *)
number_to_u64(x) ==
    CASE x[1] = "Int"     -> Wrapped("U64", x[2])
      [] x[1] = "Decimal" -> IF x[2] \in IntRange("U64") THEN x[2] ELSE 0

number_to_stmt(x, ty) ==
    CASE ty = "Bool" -> <<"Bool", to_int(x) # 0>>
      [] ty = "U64"  -> <<ty, number_to_u64(x)>>
      [] ty \in IntTypes \ {"U64"} -> <<ty, Wrapped(ty, to_int(x))>>
      [] ty = "Unknown" -> IF IsInt(x) THEN <<"I64", x[2]>> ELSE <<"F64", to_f64(x)>>
      [] OTHER -> unsupported_feature

from_scalar(x, ty) ==
    CASE x \in {NONE, NULL} -> Null
      [] x[1] = "Bool"      -> x
      [] x[1] \in {"Int", "Decimal"} -> number_to_stmt(x, ty)
      [] x[1] = "String"    -> IF ty \in {"String", "Unknown"} THEN x ELSE unsupported_feature

(* A list names the type of its elements; the members of a document are of no
   known type.                                                               *)
ElementType(ty) == IF ty = "List(U64)" THEN "U64" ELSE "Unknown"
from_surreal(x, ty) ==
    CASE x[1] = "Array"  -> <<"List", [i \in DOMAIN x[2] |-> from_scalar(x[2][i], ElementType(ty))]>>
      [] x[1] = "Object" -> <<"Object", [m \in DOMAIN x[2] |-> from_scalar(x[2][m], "Unknown")]>>
      [] OTHER -> from_scalar(x, ty)

surreal_to_json_scalar(x) ==
    CASE x = NULL -> <<"Null">>
      [] x[1] \in {"Int", "Decimal"}  -> <<"Num", x[2]>>
      [] x[1] \in {"Bool", "String"} -> x

surreal_json_to_text(x) ==
    CASE x = NONE -> Null
      [] x[1] = "Object" ->
            IF \E m \in DOMAIN x[2] : x[2][m] = NONE THEN serialization_failure
            ELSE <<"Json", <<"Object", [m \in DOMAIN x[2] |-> surreal_to_json_scalar(x[2][m])]>>>>
      [] OTHER -> <<"Json", surreal_to_json_scalar(x)>>

from_surreal_with_storage(x, ty) ==
    IF ty = "Json" THEN surreal_json_to_text(x) ELSE from_surreal(x, ty)

-----------------------------------------------------------------------------
(* record_id_key: the key of a table with one key column, or with more; the
   single column comes bare or as a record of one.                            *)
scalar_to_key(v) ==
    CASE v[1] \in IntTypes -> IF v[2] <= MaxInt THEN <<"Int", v[2]>> ELSE unsupported_feature
      [] v[1] = "String"   -> v
      [] OTHER             -> unsupported_feature

(* Mutant: the form of the key decides. *)
record_id_key_as_given(key, arity) ==
    IF key[1] # "Record" THEN scalar_to_key(key)
    ELSE <<"Array", [i \in DOMAIN key[2] |-> to_surreal(key[2][i])]>>

record_id_key(key, arity) ==
    IF key[1] # "Record" THEN scalar_to_key(key)
    ELSE IF arity <= 1   THEN IF key[2] = <<>> THEN invalid_statement ELSE scalar_to_key(key[2][1])
    ELSE <<"Array", [i \in DOMAIN key[2] |-> to_surreal(key[2][i])]>>

(* A key column is projected out of the record id. *)
key_column(rid, arity, k) == IF arity <= 1 THEN rid ELSE rid[2][k]
=============================================================================
