------------------------------- MODULE Register -------------------------------
(***************************************************************************)
(* What a column of a row promises its user (stmt::Assignment and the      *)
(* upserts of toasty_core): it holds the value last assigned, or none      *)
(* (Null), additions are exact, and a create-only assignment of an upsert  *)
(* never replaces a value.  Any operation may be refused: it then changes  *)
(* nothing.  A number that has left the range of the column's type is      *)
(* still the exact one; what a read makes of it is not said here.          *)
(***************************************************************************)
EXTENDS Integers, Sequences

CONSTANTS
    Inputs,    \* Inputs[ty]: the values written to a column of type ty
    Amounts,   \* what is added or subtracted
    Numeric    \* the types with arithmetic

VARIABLES
    ty,       \* the type of the column
    exists,   \* the row is there
    value,    \* what its column holds
    op        \* the last operation that was not refused

vars == <<ty, exists, value, op>>

Null == <<"Null">>

Init == ty \in DOMAIN Inputs /\ exists = FALSE /\ value = Null /\ op = <<"none">>

Does(o, v) == exists' = TRUE /\ value' = v /\ op' = o /\ UNCHANGED ty

(* d stands for a column that holds nothing. *)
Base(d) == IF value = Null THEN d ELSE value
Plus(v, n) == <<v[1], v[2] + n>>
Join(v, w) == <<v[1], v[2] \o w[2]>>

Insert(v)     == ~exists /\ Does(<<"Insert", v>>, v)
Set(v)        == exists /\ Does(<<"Set", v>>, v)
Add(n)        == exists /\ value # Null /\ Does(<<"Add", n>>, Plus(value, n))
Push(v)       == exists /\ value # Null /\ Does(<<"Push", v>>, Join(value, v))
CreateOnly(v) == Does(<<"CreateOnly", v>>, Base(v))
SetShared(v)  == Does(<<"SetShared", v>>, v)
AddOr(n, d)   == Does(<<"AddOr", n, d>>, Plus(Base(d), n))
PushOr(v, d)  == Does(<<"PushOr", v, d>>, Join(Base(d), v))
Delete        == exists' = FALSE /\ value' = Null /\ op' = <<"Delete">> /\ UNCHANGED ty

Values == Inputs[ty] \ {Null}

Next ==
    \/ \E v \in Inputs[ty] : Insert(v) \/ Set(v) \/ CreateOnly(v) \/ SetShared(v)
    \/ ty \in Numeric /\ \E n \in Amounts : Add(n) \/ \E d \in Values : AddOr(n, d)
    \/ ty = "List(U64)" /\ \E v \in Values : Push(v) \/ \E d \in Values : PushOr(v, d)
    \/ Delete

Spec == Init /\ [][Next]_vars
=============================================================================
