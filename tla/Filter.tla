-------------------------------- MODULE Filter --------------------------------
(***************************************************************************)
(* Filters and conditions (src/src/expr.rs): how an expression over the    *)
(* columns of a table is rendered as a SurrealQL predicate with bound      *)
(* literals, and whether the rows the predicate selects are those that the *)
(* expression means, as their columns are read.                            *)
(*                                                                         *)
(* The tree of an expression is walked by recursive functions, as in the   *)
(* source.  A SurrealQL text is what SurrealDB takes it for: its value, as *)
(* a function of the binds and of the row, and whether it is an operator   *)
(* that has no parentheses of its own.                                     *)
(***************************************************************************)
EXTENDS Codec, Sequences

CONSTANTS
    Type,       \* Type[c]: the type of column c
    KeyCols,    \* the columns of the primary key, in order
    Records,    \* contents of a row: a value for each column
    Exprs,      \* the expressions that filters are made of, with all their parts
    Depth,      \* bound: how deep they are nested
    Height,     \* Height[e]: how deep e is
    PkFilters,  \* QueryPk.pk_filter
    Filters     \* QueryPk.filter

(* stmt::Expr: <<"Column", c>>, <<"Member", c, m>>, <<"Value", v>>,
   <<"Binary", op, l, r>>, <<"And", s>>, <<"Or", s>>, <<"Not", e>>, <<"IsNull", e>>,
   <<"Between", e, low, high>>, <<"InList", e, list>>, <<"AnyOp", op, e, list>>,
   <<"IsSuperset", l, r>>, <<"Intersects", l, r>>, <<"Length", e>> and
   <<"StartsWith", e, prefix>>.                                              *)

(* The operands of an AND or OR that come after the first. *)
Rest(e) == <<e[1], Tail(e[2])>>

Parts(e) ==
    CASE e[1] \in {"And", "Or"} /\ e[2] # <<>> ->
            {Head(e[2])} \cup IF Tail(e[2]) = <<>> THEN {} ELSE {Rest(e)}
      [] e[1] \in {"Not", "IsNull", "Length"} -> {e[2]}
      [] e[1] \in {"Binary", "AnyOp"} -> {e[3], e[4]}
      [] e[1] \in {"InList", "IsSuperset", "Intersects", "StartsWith"} -> {e[2], e[3]}
      [] e[1] = "Between" -> {e[2], e[3], e[4]}
      [] OTHER -> {}

ASSUME KeyAssumption == KeyCols \in Seq(DOMAIN Type) \ {<<>>}
ASSUME ExprAssumption ==
    /\ PkFilters \cup Filters \subseteq Exprs
    /\ Depth \in Nat /\ Height \in [Exprs -> 0..Depth]
    /\ \A e \in Exprs : \A d \in Parts(e) : d \in Exprs /\ Height[d] < Height[e]

VARIABLES
    record,   \* the row that was inserted
    query,    \* the filters last asked for
    answer    \* whether the row was selected: "none", "yes", "no" or "refused"

vars == <<record, query, answer>>

IsKey(c)    == \E k \in DOMAIN KeyCols : KeyCols[k] = c
Position(c) == CHOOSE k \in DOMAIN KeyCols : KeyCols[k] = c

-----------------------------------------------------------------------------
(* The row as it is stored: build_row. *)

Content(rec) == [c \in DOMAIN Type |-> IF IsKey(c) \/ rec[c] = Null THEN NONE
                                       ELSE to_surreal_with_storage(rec[c], Type[c])]
Key(rec) == record_id_key(<<"Record", [k \in DOMAIN KeyCols |-> rec[KeyCols[k]]]>>, Len(KeyCols))
KeyColumn(rec, c) == key_column(Key(rec), Len(KeyCols), Position(c))
Stored(rec, c)    == IF IsKey(c) THEN KeyColumn(rec, c) ELSE Content(rec)[c]

(* Literals, and what can be bound to placeholders: their encodings; the error
   of one that cannot be encoded, or of an expression that cannot be rendered,
   is kept among the binds.                                                  *)
Storages  == {"none"} \cup {Type[c] : c \in DOMAIN Type}
Elements(v) == IF v[1] = "List" THEN {v[2][i] : i \in DOMAIN v[2]} ELSE {v}
Literals  == UNION {Elements(e[2]) : e \in {x \in Exprs : x[1] = "Value"}}
Encodings == {unsupported_feature}
             \cup {to_surreal_with_storage(v, storage) : v \in Literals, storage \in Storages}
Binds     == Seq(Encodings)

-----------------------------------------------------------------------------
(* Operators of SurrealQL on values. *)

IsError(x)  == x[1] = "error"
Refused     == <<"error", "refused">>
Truth(b)    == <<"Bool", b>>
IsNumber(x) == x[1] \in {"Int", "Decimal"}
Same(x, y)  == IF IsNumber(x) /\ IsNumber(y) THEN x[2] = y[2] ELSE x = y
Rank(x)     == CASE x = NONE -> 0 [] x = NULL -> 1 [] x[1] = "Bool" -> 2 [] IsNumber(x) -> 3 [] OTHER -> 4
Less(x, y)  == IF IsNumber(x) /\ IsNumber(y) THEN x[2] < y[2] ELSE Rank(x) < Rank(y)
Has(list, x) == \E i \in DOMAIN list[2] : Same(list[2][i], x)
IsPrefix(p, s) == Len(p) <= Len(s) /\ SubSeq(s, 1, Len(p)) = p

Apply(sym, x, y) ==
    CASE sym = "Eq" -> Truth(Same(x, y))
      [] sym = "Ne" -> Truth(~Same(x, y))
      [] sym = "Lt" -> Truth(Less(x, y))
      [] sym = "Le" -> Truth(Less(x, y) \/ Same(x, y))
      [] sym = "Gt" -> Truth(Less(y, x))
      [] sym = "Ge" -> Truth(Less(y, x) \/ Same(x, y))
      [] sym = "Is" -> Truth(x = y)
      [] sym = "IsNot" -> Truth(x # y)
      [] sym = "In" -> Truth(y[1] = "Array" /\ Has(y, x))
      [] sym = "Contains"    -> Truth(x[1] = "Array" /\ Has(x, y))
      [] sym = "ContainsAll" -> Truth(x[1] = "Array" /\ \A i \in DOMAIN y[2] : Has(x, y[2][i]))
      [] sym = "ContainsAny" -> Truth(x[1] = "Array" /\ \E i \in DOMAIN y[2] : Has(x, y[2][i]))

And(v, w) == IF IsError(v) \/ (v = Truth(TRUE) /\ IsError(w)) THEN Refused
             ELSE Truth(v = Truth(TRUE) /\ w = Truth(TRUE))
Or(v, w)  == IF IsError(v) \/ (v # Truth(TRUE) /\ IsError(w)) THEN Refused
             ELSE Truth(v = Truth(TRUE) \/ w = Truth(TRUE))
Not(v)    == IF IsError(v) THEN Refused ELSE Truth(v # Truth(TRUE))
array_len(v) == IF v[1] # "Array" THEN Refused ELSE <<"Int", Len(v[2])>>
starts_with(v, p) == IF v[1] # "String" \/ p[1] # "String" THEN Refused ELSE Truth(IsPrefix(p[2], v[2]))

(* Texts. *)
Closed(value) == [open |-> FALSE, value |-> value]

Constant(x)   == Closed([b \in Binds |-> [rec \in Records |-> x]])
Param(i)      == Closed([b \in Binds |-> [rec \in Records |-> b[i]]])
Array(k, n)   == Closed([b \in Binds |-> [rec \in Records |-> <<"Array", [i \in 1..n |-> b[k + i]]>>]])
column_ref(c) == Closed([b \in Binds |-> [rec \in Records |-> Stored(rec, c)]])
document_path(c, m) ==
    Closed([b \in Binds |-> [rec \in Records |->
               LET base == Content(rec)[c]
               IN  IF base[1] = "Object" /\ m \in DOMAIN base[2] THEN base[2][m] ELSE NONE]])

(* An operator next to an operand that is an operator without parentheses does
   not mean what the tree says.                                              *)
Infix(sym, x, y) ==
    [open  |-> TRUE,
     value |-> [b \in Binds |-> [rec \in Records |->
                   LET v == x.value[b][rec]
                       w == y.value[b][rec]
                   IN  IF x.open \/ y.open \/ IsError(v) \/ IsError(w) THEN Refused
                       ELSE Apply(sym, v, w)]]]

(* In parentheses of their own, and from left to right. *)
Both(x, y)   == Closed([b \in Binds |-> [rec \in Records |-> And(x.value[b][rec], y.value[b][rec])]])
Either(x, y) == Closed([b \in Binds |-> [rec \in Records |-> Or(x.value[b][rec], y.value[b][rec])]])
Negated(x)   == Closed([b \in Binds |-> [rec \in Records |-> Not(x.value[b][rec])]])
LengthOf(x)  == Closed([b \in Binds |-> [rec \in Records |-> array_len(x.value[b][rec])]])
Starts(x, p) == Closed([b \in Binds |-> [rec \in Records |-> starts_with(x.value[b][rec], p.value[b][rec])]])

-----------------------------------------------------------------------------
Rendered(sql, binds) == [sql |-> sql, binds |-> binds]

(* Mutant: a literal is encoded by its own type. *)
NoStorage(e) == "none"

(* The storage type a column-shaped expression carries. *)
expression_storage_ty(e) == IF e[1] \in {"Column", "Member"} THEN Type[e[2]] ELSE "none"

(* Binds.push: every literal gets the next placeholder. *)
value_to_binds(binds, v, storage) ==
    IF v[1] = "List"
    THEN Rendered(Array(Len(binds), Len(v[2])),
                  binds \o [i \in DOMAIN v[2] |-> to_surreal_with_storage(v[2][i], storage)])
    ELSE Rendered(Param(Len(binds) + 1), Append(binds, to_surreal_with_storage(v, storage)))

(* Both operands, with the storage type of the other where it has one. *)
Operands(r, sym, left, right, binds) ==
    LET x == r[left][expression_storage_ty(right)][binds]
        y == r[right][expression_storage_ty(left)][x.binds]
    IN  Rendered(Infix(sym, x.sql, y.sql), y.binds)

(* render_operands: one after the other; without any, "()" is no condition. *)
Joined(r, e, binds) ==
    LET x == r[Head(e[2])]["none"][binds]
        y == r[Rest(e)]["none"][x.binds]
    IN  CASE e[2] = <<>> -> Rendered(Constant(Refused), binds)
          [] e[2] # <<>> /\ Tail(e[2]) = <<>> -> Rendered(Closed(x.sql.value), x.binds)
          [] e[2] # <<>> /\ Tail(e[2]) # <<>> ->
                Rendered(IF e[1] = "And" THEN Both(x.sql, y.sql) ELSE Either(x.sql, y.sql), y.binds)

Negation(r, e, binds) ==
    LET x == r[e[2]]["none"][binds] IN Rendered(Negated(x.sql), x.binds)

(* A column is a plain reference here. *)
IsNull(r, e, binds) ==
    LET x == CASE e[2][1] = "Column" -> Rendered(column_ref(e[2][2]), binds)
               [] e[2][1] = "Member" -> Rendered(document_path(e[2][2], e[2][3]), binds)
               [] OTHER              -> r[e[2]]["none"][binds]
    IN  Rendered(Infix("Is", x.sql, Constant(NONE)), x.binds)

Between(r, e, binds) ==
    LET target == r[e[2]]["none"][binds]
        low    == r[e[3]][expression_storage_ty(e[2])][target.binds]
        high   == r[e[4]][expression_storage_ty(e[2])][low.binds]
    IN  Rendered(Both(Infix("Ge", target.sql, low.sql), Infix("Le", target.sql, high.sql)), high.binds)

InList(r, e, binds) ==
    LET target == r[e[2]]["none"][binds]
        list   == r[e[3]][expression_storage_ty(e[2])][target.binds]
    IN  Rendered(Infix("In", target.sql, list.sql), list.binds)

AnyOp(r, e, binds) ==
    LET v    == r[e[3]][expression_storage_ty(e[4])][binds]
        list == r[e[4]]["none"][v.binds]
    IN  IF e[2] # "Eq" THEN Rendered(Constant(Refused), Append(binds, unsupported_feature))
        ELSE Rendered(Infix("Contains", list.sql, v.sql), list.binds)

Length(r, e, binds) ==
    LET x == r[e[2]]["none"][binds] IN Rendered(LengthOf(x.sql), x.binds)

(* string::starts_with fails on what is no string. *)
StartsWith(r, e, binds) ==
    LET target == r[e[2]]["none"][binds]
        prefix == r[e[3]][expression_storage_ty(e[2])][target.binds]
    IN  Rendered(Both(Infix("IsNot", target.sql, Constant(NONE)), Starts(target.sql, prefix.sql)),
                 prefix.binds)

(* A bool column by itself is compared with true. *)
Reference(c, binds) ==
    Rendered(IF Type[c] = "Bool" THEN Infix("Eq", column_ref(c), Constant(Truth(TRUE)))
             ELSE column_ref(c), binds)

(* An expression is rendered with the renderings r of its parts. *)
RenderedBy(r, e) == [storage \in Storages |-> [binds \in Binds |->
    CASE e[1] = "Binary"     -> Operands(r, e[2], e[3], e[4], binds)
      [] e[1] \in {"And", "Or"} -> Joined(r, e, binds)
      [] e[1] = "Not"        -> Negation(r, e, binds)
      [] e[1] = "IsNull"     -> IsNull(r, e, binds)
      [] e[1] = "Between"    -> Between(r, e, binds)
      [] e[1] = "InList"     -> InList(r, e, binds)
      [] e[1] = "AnyOp"      -> AnyOp(r, e, binds)
      [] e[1] = "IsSuperset" -> Operands(r, "ContainsAll", e[2], e[3], binds)
      [] e[1] = "Intersects" -> Operands(r, "ContainsAny", e[2], e[3], binds)
      [] e[1] = "Length"     -> Length(r, e, binds)
      [] e[1] = "StartsWith" -> StartsWith(r, e, binds)
      [] e[1] = "Member"     -> Rendered(document_path(e[2], e[3]), binds)
      [] e[1] = "Column"     -> Reference(e[2], binds)
      [] e[1] = "Value"      -> value_to_binds(binds, e[2], storage)]]

render[e \in Exprs] == RenderedBy([d \in Parts(e) |-> render[d]], e)

-----------------------------------------------------------------------------
Init ==
    /\ record \in Records
    /\ query = <<>> /\ answer = "none"

(* A query that could not be rendered is not sent, and one that fails selects nothing. *)
Outcome(binds, holds) ==
    LET failed == \E i \in DOMAIN binds : IsError(binds[i])
    IN  CASE failed \/ holds = Refused -> "refused"
          [] ~failed /\ holds = Truth(TRUE) -> "yes"
          [] OTHER -> "no"

(* WHERE (<pk_filter>) AND (<filter>), over one list of binds. *)
Select(p, f) ==
    LET x == render[p]["none"][<<>>]
        y == render[f]["none"][x.binds]
    IN  /\ answer = "none"
        /\ answer' = Outcome(y.binds, Both(x.sql, y.sql).value[y.binds][record])
        /\ query' = <<p, f>>
        /\ UNCHANGED record

(* The connection keeps nothing of a query: the next one starts afresh. *)
Finish == answer # "none" /\ answer' = "none" /\ query' = <<>> /\ UNCHANGED record

Next == Finish \/ \E p \in PkFilters, f \in Filters : Select(p, f)

Spec == Init /\ [][Next]_vars

-----------------------------------------------------------------------------
(* What an expression means, on the columns as they are read. *)

Column(rec, c) ==
    IF IsKey(c) THEN from_surreal(KeyColumn(rec, c), Type[c])
    ELSE from_surreal_with_storage(Content(rec)[c], Type[c])

Meant(rec, e) ==
    CASE e[1] = "Column" -> Column(rec, e[2])
      [] e[1] = "Member" -> LET d == Column(rec, e[2])
                            IN  IF d = Null \/ e[3] \notin DOMAIN d[2] THEN Null ELSE d[2][e[3]]
      [] e[1] = "Value"  -> e[2]
      [] e[1] = "Length" -> LET l == Column(rec, e[2][2])
                            IN  IF l = Null THEN Null ELSE <<"I64", Len(l[2])>>

IsNum(v) == v[1] \in IntTypes \cup {"F64"}
Equal(v, w) == IF IsNum(v) /\ IsNum(w) THEN v[2] = w[2] ELSE v = w
In(v, list) == \E i \in DOMAIN list[2] : Equal(v, list[2][i])
Compare(op, v, w) ==
    CASE op = "Eq" -> Equal(v, w) [] op = "Ne" -> ~Equal(v, w)
      [] op = "Lt" -> v[2] < w[2] [] op = "Le" -> v[2] <= w[2]
      [] op = "Gt" -> v[2] > w[2] [] op = "Ge" -> v[2] >= w[2]

Holds(rec, e) ==
    LET V(x) == Meant(rec, x)
    IN  CASE e[1] = "Binary"  -> Compare(e[2], V(e[3]), V(e[4]))
          [] e[1] = "IsNull"  -> V(e[2]) = Null
          [] e[1] = "Between" -> V(e[3])[2] <= V(e[2])[2] /\ V(e[2])[2] <= V(e[4])[2]
          [] e[1] = "InList"  -> In(V(e[2]), V(e[3]))
          [] e[1] = "AnyOp"   -> In(V(e[3]), V(e[4]))
          [] e[1] = "IsSuperset" -> \A i \in DOMAIN V(e[3])[2] : In(V(e[3])[2][i], V(e[2]))
          [] e[1] = "Intersects" -> \E i \in DOMAIN V(e[3])[2] : In(V(e[3])[2][i], V(e[2]))
          [] e[1] = "StartsWith" -> V(e[2]) # Null /\ IsPrefix(V(e[3])[2], V(e[2])[2])
          [] e[1] = "Column"  -> V(e) = <<"Bool", TRUE>>

(* What is compared is there: SurrealDB and Toasty each have an order of their own
   for a column that holds nothing.                                          *)
Clear(rec, e) ==
    LET There(x) == Meant(rec, x) # Null
    IN  CASE e[1] \in {"IsNull", "StartsWith"} -> TRUE
          [] e[1] = "Column" -> There(e)
          [] OTHER -> \A d \in Parts(e) : There(d)

(* The rows that satisfy an expression, and those for which that is clear, given
   the rows of its parts.                                                    *)
MeantBy(m, e) ==
    CASE e[1] \in {"And", "Or"} /\ e[2] = <<>> ->
            [rows |-> IF e[1] = "And" THEN Records ELSE {}, clear |-> Records]
      [] e[1] \in {"And", "Or"} /\ e[2] # <<>> /\ Tail(e[2]) = <<>> -> m[Head(e[2])]
      [] e[1] \in {"And", "Or"} /\ e[2] # <<>> /\ Tail(e[2]) # <<>> ->
            [rows  |-> IF e[1] = "And" THEN m[Head(e[2])].rows \cap m[Rest(e)].rows
                       ELSE m[Head(e[2])].rows \cup m[Rest(e)].rows,
             clear |-> m[Head(e[2])].clear \cap m[Rest(e)].clear]
      [] e[1] = "Not" -> [rows |-> Records \ m[e[2]].rows, clear |-> m[e[2]].clear]
      [] OTHER -> [rows  |-> {rec \in Records : Holds(rec, e)},
                   clear |-> {rec \in Records : Clear(rec, e)}]

means[e \in Exprs] == MeantBy([d \in Parts(e) |-> means[d]], e)

(* Properties. *)

(* A row is selected exactly when its columns, as the user reads them, satisfy
   what was asked for: every literal is bound to the place it was written in and
   encoded as the column it is compared with, nothing is regrouped, and a column
   that is absent refuses no query (expr.rs:97-337, query_pk.rs:27-45).      *)
SelectsMeant ==
    (answer # "none" /\ \A i \in DOMAIN query : record \in means[query[i]].clear) =>
        answer = IF \A i \in DOMAIN query : record \in means[query[i]].rows THEN "yes" ELSE "no"
=============================================================================
