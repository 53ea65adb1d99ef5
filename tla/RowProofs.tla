------------------------------ MODULE RowProofs ------------------------------
(***************************************************************************)
(* Integers of every width: what is written to a column is read back, and  *)
(* whatever sums lead to is read as a value of the column's type; a column *)
(* of any type is a register; and keys are read back from record ids.      *)
(***************************************************************************)
EXTENDS Row, FiniteSetTheorems, TLAPS

(* A remainder, for a width of any size. *)
LEMMA Remainder ==
    ASSUME NEW b \in Nat, b > 0, NEW a \in Int
    PROVE  a % b \in 0 .. b - 1 /\ (a \in 0 .. b - 1 => a % b = a)
  OBVIOUS

LEMMA Half ==
    /\ Narrow \div 2 \in Nat /\ Narrow = 2 * (Narrow \div 2)
    /\ Narrow \div 2 >= 1 /\ Narrow \div 2 <= MaxInt
  BY WidthAssumption

(* Every integer type holds integers, and the narrow ones only those of i64. *)
LEMMA Ranges ==
    /\ \A t \in IntTypes : IntRange(t) \subseteq Int
    /\ \A t \in {"I8", "U8", "I64"} : IntRange(t) \subseteq IntRange("I64")
    /\ \A t \in IntTypes : 0 \in IntRange(t)
  BY Half, WidthAssumption DEF IntRange, IntTypes

(* `as` answers a value of the type, and leaves those of the type alone. *)
LEMMA Wrap ==
    ASSUME NEW t \in IntTypes \ {"I64"}, NEW n \in Int
    PROVE  /\ Wrapped(t, n) \in IntRange(t)
           /\ n \in IntRange(t) => Wrapped(t, n) = n
<1>1. CASE t = "U8"
  BY <1>1, Remainder, WidthAssumption DEF IntRange, Wrapped
<1>2. CASE t = "I8"
  <2> DEFINE h == Narrow \div 2
  <2>1. h \in Nat /\ Narrow = 2 * h /\ Narrow > 0
    BY Half, WidthAssumption
  <2> HIDE DEF h
  <2>2. /\ (n + h) % Narrow \in 0 .. Narrow - 1
        /\ n + h \in 0 .. Narrow - 1 => (n + h) % Narrow = n + h
    BY <2>1, Remainder, WidthAssumption
  <2>3. Wrapped(t, n) = ((n + h) % Narrow) - h /\ IntRange(t) = -h .. h - 1
    BY <1>2 DEF Wrapped, IntRange, h
  <2> DEFINE r == (n + h) % Narrow
  <2> HIDE DEF r
  <2>4. /\ r \in 0 .. Narrow - 1
        /\ n + h \in 0 .. Narrow - 1 => r = n + h
        /\ Wrapped(t, n) = r - h
    BY <2>2, <2>3 DEF r
  <2> QED BY <2>1, <2>3, <2>4
<1>3. CASE t = "U64"
  <2>1. 2 * MaxInt + 2 \in Nat /\ 2 * MaxInt + 2 > 0
    BY WidthAssumption
  <2>2. /\ n % (2 * MaxInt + 2) \in 0 .. (2 * MaxInt + 2) - 1
        /\ n \in 0 .. (2 * MaxInt + 2) - 1 => n % (2 * MaxInt + 2) = n
    BY <2>1, Remainder
  <2>3. (2 * MaxInt + 2) - 1 = 2 * MaxInt + 1
    BY WidthAssumption
  <2> QED BY <1>3, <2>2, <2>3 DEF Wrapped, IntRange
<1> QED BY <1>1, <1>2, <1>3 DEF IntTypes

-----------------------------------------------------------------------------
(* An integer of the database. *)
IntValue(x) == \E n \in Int : x \in {<<"Int", n>>, <<"Decimal", n>>}

(* number_to_stmt reads any integer as one of the type, and exactly where it can. *)
LEMMA Reads ==
    ASSUME NEW t \in IntTypes, NEW x, IntValue(x)
    PROVE  LET read == from_surreal_with_storage(x, t)
           IN  /\ read[2] \in IntRange(t)
               /\ x[2] \in IntRange(t) => read = <<t, x[2]>>
<1>1. PICK n \in Int : x \in {<<"Int", n>>, <<"Decimal", n>>}
  BY DEF IntValue
<1>2. x[1] \in {"Int", "Decimal"} /\ x[2] = n
  BY <1>1
<1>3. from_surreal_with_storage(x, t) = number_to_stmt(x, t)
  BY <1>1, <1>2 DEF from_surreal_with_storage, from_surreal, from_scalar, NONE, NULL, IntTypes
<1>4. CASE t = "U64"
  <2>1. number_to_stmt(x, t) = <<t, number_to_u64(x)>>
    BY <1>4 DEF number_to_stmt
  <2>2. CASE x[1] = "Int"
    BY <1>2, <1>3, <1>4, <2>1, <2>2, Wrap DEF number_to_u64, IntTypes
  <2>3. CASE x[1] = "Decimal"
    BY <1>2, <1>3, <1>4, <2>1, <2>3, Ranges DEF number_to_u64, IntTypes
  <2> QED BY <1>2, <2>2, <2>3
<1>5. CASE t # "U64"
  <2>1. number_to_stmt(x, t) = <<t, Wrapped(t, to_int(x))>>
    BY <1>5 DEF number_to_stmt, IntTypes
  <2>2. /\ to_int(x) \in IntRange("I64")
        /\ x[2] \in IntRange(t) => to_int(x) = x[2]
    BY <1>2, <1>5, Ranges DEF to_int, IsInt, IntTypes
  <2>3. to_int(x) \in Int
    BY <2>2, Ranges DEF IntTypes
  <2>4. CASE t = "I64"
    BY <1>3, <2>1, <2>2, <2>4 DEF Wrapped
  <2>5. CASE t # "I64"
    BY <1>3, <2>1, <2>2, <2>3, <2>5, Wrap
  <2> QED BY <2>4, <2>5
<1> QED BY <1>4, <1>5

(* Every integer of every width survives its way to the database and back: one
   above i64::MAX as a Decimal (value.rs:55-70, 334-367).                     *)
THEOREM RoundTrip ==
    \A t \in IntTypes : \A n \in IntRange(t) :
        from_surreal_with_storage(to_surreal_with_storage(<<t, n>>, t), t) = <<t, n>>
<1> SUFFICES ASSUME NEW t \in IntTypes, NEW n \in IntRange(t)
             PROVE  from_surreal_with_storage(to_surreal_with_storage(<<t, n>>, t), t) = <<t, n>>
  OBVIOUS
<1>1. to_surreal_with_storage(<<t, n>>, t) = Number(n)
  BY DEF to_surreal_with_storage, to_surreal, to_scalar, IntTypes, Null
<1>2. n \in Int
  BY Ranges
<1>3. IntValue(Number(n)) /\ Number(n)[2] = n
  BY <1>2 DEF Number, IntValue
<1> QED BY <1>1, <1>3, Reads

-----------------------------------------------------------------------------
(* What is stored in a column of type t.  Of a document and of a JSON value it
   only matters that they are there.                                         *)
Elements == {"Int", "Decimal"} \X IntRange("U64")
FieldOf(t, x) ==
    \/ x = NONE
    \/ /\ t \in IntTypes    => IntValue(x)
       /\ t = "Bool"        => x \in Bools
       /\ t = "String"      => x \in Texts
       /\ t = "List(U64)"   => x \in {"Array"} \X Seq(Elements)
       /\ t = "Document"    => x[1] = "Object"
Enc(t, v) == to_surreal_with_storage(v, t)

LEMMA ElementsInt ==
    \A x \in Elements : \E n \in IntRange("U64") : x \in {<<"Int", n>>, <<"Decimal", n>>}
  BY DEF Elements

LEMMA Stores ==
    ASSUME NEW t \in DOMAIN Inputs, NEW v \in Inputs[t], v # Null, ~IsError(Enc(t, v))
    PROVE  FieldOf(t, Enc(t, v)) /\ Enc(t, v) # NONE
<1>1. t \in ColumnTypes /\ v \in ValuesOf(t)
  BY InputAssumption
<1>2. CASE t \in IntTypes
  <2>1. PICK n \in IntRange(t) : v = <<t, n>>
    BY <1>1, <1>2 DEF ValuesOf, Ints, IntTypes
  <2>2. Enc(t, v) = Number(n)
    BY <1>2, <2>1 DEF Enc, to_surreal_with_storage, to_surreal, to_scalar, IntTypes, Null
  <2>3. n \in Int
    BY <1>2, Ranges
  <2>4. IntValue(Number(n)) /\ Number(n) # NONE
    BY <2>3 DEF Number, IntValue, NONE
  <2> QED BY <1>2, <2>2, <2>4 DEF FieldOf, IntTypes
<1>3. CASE t \in {"Bool", "String"}
  <2>0. ValuesOf(t) = IF t = "Bool" THEN Bools ELSE Texts
    BY <1>3 DEF ValuesOf, IntTypes
  <2>1. /\ v \in Bools \cup Texts /\ v[1] \in {"Bool", "String"}
        /\ (t = "Bool" => v \in Bools) /\ (t = "String" => v \in Texts)
    BY <1>1, <1>3, <2>0, SMTT(30) DEF Bools, Texts
  <2>2. Enc(t, v) = v
    <3>1. v # Null /\ v[1] \notin IntTypes /\ t # "Json" /\ v[1] \notin {"List", "Object"}
      BY <1>3, <2>1 DEF Null, IntTypes
    <3> QED BY <2>1, <3>1 DEF Enc, to_surreal_with_storage, to_surreal, to_scalar
  <2> QED BY <1>3, <2>1, <2>2 DEF FieldOf, IntTypes, NONE
<1>4. CASE t = "List(U64)"
  <2>1. PICK s \in Seq(Ints("U64")) : v = <<"List", s>>
    BY <1>1, <1>4 DEF ValuesOf, IntTypes
  <2> DEFINE e == [i \in DOMAIN s |-> to_scalar(s[i])]
  <2>2. Enc(t, v) = <<"Array", e>>
    BY <1>4, <2>1 DEF Enc, to_surreal_with_storage, to_surreal
  <2>3. ASSUME NEW x \in Ints("U64") PROVE to_scalar(x) \in Elements
    <3>1. PICK n \in IntRange("U64") : x = <<"U64", n>>
      BY DEF Ints
    <3> QED BY <3>1 DEF to_scalar, Number, Elements, Null, IntTypes
  <2>4. e \in Seq(Elements)
    BY <2>3
  <2> QED BY <1>4, <2>2, <2>4 DEF FieldOf, IntTypes, NONE
<1>5. CASE t = "Document"
  <2>1. v[1] = "Object"
    BY <1>1, <1>5 DEF ValuesOf, IntTypes
  <2>2. Enc(t, v)[1] = "Object"
    BY <1>5, <2>1 DEF Enc, to_surreal_with_storage, to_surreal
  <2> QED BY <1>5, <2>2 DEF FieldOf, IntTypes, NONE
<1>6. CASE t = "Json"
  <2>1. FieldOf(t, Enc(t, v))
    BY <1>6 DEF FieldOf, IntTypes
  <2>2. PICK j \in {<<"Invalid">>} \cup JsonScalar \cup ({"Object"} \X JsonObject) : v = <<"Json", j>>
    BY <1>1, <1>6 DEF ValuesOf, IntTypes
  <2>3. Enc(t, v) = json_text_to_surreal(v) /\ v[1] = "Json" /\ v[2] = j
    BY <1>6, <2>2 DEF Enc, to_surreal_with_storage
  <2>4. CASE j \in {"Object"} \X JsonObject
    BY <2>1, <2>2, <2>3, <2>4 DEF json_text_to_surreal, NONE, Null
  <2>5. CASE j = <<"Invalid">>
    BY <2>1, <2>2, <2>3, <2>5 DEF json_text_to_surreal, NONE, Null, serialization_failure
  <2>6. CASE j \in JsonScalar
    <3>1. j[1] \in {"Null", "Bool", "String", "Num"}
      BY <2>6 DEF JsonScalar, Null, Bools, Texts
    <3>2. Enc(t, v) = json_scalar_to_surreal(j)
      BY <2>2, <2>3, <3>1 DEF json_text_to_surreal, Null
    <3>3. json_scalar_to_surreal(j) # NONE
      BY <3>1 DEF json_scalar_to_surreal, NONE, NULL, Number
    <3> QED BY <2>1, <3>2, <3>3
  <2> QED BY <2>2, <2>4, <2>5, <2>6
<1> QED BY <1>1, <1>2, <1>3, <1>4, <1>5, <1>6 DEF ColumnTypes

(* Nothing but an absent field is read as null. *)
LEMMA OnlyNone ==
    ASSUME NEW t \in ColumnTypes, NEW x, FieldOf(t, x)
    PROVE  from_surreal_with_storage(x, t) = Null <=> x = NONE
<1>1. ASSUME x = NONE PROVE from_surreal_with_storage(x, t) = Null
  <2>1. x # NULL /\ x[1] = "NONE"
    BY <1>1 DEF NONE, NULL
  <2> QED BY <1>1, <2>1 DEF from_surreal_with_storage, from_surreal, from_scalar, surreal_json_to_text
<1>2. ASSUME x # NONE, t = "Json" PROVE from_surreal_with_storage(x, t) # Null
  <2>1. from_surreal_with_storage(x, t)[1] \in {"error", "Json"}
    BY <1>2 DEF from_surreal_with_storage, surreal_json_to_text, serialization_failure
  <2> QED BY <2>1 DEF Null
<1>3. ASSUME x # NONE, t # "Json" PROVE from_surreal_with_storage(x, t) # Null
  <2>0. from_surreal_with_storage(x, t) = from_surreal(x, t)
    BY <1>3 DEF from_surreal_with_storage
  <2>1. CASE t \in IntTypes
    <3>1. IntValue(x)
      BY <1>3, <2>1 DEF FieldOf
    <3>2. x[1] \in {"Int", "Decimal"}
      BY <3>1 DEF IntValue
    <3>3. from_surreal(x, t) = number_to_stmt(x, t)
      BY <3>2 DEF from_surreal, from_scalar, NONE, NULL
    <3>4. number_to_stmt(x, t)[1] = t
      BY <2>1 DEF number_to_stmt, IntTypes
    <3> QED BY <2>0, <2>1, <3>3, <3>4 DEF Null, IntTypes
  <2>2. CASE t \in {"Bool", "String"}
    <3>1. x[1] \in {"Bool", "String"} /\ x # NULL /\ (x[1] = "String" => t = "String")
      BY <1>3, <2>2 DEF FieldOf, Bools, Texts, NULL
    <3>2. from_surreal(x, t) = x
      BY <1>3, <2>2, <3>1 DEF from_surreal, from_scalar
    <3> QED BY <2>0, <3>1, <3>2 DEF Null
  <2>3. CASE t \in {"List(U64)", "Document"}
    <3>1. x[1] \in {"Array", "Object"}
      BY <1>3, <2>3 DEF FieldOf
    <3>2. from_surreal(x, t)[1] \in {"List", "Object"}
      BY <3>1 DEF from_surreal
    <3> QED BY <2>0, <3>2 DEF Null
  <2> QED BY <1>3, <2>1, <2>2, <2>3 DEF ColumnTypes
<1> QED BY <1>1, <1>2, <1>3

LEMMA SumInteger ==
    ASSUME NEW x, NEW n \in Int, x = NONE \/ IntValue(x), ~IsError(Plus(x, n))
    PROVE  IntValue(x) /\ IntValue(Plus(x, n)) /\ x[2] \in Int /\ Plus(x, n)[2] = x[2] + n
<1>1. IsNumber(x)
  BY DEF Plus, IsError
<1>2. PICK m \in Int : x \in {<<"Int", m>>, <<"Decimal", m>>}
  BY <1>1 DEF IsNumber, NONE, IntValue
<1>3. Plus(x, n) = Sum(x, n)
  BY <1>1 DEF Plus
<1>4. m + n \in Int
  OBVIOUS
<1>5. x[2] = m
  BY <1>2
<1>6. Plus(x, n) \in {<<"Int", m + n>>, <<"Decimal", m + n>>, <<"error", "overflow">>}
  BY <1>3, <1>5 DEF Sum
<1>7. Plus(x, n) # <<"error", "overflow">>
  BY DEF IsError
<1> QED BY <1>2, <1>4, <1>5, <1>6, <1>7 DEF IntValue

LEMMA ConcatArray ==
    ASSUME NEW x, NEW y \in {"Array"} \X Seq(Elements), FieldOf("List(U64)", x), ~IsError(Concat(x, y))
    PROVE  /\ x \in {"Array"} \X Seq(Elements)
           /\ Concat(x, y) = <<"Array", x[2] \o y[2]>>
           /\ Concat(x, y) \in {"Array"} \X Seq(Elements)
<1>1. x[1] = "Array" /\ Concat(x, y) = <<"Array", x[2] \o y[2]>>
  BY DEF Concat, IsError
<1>2. x \in {"Array"} \X Seq(Elements)
  BY <1>1 DEF FieldOf, NONE
<1>3. x[2] \in Seq(Elements) /\ y[2] \in Seq(Elements)
  BY <1>2
<1>4. x[2] \o y[2] \in Seq(Elements)
  BY <1>3
<1>5. <<"Array", x[2] \o y[2]>> \in {"Array"} \X Seq(Elements)
  BY <1>4
<1> QED BY <1>1, <1>2, <1>5

SInv == ty \in DOMAIN Inputs /\ FieldOf(ty, field)

LEMMA StoredInit == Init => SInv
  BY DEF Init, SInv, FieldOf

LEMMA StoredStep == SInv /\ [Next]_vars => SInv'
<1> SUFFICES ASSUME SInv, [Next]_vars PROVE SInv'
  OBVIOUS
<1>0. Null \notin Values /\ Values \subseteq Inputs[ty] /\ ty \in DOMAIN Inputs
  BY DEF Values, SInv
<1>s. \A v \in Inputs[ty] : v # Null /\ ~IsError(Encoded(v)) => FieldOf(ty, Encoded(v))
  BY <1>0, Stores DEF Encoded, Enc
(* What any assignment has to show. *)
<1>a. ASSUME NEW o, NEW x, Assign(o, x), ~IsError(x) => FieldOf(ty, x)
      PROVE  SInv'
  BY <1>a DEF Assign, SInv
<1>n. FieldOf(ty, NONE) /\ FieldOf(ty, field)
  BY DEF FieldOf, SInv
<1>1. ASSUME NEW v \in Inputs[ty], Insert(v) PROVE SInv'
  BY <1>1, <1>a, <1>s, <1>n DEF Insert
<1>2. ASSUME NEW v \in Inputs[ty], Set(v) PROVE SInv'
  BY <1>2, <1>a, <1>s, <1>n DEF Set
<1>3. ASSUME NEW v \in Inputs[ty], SetShared(v) PROVE SInv'
  BY <1>3, <1>a, <1>s, <1>n DEF SetShared
<1>4. ASSUME NEW v \in Inputs[ty], CreateOnly(v) PROVE SInv'
  BY <1>4, <1>a, <1>s, <1>n DEF CreateOnly, Or
<1>m. ASSUME NEW x, NEW n \in Amounts, ty \in Numeric, FieldOf(ty, x), ~IsError(Plus(x, n))
      PROVE  FieldOf(ty, Plus(x, n))
  <2>1. n \in Int
    BY InputAssumption
  <2>2. IntValue(Plus(x, n))
    BY <1>m, <2>1, SumInteger DEF FieldOf, Numeric
  <2> QED BY <1>m, <2>2 DEF FieldOf, Numeric, IntTypes
<1>5. ASSUME NEW n \in Amounts, ty \in Numeric, Add(n) PROVE SInv'
  BY <1>5, <1>a, <1>m, <1>n DEF Add
(* The base of an addition may be an error only where nothing is assigned. *)
<1>b. ASSUME NEW d \in Values, ~IsError(Or(field, Encoded(d))) PROVE FieldOf(ty, Or(field, Encoded(d)))
  BY <1>b, <1>0, <1>s, <1>n DEF Or
<1>6. ASSUME NEW n \in Amounts, NEW d \in Values, ty \in Numeric, AddOr(n, d) PROVE SInv'
  <2>1. ~IsError(Plus(Or(field, Encoded(d)), n)) => ~IsError(Or(field, Encoded(d)))
    BY DEF Plus, IsError, IsNumber
  <2> QED BY <1>6, <1>a, <1>b, <1>m, <2>1 DEF AddOr
<1>p. ASSUME NEW x, NEW v \in Values, ty = "List(U64)", FieldOf(ty, x), ~IsError(Concat(x, Encoded(v)))
      PROVE  FieldOf(ty, Concat(x, Encoded(v)))
  <2>1. Encoded(v)[1] = "Array"
    BY <1>0, <1>p, InputAssumption DEF Encoded, to_surreal_with_storage, to_surreal, ValuesOf, IntTypes
  <2>2. FieldOf(ty, Encoded(v)) /\ Encoded(v) # NONE
    BY <1>0, <2>1, Stores DEF IsError, Encoded, Enc
  <2>3. Encoded(v) \in {"Array"} \X Seq(Elements)
    BY <1>p, <2>2 DEF FieldOf
  <2> QED BY <1>p, <2>3, ConcatArray DEF FieldOf, IntTypes
<1>7. ASSUME NEW v \in Values, ty = "List(U64)", Push(v) PROVE SInv'
  BY <1>7, <1>a, <1>p, <1>n DEF Push
<1>8. ASSUME NEW v \in Values, NEW d \in Values, ty = "List(U64)", PushOr(v, d) PROVE SInv'
  <2>1. ~IsError(Concat(Or(field, Encoded(d)), Encoded(v))) => ~IsError(Or(field, Encoded(d)))
    BY DEF Concat, IsError
  <2> QED BY <1>8, <1>a, <1>b, <1>p, <2>1 DEF PushOr
<1>9. ASSUME Delete PROVE SInv'
  BY <1>9, <1>0 DEF Delete, SInv, FieldOf
<1>10. ASSUME UNCHANGED vars PROVE SInv'
  BY <1>10 DEF vars, SInv
<1>11. Operands \subseteq Amounts
  BY DEF Operands
<1> QED BY <1>1, <1>2, <1>3, <1>4, <1>5, <1>6, <1>7, <1>8, <1>9, <1>10, <1>11 DEF Next

(* What a column of any type holds is of the kind its type is stored as, whatever
   is assigned to it (value.rs:47-177, upsert.rs:92-121, 198-224).           *)
THEOREM Kinds == Spec => []SInv
  BY StoredInit, StoredStep, PTL DEF Spec

(* Whatever is assigned and added to an integer column of any width, in whatever
   order, it is read exactly where it is in range, and in range where it is not
   (value.rs:327-367).                                                        *)
THEOREM Exact == Spec => []ReadsExact
<1>1. SInv => ReadsExact
  <2> SUFFICES ASSUME SInv, IsNumber(field), ty \in Numeric
               PROVE  LET read == Read(field)[2]
                      IN  read \in IntRange(ty) /\ (field[2] \in IntRange(ty) => read = field[2])
    BY DEF ReadsExact
  <2>1. IntValue(field)
    BY DEF SInv, FieldOf, IsNumber, NONE, Numeric
  <2>2. LET read == from_surreal_with_storage(field, ty)
        IN  /\ read[2] \in IntRange(ty)
            /\ field[2] \in IntRange(ty) => read = <<ty, field[2]>>
    BY <2>1, Reads DEF Numeric
  <2> QED BY <2>2 DEF Read
<1> QED BY <1>1, Kinds, PTL

(* A column of any type is read as null exactly when its field is absent, so that
   IS NONE and ?? ask what the user sees (expr.rs:144-160, value.rs:93-99).   *)
THEOREM NullIsAbsent == Spec => []NullMeansNone
<1>1. SInv => NullMeansNone
  BY OnlyNone, InputAssumption DEF SInv, NullMeansNone, Read
<1> QED BY <1>1, Kinds, PTL

-----------------------------------------------------------------------------
(* What a column of type t holds whose field is x. *)
HeldIn(t, x) ==
    CASE IsNumber(x) /\ t \in Numeric -> <<t, x[2]>>
      [] t = "Document" /\ x # NONE -> <<"Object", Raised(from_surreal_with_storage(x, t)[2])>>
      [] OTHER -> from_surreal_with_storage(x, t)

LEMMA HeldIs == Held = HeldIn(ty, field) /\ Held' = HeldIn(ty', field')
  BY DEF Held, HeldIn, Read

LEMMA HeldNull ==
    ASSUME NEW t \in ColumnTypes, NEW x, FieldOf(t, x)
    PROVE  HeldIn(t, x) = Null <=> x = NONE
<1>1. CASE IsNumber(x) /\ t \in Numeric
  <2>1. x # NONE /\ t # "Document"
    BY <1>1 DEF IsNumber, NONE, Numeric, IntTypes
  <2>2. HeldIn(t, x) = <<t, x[2]>>
    BY <1>1, <2>1 DEF HeldIn
  <2> QED BY <2>1, <2>2 DEF Null
<1>2. CASE t = "Document" /\ x # NONE
  <2>1. HeldIn(t, x)[1] = "Object"
    BY <1>2 DEF HeldIn, Numeric, IntTypes
  <2> QED BY <1>2, <2>1 DEF Null
<1>3. CASE ~(IsNumber(x) /\ t \in Numeric) /\ ~(t = "Document" /\ x # NONE)
  <2>1. HeldIn(t, x) = from_surreal_with_storage(x, t)
    BY <1>3 DEF HeldIn
  <2> QED BY <2>1, OnlyNone
<1> QED BY <1>1, <1>2, <1>3

(* The inputs with which a column keeps its promise: no JSON null, which
   JsonNull.cfg has, and no number above i64::MAX in a document, as in BigLeaf.cfg. *)
Faithful(t, v) ==
    /\ t = "Json" => v # <<"Json", <<"Null">>>>
    /\ t = "Document" /\ v # Null /\ v[2][Member] \in Ints("U64") => v[2][Member][2] <= MaxInt

(* What is encoded is held as it was written. *)
LEMMA HeldInteger ==
    ASSUME NEW t \in IntTypes, NEW v \in Ints(t)
    PROVE  HeldIn(t, Enc(t, v)) = v
<1>1. PICK n \in IntRange(t) : v = <<t, n>>
  BY DEF Ints
<1>2. Enc(t, v) = Number(n)
  BY <1>1 DEF Enc, to_surreal_with_storage, to_surreal, to_scalar, IntTypes, Null
<1>3. IsNumber(Number(n)) /\ Number(n)[2] = n
  BY DEF Number, IsNumber
<1> QED BY <1>1, <1>2, <1>3 DEF HeldIn, Numeric, IntTypes

LEMMA HeldPlain ==
    ASSUME NEW t \in {"Bool", "String"}, NEW v \in ValuesOf(t)
    PROVE  HeldIn(t, Enc(t, v)) = v
<1>1. v[1] = t /\ v[1] \in {"Bool", "String"}
  BY DEF ValuesOf, IntTypes, Bools, Texts
<1>2. v # Null /\ v # NONE /\ v # NULL
  BY DEF ValuesOf, IntTypes, Bools, Texts, Null, NONE, NULL
<1>3. Enc(t, v) = v
  BY <1>1, <1>2 DEF Enc, to_surreal_with_storage, to_surreal, to_scalar, IntTypes
<1>4. HeldIn(t, v) = from_surreal_with_storage(v, t)
  BY <1>1 DEF HeldIn, Numeric, IntTypes
<1>5. from_surreal_with_storage(v, t) = v
  BY <1>1, <1>2 DEF from_surreal_with_storage, from_surreal, from_scalar
<1> QED BY <1>3, <1>4, <1>5

(* An element of a list. *)
LEMMA ElementRead ==
    /\ \A x \in Ints("U64") : to_scalar(x) \in Elements /\ from_scalar(to_scalar(x), "U64") = x
    /\ \A x \in Elements : from_scalar(x, "U64") \in Ints("U64")
<1>1. ASSUME NEW x \in Elements PROVE from_scalar(x, "U64") = <<"U64", x[2]>> /\ x[2] \in IntRange("U64")
  <2>1. PICK n \in IntRange("U64") : x \in {<<"Int", n>>, <<"Decimal", n>>}
    BY ElementsInt
  <2>2. n \in Int /\ Wrapped("U64", n) = n
    BY Ranges, Wrap DEF IntTypes
  <2>3. x[1] \in {"Int", "Decimal"} /\ x[2] = n
    BY <2>1
  <2>4. number_to_u64(x) = n
    BY <2>2, <2>3 DEF number_to_u64
  <2>5. from_scalar(x, "U64") = number_to_stmt(x, "U64")
    BY <2>3 DEF from_scalar, NONE, NULL
  <2>6. number_to_stmt(x, "U64") = <<"U64", number_to_u64(x)>>
    BY DEF number_to_stmt
  <2> QED BY <2>3, <2>4, <2>5, <2>6
<1>2. ASSUME NEW x \in Ints("U64") PROVE to_scalar(x) \in Elements /\ to_scalar(x)[2] = x[2] /\ x = <<"U64", x[2]>>
  <2>1. PICK n \in IntRange("U64") : x = <<"U64", n>>
    BY DEF Ints
  <2>2. to_scalar(x) = Number(n)
    BY <2>1 DEF to_scalar, Null, IntTypes
  <2>3. Number(n) \in Elements /\ Number(n)[2] = n
    BY DEF Number, Elements
  <2> QED BY <2>1, <2>2, <2>3
<1>3. ASSUME NEW x \in Elements PROVE from_scalar(x, "U64") \in Ints("U64")
  BY <1>1 DEF Ints
<1> QED BY <1>1, <1>2, <1>3

LEMMA HeldArray ==
    ASSUME NEW s \in Seq(Elements)
    PROVE  /\ HeldIn("List(U64)", <<"Array", s>>) = <<"List", [i \in DOMAIN s |-> from_scalar(s[i], "U64")]>>
           /\ [i \in DOMAIN s |-> from_scalar(s[i], "U64")] \in Seq(Ints("U64"))
<1>1. HeldIn("List(U64)", <<"Array", s>>) = from_surreal(<<"Array", s>>, "List(U64)")
  BY DEF HeldIn, Numeric, IntTypes, from_surreal_with_storage
<1>2. from_surreal(<<"Array", s>>, "List(U64)") = <<"List", [i \in DOMAIN s |-> from_scalar(s[i], "U64")]>>
  BY DEF from_surreal, ElementType
<1>3. [i \in DOMAIN s |-> from_scalar(s[i], "U64")] \in Seq(Ints("U64"))
  BY ElementRead
<1> QED BY <1>1, <1>2, <1>3

LEMMA HeldList ==
    ASSUME NEW v \in ValuesOf("List(U64)")
    PROVE  /\ HeldIn("List(U64)", Enc("List(U64)", v)) = v
           /\ Enc("List(U64)", v) \in {"Array"} \X Seq(Elements)
<1>1. PICK s \in Seq(Ints("U64")) : v = <<"List", s>>
  BY DEF ValuesOf, IntTypes
<1> DEFINE e == [i \in DOMAIN s |-> to_scalar(s[i])]
<1>2. Enc("List(U64)", v) = <<"Array", e>>
  BY <1>1 DEF Enc, to_surreal_with_storage, to_surreal
<1>3. e \in Seq(Elements)
  BY ElementRead
<1>4. DOMAIN e = DOMAIN s /\ \A i \in DOMAIN s : from_scalar(e[i], "U64") = s[i]
  BY ElementRead
<1>5. [i \in DOMAIN e |-> from_scalar(e[i], "U64")] = s
  BY <1>4
<1> HIDE DEF e
<1>6. HeldIn("List(U64)", <<"Array", e>>) = <<"List", s>>
  BY <1>3, <1>5, HeldArray
<1>7. <<"Array", e>> \in {"Array"} \X Seq(Elements)
  BY <1>3
<1> QED BY <1>1, <1>2, <1>6, <1>7

LEMMA SameSequence ==
    ASSUME NEW S, NEW s \in Seq(S), NEW u \in Seq(S),
           Len(s) = Len(u), \A i \in 1 .. Len(s) : s[i] = u[i]
    PROVE  s = u
<1>1. s = [i \in 1 .. Len(s) |-> s[i]] /\ u = [i \in 1 .. Len(u) |-> u[i]]
  OBVIOUS
<1>2. [i \in 1 .. Len(s) |-> s[i]] = [i \in 1 .. Len(u) |-> u[i]]
  OBVIOUS
<1> QED BY <1>1, <1>2

LEMMA IsConcat ==
    ASSUME NEW S, NEW s \in Seq(S), NEW u \in Seq(S), NEW w \in Seq(S),
           Len(w) = Len(s) + Len(u),
           \A i \in 1 .. Len(s) : w[i] = s[i],
           \A i \in 1 .. Len(u) : w[Len(s) + i] = u[i]
    PROVE  w = s \o u
<1> DEFINE j == s \o u
<1>1. j \in Seq(S) /\ Len(j) = Len(s) + Len(u) /\ Len(s) \in Nat /\ Len(u) \in Nat
  OBVIOUS
<1>2. /\ \A i \in 1 .. Len(s) : j[i] = s[i]
      /\ \A i \in 1 .. Len(u) : j[Len(s) + i] = u[i]
  OBVIOUS
<1> HIDE DEF j
<1>3. ASSUME NEW i \in 1 .. Len(w) PROVE w[i] = j[i]
  <2>1. CASE i <= Len(s)
    BY <1>1, <1>2, <2>1
  <2>2. CASE ~(i <= Len(s))
    <3>1. i - Len(s) \in 1 .. Len(u) /\ Len(s) + (i - Len(s)) = i
      BY <1>1, <2>2
    <3> QED BY <1>2, <3>1
  <2> QED BY <2>1, <2>2
<1>4. w = j
  BY <1>1, <1>3, SameSequence
<1> QED BY <1>4 DEF j

(* Joining two arrays joins the lists that are held. *)
LEMMA HeldJoin ==
    ASSUME NEW s \in Seq(Elements), NEW u \in Seq(Elements)
    PROVE  HeldIn("List(U64)", <<"Array", s \o u>>) =
               Abstract!Join(HeldIn("List(U64)", <<"Array", s>>), HeldIn("List(U64)", <<"Array", u>>))
<1> DEFINE R(w) == [i \in DOMAIN w |-> from_scalar(w[i], "U64")]
           w == s \o u
<1>1. w \in Seq(Elements) /\ Len(w) = Len(s) + Len(u)
  OBVIOUS
<1>2. /\ \A i \in 1 .. Len(s) : w[i] = s[i]
      /\ \A i \in 1 .. Len(u) : w[Len(s) + i] = u[i]
  OBVIOUS
<1> HIDE DEF w
<1>3. /\ HeldIn("List(U64)", <<"Array", w>>) = <<"List", R(w)>> /\ R(w) \in Seq(Ints("U64"))
      /\ HeldIn("List(U64)", <<"Array", s>>) = <<"List", R(s)>> /\ R(s) \in Seq(Ints("U64"))
      /\ HeldIn("List(U64)", <<"Array", u>>) = <<"List", R(u)>> /\ R(u) \in Seq(Ints("U64"))
  BY <1>1, HeldArray
<1>4. /\ Len(R(s)) = Len(s) /\ Len(R(u)) = Len(u) /\ Len(R(w)) = Len(s) + Len(u)
      /\ \A i \in 1 .. Len(s) : R(s)[i] = from_scalar(s[i], "U64")
      /\ \A i \in 1 .. Len(u) : R(u)[i] = from_scalar(u[i], "U64")
      /\ \A i \in 1 .. Len(s) + Len(u) : R(w)[i] = from_scalar(w[i], "U64")
  BY <1>1
<1> HIDE DEF R
<1>5. /\ \A i \in 1 .. Len(R(s)) : R(w)[i] = R(s)[i]
      /\ \A i \in 1 .. Len(R(u)) : R(w)[Len(R(s)) + i] = R(u)[i]
  BY <1>2, <1>4
<1>6. R(w) = R(s) \o R(u)
  <2>1. Len(R(w)) = Len(R(s)) + Len(R(u))
    BY <1>4
  <2>2. R(w) \in Seq(Ints("U64")) /\ R(s) \in Seq(Ints("U64")) /\ R(u) \in Seq(Ints("U64"))
    BY <1>3
  <2> QED BY <1>5, <2>1, <2>2, IsConcat
<1>7. Abstract!Join(<<"List", R(s)>>, <<"List", R(u)>>) = <<"List", R(s) \o R(u)>>
  BY DEF Abstract!Join
<1> QED BY <1>3, <1>6, <1>7 DEF w

(* A member of a document. *)
LEMMA LeafRead ==
    ASSUME NEW x \in Leaf, x # Null, x \in Ints("U64") => x[2] <= MaxInt
    PROVE  from_scalar(to_scalar(x), "Unknown") = IF x[1] = "U64" THEN <<"I64", x[2]>> ELSE x
<1>1. CASE x \in Ints("U64")
  <2>1. PICK n \in IntRange("U64") : x = <<"U64", n>>
    BY <1>1 DEF Ints
  <2>2. n \in IntRange("I64") /\ n <= MaxInt
    BY <1>1, <2>1, WidthAssumption DEF IntRange
  <2>3. to_scalar(x) = <<"Int", n>>
    BY <2>1, <2>2 DEF to_scalar, Number, Null, IntTypes
  <2>4. from_scalar(<<"Int", n>>, "Unknown") = number_to_stmt(<<"Int", n>>, "Unknown")
    BY DEF from_scalar, NONE, NULL
  <2>5. number_to_stmt(<<"Int", n>>, "Unknown") = <<"I64", n>>
    BY <2>2 DEF number_to_stmt, IsInt, IntTypes
  <2> QED BY <2>1, <2>3, <2>4, <2>5
<1>2. CASE x \in Bools \cup Texts
  <2>1. x[1] \in {"Bool", "String"} /\ x # NONE /\ x # NULL
    BY <1>2 DEF Bools, Texts, NONE, NULL
  <2>2. to_scalar(x) = x
    BY <2>1 DEF to_scalar, IntTypes, Null
  <2>3. from_scalar(x, "Unknown") = x
    BY <2>1 DEF from_scalar
  <2> QED BY <2>1, <2>2, <2>3
<1> QED BY <1>1, <1>2 DEF Leaf

LEMMA HeldDocument ==
    ASSUME NEW v \in ValuesOf("Document"), v # Null, Faithful("Document", v)
    PROVE  HeldIn("Document", Enc("Document", v)) = v
<1>1. PICK f \in [{Member} -> Leaf] : v = <<"Object", f>>
  BY DEF ValuesOf, IntTypes
<1> DEFINE D == {m \in DOMAIN f : f[m] # Null}
           e == [m \in D |-> to_scalar(f[m])]
           g == [m \in D |-> from_scalar(e[m], "Unknown")]
<1>2. Enc("Document", v) = <<"Object", e>>
  BY <1>1 DEF Enc, to_surreal_with_storage, to_surreal
<1>3. from_surreal(<<"Object", e>>, "Document") = <<"Object", g>>
  BY DEF from_surreal
<1>4. HeldIn("Document", <<"Object", e>>) = <<"Object", Raised(g)>>
  BY <1>3 DEF HeldIn, Numeric, IntTypes, from_surreal_with_storage, NONE
<1>5. f[Member] \in Leaf /\ (f[Member] \in Ints("U64") => f[Member][2] <= MaxInt)
  BY <1>1 DEF Faithful
<1>6. ASSUME f[Member] # Null
      PROVE  g[Member] = IF f[Member][1] = "U64" THEN <<"I64", f[Member][2]>> ELSE f[Member]
  BY <1>5, <1>6, LeafRead
<1>7. DOMAIN g = D /\ (Member \in D <=> f[Member] # Null) /\ D \subseteq {Member}
  OBVIOUS
<1>8. f[Member] \in Leaf /\ f[Member] # Null =>
          \/ f[Member][1] = "U64" /\ f[Member] = <<"U64", f[Member][2]>>
          \/ f[Member][1] \in {"Bool", "String"}
  BY DEF Leaf, Ints, Bools, Texts
<1> HIDE DEF D, e, g
<1>9. Raised(g) = [m \in {Member} |-> f[m]]
  <2>1. CASE f[Member] = Null
    BY <1>7, <2>1 DEF Raised
  <2>2. CASE f[Member] # Null /\ f[Member][1] = "U64"
    <3>1. g[Member][1] = "I64" /\ g[Member][2] = f[Member][2]
      BY <1>6, <2>2
    <3> QED BY <1>5, <1>7, <1>8, <2>2, <3>1 DEF Raised
  <2>3. CASE f[Member] # Null /\ f[Member][1] # "U64"
    <3>1. g[Member] = f[Member] /\ f[Member][1] \notin {"I64", "F64"}
      BY <1>5, <1>6, <1>8, <2>3
    <3> QED BY <1>7, <2>3, <3>1 DEF Raised
  <2> QED BY <2>1, <2>2, <2>3
<1>10. [m \in {Member} |-> f[m]] = f
  OBVIOUS
<1> QED BY <1>1, <1>2, <1>4, <1>9, <1>10

LEMMA JsonRead ==
    ASSUME NEW j \in JsonScalar
    PROVE  LET x == json_scalar_to_surreal(j)
           IN  /\ x # NONE /\ x[1] # "Object" /\ (x = NULL => j = <<"Null">>)
               /\ surreal_to_json_scalar(x) = j
<1> DEFINE x == json_scalar_to_surreal(j)
<1>1. CASE j = Null
  <2>1. x = NULL
    BY <1>1 DEF json_scalar_to_surreal, Null
  <2> QED BY <1>1, <2>1 DEF surreal_to_json_scalar, Null, NULL, NONE
<1>2. CASE j \in Bools \cup Texts
  <2>1. j[1] \in {"Bool", "String"} /\ j # NULL /\ j # NONE
    BY <1>2 DEF Bools, Texts, NULL, NONE
  <2>2. x = j
    BY <2>1 DEF json_scalar_to_surreal
  <2>3. surreal_to_json_scalar(j) = j
    BY <2>1 DEF surreal_to_json_scalar
  <2> QED BY <2>1, <2>2, <2>3
<1>3. CASE j \in {"Num"} \X (IntRange("I64") \cup IntRange("U64"))
  <2>1. PICK n : j = <<"Num", n>>
    BY <1>3
  <2>2. x = Number(n)
    BY <2>1 DEF json_scalar_to_surreal
  <2>3. Number(n) # NULL /\ Number(n) # NONE /\ Number(n)[1] \in {"Int", "Decimal"} /\ Number(n)[2] = n
    BY DEF Number, NULL, NONE
  <2>4. surreal_to_json_scalar(Number(n)) = <<"Num", n>>
    BY <2>3 DEF surreal_to_json_scalar
  <2> QED BY <2>1, <2>2, <2>3, <2>4
<1> QED BY <1>1, <1>2, <1>3 DEF JsonScalar

LEMMA HeldJson ==
    ASSUME NEW v \in ValuesOf("Json"), Faithful("Json", v), ~IsError(Enc("Json", v))
    PROVE  HeldIn("Json", Enc("Json", v)) = v /\ Enc("Json", v) # NULL
<1>1. PICK j \in {<<"Invalid">>} \cup JsonScalar \cup ({"Object"} \X JsonObject) : v = <<"Json", j>>
  BY DEF ValuesOf, IntTypes
<1>2. Enc("Json", v) = json_text_to_surreal(v) /\ v[1] = "Json" /\ v[2] = j /\ v # Null
  BY <1>1 DEF Enc, to_surreal_with_storage, Null
<1>3. \A x : HeldIn("Json", x) = surreal_json_to_text(x)
  BY DEF HeldIn, Numeric, IntTypes, from_surreal_with_storage
<1>4. CASE j = <<"Invalid">>
  <2>1. Enc("Json", v) = serialization_failure
    BY <1>2, <1>4 DEF json_text_to_surreal
  <2> QED BY <2>1 DEF IsError, serialization_failure
<1>5. CASE j \in JsonScalar
  <2>1. j[1] \in {"Null", "Bool", "String", "Num"}
    BY <1>5 DEF JsonScalar, Null, Bools, Texts
  <2> DEFINE x == json_scalar_to_surreal(j)
  <2>2. Enc("Json", v) = x
    BY <1>1, <1>2, <2>1 DEF json_text_to_surreal
  <2>3. /\ x # NONE /\ x[1] # "Object" /\ (x = NULL => j = <<"Null">>)
        /\ surreal_to_json_scalar(x) = j
    BY <1>5, JsonRead
  <2>4. j # <<"Null">>
    BY <1>1 DEF Faithful
  <2> HIDE DEF x
  <2>5. surreal_json_to_text(x) = <<"Json", j>>
    BY <2>3 DEF surreal_json_to_text
  <2> QED BY <1>1, <1>3, <2>2, <2>3, <2>4, <2>5
<1>6. CASE j \in {"Object"} \X JsonObject
  <2>1. PICK f \in JsonObject : j = <<"Object", f>>
    BY <1>6
  <2>2. f = [m \in DOMAIN f |-> f[m]] /\ \A m \in DOMAIN f : f[m] \in JsonScalar
    BY DEF JsonObject
  <2> DEFINE e == [m \in DOMAIN f |-> json_scalar_to_surreal(f[m])]
  <2>3. Enc("Json", v) = <<"Object", e>>
    BY <1>1, <1>2, <2>1 DEF json_text_to_surreal
  <2>4. \A m \in DOMAIN f : e[m] # NONE /\ surreal_to_json_scalar(e[m]) = f[m]
    BY <2>2, JsonRead
  <2>5. DOMAIN e = DOMAIN f
    OBVIOUS
  <2> HIDE DEF e
  <2>6. surreal_json_to_text(<<"Object", e>>) = <<"Json", <<"Object", [m \in DOMAIN e |-> surreal_to_json_scalar(e[m])]>>>>
    BY <2>4, <2>5 DEF surreal_json_to_text, NONE
  <2>7. [m \in DOMAIN e |-> surreal_to_json_scalar(e[m])] = f
    BY <2>2, <2>4, <2>5
  <2>8. <<"Object", e>> # NULL
    BY DEF NULL
  <2> QED BY <1>1, <1>3, <2>1, <2>3, <2>6, <2>7, <2>8
<1> QED BY <1>1, <1>4, <1>5, <1>6

LEMMA Regained ==
    ASSUME NEW t \in DOMAIN Inputs, NEW v \in Inputs[t], v # Null,
           Faithful(t, v), ~IsError(Enc(t, v))
    PROVE  /\ HeldIn(t, Enc(t, v)) = v
           /\ FieldOf(t, Enc(t, v)) /\ Enc(t, v) # NONE /\ Enc(t, v) # NULL
<1>1. t \in ColumnTypes /\ v \in ValuesOf(t)
  BY InputAssumption
<1>2. FieldOf(t, Enc(t, v)) /\ Enc(t, v) # NONE
  BY Stores
<1>3. HeldIn(t, Enc(t, v)) = v
  <2>1. CASE t \in IntTypes
    BY <1>1, <2>1, HeldInteger DEF ValuesOf, IntTypes
  <2>2. CASE t \in {"Bool", "String"}
    BY <1>1, <2>2, HeldPlain
  <2>3. CASE t = "List(U64)"
    BY <1>1, <2>3, HeldList
  <2>4. CASE t = "Document"
    BY <1>1, <2>4, HeldDocument
  <2>5. CASE t = "Json"
    BY <1>1, <2>5, HeldJson
  <2> QED BY <1>1, <2>1, <2>2, <2>3, <2>4, <2>5 DEF ColumnTypes
<1>4. Enc(t, v) # NULL
  <2>1. CASE t = "Json"
    BY <1>1, <2>1, HeldJson
  <2>2. CASE t # "Json"
    BY <1>1, <1>2, <2>2 DEF FieldOf, NULL, IntValue, Bools, Texts, ColumnTypes
  <2> QED BY <2>1, <2>2
<1> QED BY <1>2, <1>3, <1>4

(* The inputs are ones that a column represents, and a field is never a NULL. *)
Represented == \A t \in DOMAIN Inputs : \A v \in Inputs[t] : Faithful(t, v)
RInv == SInv /\ field # NULL

(* What a step assigns is held, and is no NULL. *)
LEMMA Meaning ==
    ASSUME Represented, RInv, NEW v \in Inputs[ty], v # Null, ~IsError(Encoded(v))
    PROVE  /\ HeldIn(ty, Encoded(v)) = v /\ Encoded(v) # NULL /\ Encoded(v) # NONE
           /\ FieldOf(ty, Encoded(v))
           /\ HeldIn(ty, Or(field, Encoded(v))) = Abstract!Base(v)
           /\ FieldOf(ty, Or(field, Encoded(v)))
           /\ Or(field, Encoded(v)) # NULL /\ Or(field, Encoded(v)) # NONE
<1>1. ty \in DOMAIN Inputs /\ ty \in ColumnTypes /\ FieldOf(ty, field) /\ field # NULL
  BY InputAssumption DEF RInv, SInv
<1>2. Encoded(v) = Enc(ty, v) /\ Faithful(ty, v)
  BY <1>1 DEF Encoded, Enc, Represented
<1>3. /\ HeldIn(ty, Encoded(v)) = v /\ Encoded(v) # NULL /\ Encoded(v) # NONE
      /\ FieldOf(ty, Encoded(v))
  BY <1>1, <1>2, Regained
<1>4. Held = HeldIn(ty, field) /\ (Held = Null <=> field = NONE)
  BY <1>1, HeldIs, HeldNull
<1>5. Or(field, Encoded(v)) = IF field = NONE THEN Encoded(v) ELSE field
  BY <1>1 DEF Or
<1>6. Abstract!Base(v) = IF field = NONE THEN v ELSE HeldIn(ty, field)
  BY <1>4 DEF Abstract!Base, Abstract!Null, Null
<1> QED BY <1>1, <1>3, <1>5, <1>6

LEMMA SumHeld ==
    ASSUME ty \in Numeric, NEW x, FieldOf(ty, x), NEW n \in Amounts, ~IsError(Plus(x, n))
    PROVE  /\ x # NONE
           /\ HeldIn(ty, Plus(x, n)) = Abstract!Plus(HeldIn(ty, x), n)
           /\ Plus(x, n) # NULL
<1>1. n \in Int /\ (x = NONE \/ IntValue(x))
  BY InputAssumption DEF FieldOf, Numeric
<1>2. IntValue(x) /\ IntValue(Plus(x, n)) /\ Plus(x, n)[2] = x[2] + n
  BY <1>1, SumInteger
<1>3. \A y : IntValue(y) => IsNumber(y) /\ y # NULL /\ y # NONE
  BY DEF IntValue, IsNumber, NULL, NONE
<1>4. \A y : IntValue(y) => HeldIn(ty, y) = <<ty, y[2]>>
  BY <1>3 DEF HeldIn, Numeric, IntTypes
<1>5. Abstract!Plus(<<ty, x[2]>>, n) = <<ty, x[2] + n>>
  BY DEF Abstract!Plus
<1> QED BY <1>2, <1>3, <1>4, <1>5

LEMMA ConcatHeld ==
    ASSUME NEW x, FieldOf("List(U64)", x), NEW y, y # NONE, FieldOf("List(U64)", y),
           ~IsError(Concat(x, y))
    PROVE  /\ x # NONE
           /\ HeldIn("List(U64)", Concat(x, y)) =
                  Abstract!Join(HeldIn("List(U64)", x), HeldIn("List(U64)", y))
           /\ Concat(x, y) # NULL
<1>1. y \in {"Array"} \X Seq(Elements)
  BY DEF FieldOf
<1>2. x \in {"Array"} \X Seq(Elements) /\ Concat(x, y) = <<"Array", x[2] \o y[2]>>
  BY <1>1, ConcatArray
<1>3. PICK s \in Seq(Elements) : x = <<"Array", s>>
  BY <1>2
<1>4. PICK u \in Seq(Elements) : y = <<"Array", u>>
  BY <1>1
<1>5. Concat(x, y) = <<"Array", s \o u>>
  BY <1>2, <1>3, <1>4
<1>6. x # NONE /\ <<"Array", s \o u>> # NULL
  BY <1>3 DEF NONE, NULL
<1> QED BY <1>3, <1>4, <1>5, <1>6, HeldJoin

LEMMA RegisterStep ==
    ASSUME Represented, RInv, [Next]_vars
    PROVE  [Abstract!Next]_(Abstract!vars) /\ field' # NULL
<1>0. /\ Values = Abstract!Values /\ Null \notin Values /\ Values \subseteq Inputs[ty]
      /\ Null = Abstract!Null
      /\ ty \in DOMAIN Inputs /\ ty \in ColumnTypes /\ FieldOf(ty, field) /\ field # NULL
  BY InputAssumption DEF Values, Abstract!Values, RInv, SInv, Null, Abstract!Null
<1>h. Held = HeldIn(ty, field) /\ (Held = Null <=> field = NONE)
  BY <1>0, HeldIs, HeldNull
<1>n. HeldIn(ty, NONE) = Null /\ NONE # NULL /\ ~IsError(NONE)
  BY <1>0, HeldNull DEF FieldOf, NONE, NULL, IsError
(* What any assignment has to show. *)
<1>a. ASSUME NEW o, NEW x, NEW v, Assign(o, x), ~IsError(x) => HeldIn(ty, x) = v /\ x # NULL
      PROVE  Abstract!Does(o, v) /\ field' # NULL
  BY <1>a, HeldIs DEF Assign, Abstract!Does
(* The assignment of a value, or of none. *)
<1>e. ASSUME NEW v \in Inputs[ty]
      PROVE  LET x == IF v = Null THEN NONE ELSE Encoded(v)
             IN  ~IsError(x) => HeldIn(ty, x) = v /\ x # NULL
  BY <1>n, Meaning
<1>1. ASSUME NEW v \in Inputs[ty], Insert(v) PROVE Abstract!Insert(v) /\ field' # NULL
  BY <1>1, <1>a, <1>e DEF Insert, Abstract!Insert
<1>2. ASSUME NEW v \in Inputs[ty], Set(v) PROVE Abstract!Set(v) /\ field' # NULL
  BY <1>2, <1>a, <1>e DEF Set, Abstract!Set
<1>3. ASSUME NEW v \in Inputs[ty], SetShared(v) PROVE Abstract!SetShared(v) /\ field' # NULL
  BY <1>3, <1>a, <1>e DEF SetShared, Abstract!SetShared
<1>4. ASSUME NEW v \in Inputs[ty], CreateOnly(v) PROVE Abstract!CreateOnly(v) /\ field' # NULL
  <2> DEFINE x == IF v = Null THEN field
                  ELSE IF IsError(Encoded(v)) THEN Encoded(v) ELSE Or(field, Encoded(v))
  <2>1. ~IsError(x) => HeldIn(ty, x) = Abstract!Base(v) /\ x # NULL
    <3>1. CASE v = Null
      BY <1>0, <1>h, <3>1 DEF Abstract!Base
    <3>2. CASE v # Null /\ ~IsError(Encoded(v))
      BY <3>2, Meaning
    <3> QED BY <3>1, <3>2
  <2>2. Assign(<<"CreateOnly", v>>, x)
    BY <1>4 DEF CreateOnly
  <2> HIDE DEF x
  <2> QED BY <1>a, <2>1, <2>2 DEF Abstract!CreateOnly
<1>5. ASSUME NEW n \in Amounts, ty \in Numeric, Add(n) PROVE Abstract!Add(n) /\ field' # NULL
  <2>1. exists /\ Assign(<<"Add", n>>, Plus(field, n)) /\ ~IsError(Plus(field, n))
    BY <1>5 DEF Add, Assign
  <2>2. field # NONE /\ HeldIn(ty, Plus(field, n)) = Abstract!Plus(Held, n) /\ Plus(field, n) # NULL
    BY <1>0, <1>5, <1>h, <2>1, SumHeld
  <2> QED BY <1>0, <1>a, <1>h, <2>1, <2>2 DEF Abstract!Add
(* What an addition or a concatenation starts from. *)
<1>b. ASSUME NEW d \in Values, ~IsError(Or(field, Encoded(d)))
      PROVE  HeldIn(ty, Or(field, Encoded(d))) = Abstract!Base(d) /\ FieldOf(ty, Or(field, Encoded(d)))
  <2>1. CASE IsError(Encoded(d))
    <3>1. Or(field, Encoded(d)) = field /\ field # NONE
      BY <1>0, <1>b, <2>1 DEF Or
    <3> QED BY <1>0, <1>h, <3>1 DEF Abstract!Base
  <2>2. CASE ~IsError(Encoded(d))
    BY <1>0, <2>2, Meaning
  <2> QED BY <2>1, <2>2
<1>6. ASSUME NEW n \in Amounts, NEW d \in Values, ty \in Numeric, AddOr(n, d)
      PROVE  Abstract!AddOr(n, d) /\ field' # NULL
  <2> DEFINE x == Or(field, Encoded(d))
  <2>1. Assign(<<"AddOr", n, d>>, Plus(x, n)) /\ ~IsError(Plus(x, n))
    BY <1>6 DEF AddOr, Assign
  <2>2. ~IsError(x)
    BY <2>1 DEF Plus, IsError, IsNumber
  <2>3. HeldIn(ty, x) = Abstract!Base(d) /\ FieldOf(ty, x)
    BY <1>b, <2>2
  <2> HIDE DEF x
  <2>4. HeldIn(ty, Plus(x, n)) = Abstract!Plus(Abstract!Base(d), n) /\ Plus(x, n) # NULL
    BY <1>6, <2>1, <2>3, SumHeld
  <2> QED BY <1>a, <2>1, <2>4 DEF Abstract!AddOr
(* What is appended. *)
<1>p. ASSUME NEW v \in Values, ty = "List(U64)", NEW x, ~IsError(Concat(x, Encoded(v)))
      PROVE  HeldIn(ty, Encoded(v)) = v /\ Encoded(v) # NONE /\ FieldOf(ty, Encoded(v))
  <2>1. Encoded(v)[1] = "Array"
    BY <1>0, <1>p, InputAssumption DEF Encoded, to_surreal_with_storage, to_surreal, ValuesOf, IntTypes
  <2> QED BY <1>0, <2>1, Meaning DEF IsError
<1>7. ASSUME NEW v \in Values, ty = "List(U64)", Push(v) PROVE Abstract!Push(v) /\ field' # NULL
  <2>1. exists /\ Assign(<<"Push", v>>, Concat(field, Encoded(v))) /\ ~IsError(Concat(field, Encoded(v)))
    BY <1>7 DEF Push, Assign
  <2>2. HeldIn(ty, Encoded(v)) = v /\ Encoded(v) # NONE /\ FieldOf(ty, Encoded(v))
    BY <1>7, <1>p, <2>1
  <2>3. /\ field # NONE
        /\ HeldIn(ty, Concat(field, Encoded(v))) = Abstract!Join(Held, v)
        /\ Concat(field, Encoded(v)) # NULL
    BY <1>0, <1>7, <1>h, <2>1, <2>2, ConcatHeld
  <2> QED BY <1>0, <1>a, <1>h, <2>1, <2>3 DEF Abstract!Push
<1>8. ASSUME NEW v \in Values, NEW d \in Values, ty = "List(U64)", PushOr(v, d)
      PROVE  Abstract!PushOr(v, d) /\ field' # NULL
  <2> DEFINE x == Or(field, Encoded(d))
  <2>1. Assign(<<"PushOr", v, d>>, Concat(x, Encoded(v))) /\ ~IsError(Concat(x, Encoded(v)))
    BY <1>8 DEF PushOr, Assign
  <2>2. HeldIn(ty, Encoded(v)) = v /\ Encoded(v) # NONE /\ FieldOf(ty, Encoded(v))
    BY <1>8, <1>p, <2>1
  <2>3. ~IsError(x)
    BY <2>1 DEF Concat, IsError
  <2>4. HeldIn(ty, x) = Abstract!Base(d) /\ FieldOf(ty, x)
    BY <1>b, <2>3
  <2> HIDE DEF x
  <2>5. HeldIn(ty, Concat(x, Encoded(v))) = Abstract!Join(Abstract!Base(d), v) /\ Concat(x, Encoded(v)) # NULL
    BY <1>8, <2>1, <2>2, <2>4, ConcatHeld
  <2> QED BY <1>a, <2>1, <2>5 DEF Abstract!PushOr
<1>9. ASSUME Delete PROVE Abstract!Delete /\ field' # NULL
  BY <1>0, <1>9, <1>n, HeldIs DEF Delete, Abstract!Delete
<1>10. ASSUME UNCHANGED vars PROVE UNCHANGED Abstract!vars /\ field' # NULL
  BY <1>0, <1>10, HeldIs DEF vars, Abstract!vars
<1>11. ASSUME Next PROVE Abstract!Next /\ field' # NULL
  <2>1. CASE \E v \in Inputs[ty] : Insert(v) \/ Set(v) \/ CreateOnly(v) \/ SetShared(v)
    BY <1>1, <1>2, <1>3, <1>4, <2>1 DEF Abstract!Next
  <2>2. CASE ty \in Numeric /\ \E n \in Operands : Add(n) \/ \E d \in Values : AddOr(n, d)
    <3>1. Operands \subseteq Amounts
      BY DEF Operands
    <3> QED BY <1>0, <1>5, <1>6, <2>2, <3>1 DEF Abstract!Next
  <2>3. CASE ty = "List(U64)" /\ \E v \in Values : Push(v) \/ \E d \in Values : PushOr(v, d)
    BY <1>0, <1>7, <1>8, <2>3 DEF Abstract!Next
  <2>4. CASE Delete
    BY <1>9, <2>4 DEF Abstract!Next
  <2> QED BY <1>11, <2>1, <2>2, <2>3, <2>4 DEF Next
<1> QED BY <1>10, <1>11

(* A column of any type and any width is a register: no encoding, no default, no
   absent field and no overflow turns an assignment into another one, where no
   JSON null is written and no document holds a number above i64::MAX
   (value.rs:47-177, upsert.rs:92-121, 198-224, update_by_key.rs:35-75).     *)
THEOREM Registers ==
    ASSUME Represented
    PROVE  Spec => ImplementsRegister
<1>1. Init => Abstract!Init /\ RInv
  <2> SUFFICES ASSUME Init PROVE Abstract!Init /\ RInv
    OBVIOUS
  <2>1. SInv /\ field = NONE /\ ty \in ColumnTypes
    BY StoredInit, InputAssumption DEF Init
  <2>2. Held = Null
    BY <2>1, HeldIs, HeldNull DEF SInv
  <2> QED BY <2>1, <2>2 DEF Init, Abstract!Init, Abstract!Null, Null, RInv, NONE, NULL
<1>2. RInv /\ [Next]_vars => RInv' /\ [Abstract!Next]_(Abstract!vars)
  BY RegisterStep, StoredStep DEF RInv
<1> QED BY <1>1, <1>2, PTL DEF Spec, ImplementsRegister, Abstract!Spec

-----------------------------------------------------------------------------
(* Keys has the codec in it once more. *)
LEMMA SameCodec ==
    /\ \A v : Key!to_scalar(v) = to_scalar(v)
    /\ \A v : Key!to_surreal(v) = to_surreal(v)
    /\ \A v : Key!scalar_to_key(v) = scalar_to_key(v)
    /\ \A x, t : Key!from_scalar(x, t) = from_scalar(x, t)
    /\ Key!unsupported_feature = unsupported_feature
<1>1. \A t : Key!IntRange(t) = IntRange(t)
  BY DEF Key!IntRange, IntRange
<1>2. /\ Key!Null = Null /\ Key!NONE = NONE /\ Key!NULL = NULL /\ Key!IntTypes = IntTypes
      /\ Key!unsupported_feature = unsupported_feature
  BY DEF Key!Null, Null, Key!NONE, NONE, Key!NULL, NULL, Key!IntTypes, IntTypes,
         Key!unsupported_feature, unsupported_feature
<1>3. \A n : Key!Number(n) = Number(n)
  BY DEF Key!Number, Number
<1>4. \A v : Key!to_scalar(v) = to_scalar(v)
  BY <1>2, <1>3 DEF Key!to_scalar, to_scalar
<1>5. \A v : Key!to_surreal(v) = to_surreal(v)
  BY <1>2, <1>4 DEF Key!to_surreal, to_surreal
<1>6. \A v : Key!scalar_to_key(v) = scalar_to_key(v)
  BY <1>2 DEF Key!scalar_to_key, scalar_to_key
<1>7. \A t, n : Key!Wrapped(t, n) = Wrapped(t, n)
  BY DEF Key!Wrapped, Wrapped
<1>8. \A x : Key!IsInt(x) = IsInt(x) /\ Key!to_int(x) = to_int(x) /\ Key!to_f64(x) = to_f64(x)
  BY <1>1 DEF Key!IsInt, IsInt, Key!to_int, to_int, Key!to_f64, to_f64
<1>9. \A x : Key!number_to_u64(x) = number_to_u64(x)
  BY <1>1, <1>7 DEF Key!number_to_u64, number_to_u64
<1>10. \A x, t : Key!number_to_stmt(x, t) = number_to_stmt(x, t)
  BY <1>2, <1>7, <1>8, <1>9 DEF Key!number_to_stmt, number_to_stmt
<1>11. \A x, t : Key!from_scalar(x, t) = from_scalar(x, t)
  BY <1>2, <1>10 DEF Key!from_scalar, from_scalar
<1> QED BY <1>2, <1>4, <1>5, <1>6, <1>11

(* A set of naturals has a least element. *)
LEMMA Least ==
    ASSUME NEW T, T \subseteq Nat, T # {}
    PROVE  \E x \in T : \A y \in T : x <= y
<1> DEFINE R == StrictSubsetOrdering(Nat)
           C == {0..n : n \in T}
<1>1. IsWellFoundedOn(R, FiniteSubsetsOf(Nat))
  BY FS_StrictSubsetOrderingWellFounded
<1>2. C \subseteq FiniteSubsetsOf(Nat) /\ C # {}
  <2>1. ASSUME NEW n \in T PROVE 0..n \in FiniteSubsetsOf(Nat)
    <3>1. IsFiniteSet(0..n)
      BY FS_Interval
    <3> QED BY <3>1 DEF FiniteSubsetsOf
  <2> QED BY <2>1
<1>3. PICK c \in C : \A d \in C : <<d, c>> \notin R
  <2> HIDE DEF R, C
  <2> QED BY <1>1, <1>2, WFMin
<1>4. PICK x \in T : c = 0..x
  OBVIOUS
<1>5. ASSUME NEW y \in T, ~(x <= y)
      PROVE  FALSE
  <2>1. 0..y \in SUBSET Nat /\ 0..x \in SUBSET Nat /\ 0..y \subseteq 0..x /\ 0..y # 0..x
    <3>1. x \in 0..x /\ x \notin 0..y /\ 0..y \subseteq 0..x
      BY <1>5
    <3> QED BY <3>1
  <2>2. <<0..y, c>> \in R
    BY <2>1, <1>4 DEF StrictSubsetOrdering
  <2> QED BY <2>2, <1>3
<1> QED BY <1>5


(* Permutations of 1..n. *)
Perms(n) == {o \in [1..n -> 1..n] : \A i, j \in 1..n : o[i] = o[j] => i = j}

LEMMA Onto ==
    ASSUME NEW n \in Nat, NEW o \in Perms(n), NEW j \in 1..n
    PROVE  \E i \in 1..n : o[i] = j
<1>1. IsFiniteSet(1..n)
  BY FS_Interval
<1>2. o \in Injection(1..n, 1..n)
  BY DEF Perms, Injection, IsInjective
<1>3. o \in Surjection(1..n, 1..n)
  BY <1>1, <1>2, FS_Injection
<1> QED BY <1>3 DEF Surjection

(* The only one that sorts is the identity. *)
LEMMA SortedIsIdentity ==
    ASSUME NEW n \in Nat, NEW c \in Perms(n),
           \A i, j \in 1..n : i < j => c[i] <= c[j]
    PROVE  \A i \in 1..n : c[i] = i
<1> DEFINE T == {i \in 1..n : c[i] # i}
<1> SUFFICES ASSUME T # {} PROVE FALSE
  OBVIOUS
<1>1. PICK i \in T : \A y \in T : i <= y
  <2>1. T \subseteq Nat
    OBVIOUS
  <2> HIDE DEF T
  <2> QED BY <2>1, Least
<1>2. i \in 1..n /\ c[i] # i /\ c[i] \in 1..n
  BY DEF Perms
<1>3. \A j \in 1..n : j < i => c[j] = j
  BY <1>1
<1>4. PICK m \in 1..n : c[m] = i
  BY <1>2, Onto
<1>5. m > i
  BY <1>2, <1>3, <1>4
<1>6. c[i] < i
  BY <1>2, <1>4, <1>5
<1>7. c[c[i]] = c[i]
  BY <1>2, <1>3, <1>6
<1> QED BY <1>2, <1>7 DEF Perms

SortOf(n, pairs) == CHOOSE p \in Perms(n) : \A i, j \in 1..n :
                        i < j => pairs[p[i]][1] <= pairs[p[j]][1]

LEMMA Sorts ==
    ASSUME NEW n \in Nat, NEW o \in Perms(n), NEW pairs,
           \A i \in 1..n : pairs[i][1] = o[i]
    PROVE  \A i \in 1..n : SortOf(n, pairs)[i] \in 1..n /\ o[SortOf(n, pairs)[i]] = i
<1> DEFINE Sorted(p) == \A i, j \in 1..n : i < j => pairs[p[i]][1] <= pairs[p[j]][1]
           q == [j \in 1..n |-> CHOOSE i \in 1..n : o[i] = j]
           s == CHOOSE p \in Perms(n) : Sorted(p)
<1>1. \A j \in 1..n : q[j] \in 1..n /\ o[q[j]] = j
  BY Onto
<1>2. q \in Perms(n)
  <2>1. q = [j \in 1..n |-> q[j]]
    OBVIOUS
  <2> HIDE DEF q
  <2> QED BY <1>1, <2>1 DEF Perms
<1>3. Sorted(q)
  <2> HIDE DEF q
  <2> QED BY <1>1
<1>4. s \in Perms(n) /\ Sorted(s)
  <2> HIDE DEF Sorted, q
  <2> QED BY <1>2, <1>3
<1> DEFINE c == [i \in 1..n |-> o[s[i]]]
<1>5. c \in Perms(n) /\ \A i \in 1..n : s[i] \in 1..n
  <2> HIDE DEF s, Sorted
  <2> QED BY <1>4 DEF Perms
<1>6. \A i, j \in 1..n : i < j => c[i] <= c[j]
  <2> HIDE DEF s
  <2> QED BY <1>4, <1>5
<1>7. \A i \in 1..n : c[i] = i
  <2> HIDE DEF c
  <2> QED BY <1>5, <1>6, SortedIsIdentity
<1> HIDE DEF s
<1>8. \A i \in 1..n : s[i] \in 1..n /\ o[s[i]] = i
  BY <1>5, <1>7
<1> QED BY <1>8 DEF s, SortOf

-----------------------------------------------------------------------------
(* The record id of the key k of a table with the key columns ks. *)
Rid(ks, k) == IF Len(ks) = 1 THEN scalar_to_key(k[1])
              ELSE <<"Array", [i \in DOMAIN k |-> to_surreal(k[i])]>>

LEMMA KeyFacts ==
    ASSUME NEW ks \in Keyings, NEW k \in Key!KeysOf(ks)
    PROVE  /\ Len(ks) \in Nat /\ Len(ks) >= 1
           /\ DOMAIN ks = 1..Len(ks) /\ DOMAIN k = 1..Len(ks) /\ Len(k) = Len(ks)
           /\ k = [i \in 1..Len(ks) |-> k[i]]
           /\ \A i \in 1..Len(ks) : /\ ks[i] \in IntTypes \cup {"String"}
                                    /\ k[i] \in ValuesOf(ks[i])
<1>1. ks \in Seq(DOMAIN KeyValues) /\ ks # <<>>
  BY KeyAssumption
<1>2. Len(ks) \in Nat /\ Len(ks) >= 1 /\ DOMAIN ks = 1..Len(ks)
  BY <1>1
<1>3. \A i \in 1..Len(ks) : ks[i] \in DOMAIN KeyValues
  BY <1>1
<1> DEFINE U == UNION {KeyValues[ks[i]] : i \in DOMAIN ks}
<1>4. k \in [1..Len(ks) -> U] /\ \A i \in 1..Len(ks) : k[i] \in KeyValues[ks[i]]
  BY <1>2 DEF Key!KeysOf
<1> HIDE DEF U
<1>5. k \in Seq(U) /\ Len(k) = Len(ks)
  BY <1>2, <1>4
<1>6. \A i \in 1..Len(ks) : /\ ks[i] \in IntTypes \cup {"String"}
                            /\ k[i] \in ValuesOf(ks[i])
  BY <1>3, <1>4, KeyAssumption
<1>7. k = [i \in 1..Len(ks) |-> k[i]] /\ DOMAIN k = 1..Len(ks)
  BY <1>4
<1> QED BY <1>2, <1>5, <1>6, <1>7

(* A column of a key reads back, from the id of a table with one or with more. *)
LEMMA KeyColumnBack ==
    ASSUME NEW t \in IntTypes \cup {"String"}, NEW v \in ValuesOf(t)
    PROVE  /\ v[1] # "Record"
           /\ from_scalar(to_surreal(v), t) = v /\ to_surreal(v)[1] \notin {"Array", "Object"}
           /\ scalar_to_key(v) # unsupported_feature =>
                  from_scalar(scalar_to_key(v), t) = v /\ scalar_to_key(v)[1] \notin {"Array", "Object"}
<1>1. CASE t \in IntTypes
  <2>1. PICK n \in IntRange(t) : v = <<t, n>>
    BY <1>1 DEF ValuesOf, Ints, IntTypes
  <2>2. to_surreal(v) = Number(n) /\ t # "Json"
    BY <1>1, <2>1 DEF to_surreal, to_scalar, IntTypes, Null
  <2>3. Number(n)[1] \in {"Int", "Decimal"}
    BY DEF Number
  <2>4. from_surreal(Number(n), t) = <<t, n>>
    <3>1. from_surreal_with_storage(to_surreal_with_storage(<<t, n>>, t), t) = <<t, n>>
      BY <1>1, RoundTrip
    <3> QED BY <2>1, <2>2, <3>1 DEF from_surreal_with_storage, to_surreal_with_storage
  <2>5. from_surreal(Number(n), t) = from_scalar(Number(n), t)
    BY <2>3 DEF from_surreal
  <2>6. ASSUME scalar_to_key(v) # unsupported_feature PROVE scalar_to_key(v) = Number(n)
    BY <1>1, <2>1, <2>6 DEF scalar_to_key, Number, IntTypes
  <2> QED BY <1>1, <2>1, <2>2, <2>3, <2>4, <2>5, <2>6 DEF IntTypes
<1>2. CASE t = "String"
  <2>1. v[1] = "String" /\ v # NONE /\ v # NULL /\ v # Null
    BY <1>2 DEF ValuesOf, IntTypes, Texts, NONE, NULL, Null
  <2>2. to_surreal(v) = v /\ scalar_to_key(v) = v
    BY <2>1 DEF to_surreal, to_scalar, scalar_to_key, IntTypes
  <2>3. from_scalar(v, t) = v
    BY <1>2, <2>1 DEF from_scalar
  <2> QED BY <2>1, <2>2, <2>3
<1> QED BY <1>1, <1>2

(* Whatever the form of a key, it has one record id. *)
LEMMA FormRid ==
    ASSUME NEW ks \in Keyings, NEW k \in Key!KeysOf(ks), NEW form \in Key!Forms(k)
    PROVE  Key!record_id_key(form, Len(ks)) = Rid(ks, k)
<1>1. CASE form = <<"Record", k>>
  <2>1. form[1] = "Record" /\ form[2] = k
    BY <1>1
  <2>2. Len(ks) \in Nat /\ Len(ks) >= 1
    BY KeyFacts
  <2>3. Len(ks) <= 1 <=> Len(ks) = 1
    <3>1. \A n \in Nat : n >= 1 => (n <= 1 <=> n = 1)
      OBVIOUS
    <3> QED BY <2>2, <3>1, Zenon
  <2>4. Key!record_id_key(form, Len(ks)) =
            IF Len(ks) = 1 THEN Key!scalar_to_key(k[1])
            ELSE <<"Array", [i \in DOMAIN k |-> Key!to_surreal(k[i])]>>
    <3>1. CASE Len(ks) = 1
      <4>1. k # << >>
        <5>1. DOMAIN k = 1..Len(ks)
          BY KeyFacts
        <5>2. DOMAIN k = {1}
          BY <3>1, <5>1
        <5> QED BY <5>2
      <4> QED BY <2>1, <2>3, <3>1, <4>1 DEF Key!record_id_key
    <3>2. CASE Len(ks) # 1
      <4>1. Key!record_id_key(form, Len(ks)) =
                <<"Array", [i \in DOMAIN form[2] |-> Key!to_surreal(form[2][i])]>>
        BY <2>1, <2>3, <3>2 DEF Key!record_id_key
      <4> QED BY <2>1, <3>2, <4>1
    <3> QED BY <3>1, <3>2
  <2>5. [i \in DOMAIN k |-> Key!to_surreal(k[i])] = [i \in DOMAIN k |-> to_surreal(k[i])]
    BY SameCodec
  <2>6. Key!scalar_to_key(k[1]) = scalar_to_key(k[1])
    BY SameCodec
  <2> QED BY <2>4, <2>5, <2>6 DEF Rid
<1>2. CASE Len(k) = 1 /\ form = k[1]
  <2>1. Len(ks) = 1 /\ k[1][1] # "Record"
    BY <1>2, KeyFacts, KeyColumnBack
  <2> QED BY <1>2, <2>1, SameCodec DEF Key!record_id_key, Rid
<1> QED BY <1>1, <1>2 DEF Key!Forms

(* The columns of a row may be listed in any order. *)
LEMMA OrderForm ==
    ASSUME types \in Keyings, NEW k \in Key!KeysOf(types), NEW order \in Key!Orders
    PROVE  Key!pk_to_value([i \in 1..Key!Arity |-> <<order[i], k[order[i]]>>]) \in Key!Forms(k)
<1> DEFINE n == Len(types)
           pairs == [i \in 1..n |-> <<order[i], k[order[i]]>>]
           s == SortOf(n, pairs)
           values == [i \in 1..n |-> pairs[s[i]][2]]
<1>1. Key!Arity = n /\ n \in Nat /\ n >= 1 /\ Key!Orders = Perms(n) /\ order \in Perms(n)
  BY KeyFacts DEF Key!Arity, Key!Orders, Perms
<1>2. \A i \in 1..n : pairs[i][1] = order[i] /\ pairs[i][2] = k[order[i]]
  OBVIOUS
<1>3. \A i \in 1..n : s[i] \in 1..n /\ order[s[i]] = i
  <2> HIDE DEF pairs, n
  <2> QED BY <1>1, <1>2, Sorts
<1>4. Key!pk_to_value(pairs) = IF Len(pairs) = 1 THEN values[1] ELSE <<"Record", values>>
  BY <1>1 DEF Key!pk_to_value, SortOf
<1>5. Len(pairs) = n
  BY <1>1
<1> HIDE DEF s
<1>6. \A i \in 1..n : values[i] = k[i]
  BY <1>2, <1>3
<1>7. values = k
  <2>1. values = [i \in 1..n |-> values[i]] /\ k = [i \in 1..n |-> k[i]]
    BY KeyFacts
  <2> HIDE DEF values
  <2> QED BY <1>6, <2>1
<1>8. Key!pk_to_value(pairs) \in Key!Forms(k)
  <2>1. Len(k) = n
    BY KeyFacts
  <2> HIDE DEF pairs, values
  <2> QED BY <1>1, <1>4, <1>5, <1>7, <2>1 DEF Key!Forms
<1> QED BY <1>1, <1>8

(* The columns of a key read back from its record id. *)
LEMMA KeyBack ==
    ASSUME types \in Keyings, NEW k \in Key!KeysOf(types), Rid(types, k) # unsupported_feature
    PROVE  Key!KeyRead(Rid(types, k)) = k
<1> DEFINE n == Len(types)
           rid == Rid(types, k)
<1>1. n \in Nat /\ n >= 1 /\ Key!Arity = n /\ DOMAIN k = 1..n /\ k = [i \in 1..n |-> k[i]]
  BY KeyFacts DEF Key!Arity
<1>2. \A x, t : x[1] \notin {"Array", "Object"} => Key!from_surreal(x, t) = from_scalar(x, t)
  BY SameCodec DEF Key!from_surreal
<1>3. ASSUME NEW j \in 1..n
      PROVE  Key!from_surreal(Key!key_column(rid, n, j), types[j]) = k[j]
  <2>1. types[j] \in IntTypes \cup {"String"} /\ k[j] \in ValuesOf(types[j])
    BY KeyFacts
  <2>2. CASE n = 1
    <3>1. rid = scalar_to_key(k[j]) /\ Key!key_column(rid, n, j) = rid
      BY <2>2 DEF Rid, Key!key_column
    <3>2. from_scalar(rid, types[j]) = k[j] /\ rid[1] \notin {"Array", "Object"}
      BY <2>1, <3>1, KeyColumnBack
    <3> QED BY <1>2, <3>1, <3>2
  <2>3. CASE n # 1
    <3>1. rid[2] = [i \in DOMAIN k |-> to_surreal(k[i])]
      BY <2>3 DEF Rid
    <3>2. Key!key_column(rid, n, j) = to_surreal(k[j])
      BY <1>1, <2>3, <3>1 DEF Key!key_column
    <3>3. from_scalar(to_surreal(k[j]), types[j]) = k[j] /\ to_surreal(k[j])[1] \notin {"Array", "Object"}
      BY <2>1, KeyColumnBack
    <3> QED BY <1>2, <3>2, <3>3
  <2> QED BY <2>2, <2>3
<1>4. Key!KeyRead(rid) = [j \in 1..n |-> Key!from_surreal(Key!key_column(rid, n, j), types[j])]
  BY <1>1 DEF Key!KeyRead
<1> HIDE DEF rid
<1>5. [j \in 1..n |-> Key!from_surreal(Key!key_column(rid, n, j), types[j])] = [j \in 1..n |-> k[j]]
  BY <1>3
<1>6. Key!KeyRead(rid) = k
  BY <1>1, <1>4, <1>5
<1> QED BY <1>6 DEF rid

-----------------------------------------------------------------------------
(* The rows are those of the keys that are known, none of which was refused. *)
Keyed ==
    /\ known \subseteq Key!KeysOf(types) /\ IsFiniteSet(known)
    /\ \A k \in known : Rid(types, k) # unsupported_feature
    /\ rows = {Rid(types, k) : k \in known}
KInv == \/ types = NoKey /\ rows = {} /\ known = {}
        \/ types \in Keyings /\ Keyed

(* What a call with the key k does, in any form and with any order of columns. *)
Handled(k, rid) ==
    /\ types' = types /\ asked'[2] = k
    /\ \/ /\ rid = unsupported_feature /\ answer' = "unsupported_feature"
          /\ rows' = rows /\ known' = known
       \/ /\ rid # unsupported_feature /\ rid \notin rows
          /\ asked'[1] = "Insert" /\ answer' = "ok"
          /\ rows' = rows \cup {rid} /\ known' = known \cup {k}
       \/ /\ rid # unsupported_feature /\ rid \in rows
          /\ asked'[1] = "Insert" /\ answer' = "condition_failed"
          /\ rows' = rows /\ known' = known
       \/ /\ rid # unsupported_feature
          /\ asked'[1] = "Delete" /\ answer' = (IF rid \in rows THEN "ok" ELSE "none")
          /\ rows' = rows \ {rid} /\ known' = known \ {k}
       \/ /\ rid # unsupported_feature
          /\ asked'[1] = "Get" /\ answer' = (IF rid \in rows THEN "ok" ELSE "none")
          /\ rows' = rows /\ known' = known

LEMMA KeyStep ==
    ASSUME types \in Keyings, Key!Next
    PROVE  \E k \in Key!KeysOf(types) : Handled(k, Rid(types, k))
<1>0. Key!unsupported_feature = unsupported_feature /\ Key!Arity = Len(types)
  BY SameCodec DEF Key!Arity
<1>1. PICK k \in Key!KeysOf(types) :
          \/ \E order \in Key!Orders : Key!Insert(k, order)
          \/ \E form \in Key!Forms(k) : Key!Delete(k, form) \/ Key!Get(k, form)
  BY DEF Key!Next
<1>2. ASSUME NEW order \in Key!Orders, Key!Insert(k, order) PROVE Handled(k, Rid(types, k))
  <2> DEFINE form == Key!pk_to_value([i \in 1..Key!Arity |-> <<order[i], k[order[i]]>>])
  <2>1. form \in Key!Forms(k)
    BY OrderForm
  <2>2. Key!record_id_key(form, Key!Arity) = Rid(types, k)
    <3> HIDE DEF form
    <3> QED BY <1>0, <2>1, FormRid
  <2>3. /\ \/ Key!Refused("Insert", k, Rid(types, k))
           \/ /\ Rid(types, k) # Key!unsupported_feature /\ Rid(types, k) \notin rows
              /\ rows' = rows \cup {Rid(types, k)} /\ known' = known \cup {k}
              /\ Key!Answer("Insert", k, "ok")
           \/ /\ Rid(types, k) # Key!unsupported_feature /\ Rid(types, k) \in rows
              /\ Key!Answer("Insert", k, "condition_failed")
              /\ UNCHANGED <<rows, known>>
        /\ UNCHANGED types
    BY <1>2, <2>2 DEF Key!Insert
  <2> QED BY <1>0, <2>3 DEF Handled, Key!Refused, Key!Answer
<1>3. ASSUME NEW form \in Key!Forms(k), Key!Delete(k, form) PROVE Handled(k, Rid(types, k))
  <2>1. Key!record_id_key(form, Key!Arity) = Rid(types, k)
    BY <1>0, FormRid
  <2> QED BY <1>0, <1>3, <2>1 DEF Key!Delete, Handled, Key!Refused, Key!Answer
<1>4. ASSUME NEW form \in Key!Forms(k), Key!Get(k, form) PROVE Handled(k, Rid(types, k))
  <2>1. Key!record_id_key(form, Key!Arity) = Rid(types, k)
    BY <1>0, FormRid
  <2> QED BY <1>0, <1>4, <2>1 DEF Key!Get, Handled, Key!Refused, Key!Answer
<1> QED BY <1>1, <1>2, <1>3, <1>4

(* Different keys have different record ids. *)
LEMMA RidDistinct ==
    ASSUME types \in Keyings, NEW k \in Key!KeysOf(types), NEW l \in Key!KeysOf(types),
           Rid(types, k) # unsupported_feature, Rid(types, k) = Rid(types, l)
    PROVE  k = l
<1>1. Key!KeyRead(Rid(types, k)) = k /\ Key!KeyRead(Rid(types, l)) = l
  BY KeyBack
<1> QED BY <1>1

(* A row is there exactly when its key is known. *)
LEMMA RowThere ==
    ASSUME types \in Keyings, Keyed, NEW k \in Key!KeysOf(types), Rid(types, k) # unsupported_feature
    PROVE  Rid(types, k) \in rows <=> k \in known
  BY RidDistinct DEF Keyed

LEMMA KeysInit == RowInit => KInv
<1>1. CASE types = NoKey /\ rows = {} /\ known = {}
  BY <1>1 DEF KInv
<1>2. CASE Key!Init
  BY <1>2, FS_EmptySet DEF Key!Init, KInv, Keyed
<1> QED BY <1>1, <1>2 DEF RowInit

LEMMA KeysStep == KInv /\ [RowNext]_<<vars, keyvars>> => KInv'
<1> SUFFICES ASSUME KInv, [RowNext]_<<vars, keyvars>> PROVE KInv'
  OBVIOUS
<1>1. CASE UNCHANGED keyvars
  BY <1>1 DEF keyvars, KInv, Keyed, NoKey, Rid, Key!KeysOf
<1>2. CASE types # NoKey /\ Key!Next
  <2>1. types \in Keyings /\ Keyed
    BY <1>2 DEF KInv
  <2>2. PICK k \in Key!KeysOf(types) : Handled(k, Rid(types, k))
    BY <1>2, <2>1, KeyStep
  <2> DEFINE rid == Rid(types, k)
  <2>3. types' = types
    BY <2>2 DEF Handled
  <2>4. rows' = rows /\ known' = known => Keyed'
    BY <2>1, <2>3 DEF Keyed
  <2>5. ASSUME rid # unsupported_feature, rows' = rows \cup {rid}, known' = known \cup {k}
        PROVE  Keyed'
    <3>1. IsFiniteSet(known')
      BY <2>1, <2>5, FS_AddElement DEF Keyed
    <3>2. rows' = {Rid(types, l) : l \in known'}
      BY <2>1, <2>5 DEF Keyed
    <3> QED BY <2>1, <2>3, <2>5, <3>1, <3>2 DEF Keyed
  <2>6. ASSUME rid # unsupported_feature, rows' = rows \ {rid}, known' = known \ {k}
        PROVE  Keyed'
    <3>1. IsFiniteSet(known')
      BY <2>1, <2>6, FS_RemoveElement DEF Keyed
    <3>2. \A l \in known : Rid(types, l) = rid => l = k
      BY <2>1, <2>6, RidDistinct DEF Keyed
    <3>3. rows' = {Rid(types, l) : l \in known'}
      BY <2>1, <2>6, <3>2 DEF Keyed
    <3> QED BY <2>1, <2>3, <2>6, <3>1, <3>3 DEF Keyed
  <2>7. Keyed'
    BY <2>2, <2>4, <2>5, <2>6 DEF Handled
  <2> QED BY <2>1, <2>3, <2>7 DEF KInv
<1> QED BY <1>1, <1>2 DEF RowNext, keyvars

(* The rows of a table are those of the keys that were inserted and not deleted. *)
THEOREM KeysKept == RowSpec => []KInv
  BY KeysInit, KeysStep, PTL DEF RowSpec

(* Keys of any arity, of integers of any width and text, read back as they were
   written, one row each (insert.rs:119-150, record_id.rs:32-53, op.rs:28-42). *)
THEOREM KeysRead == RowSpec => []KeysReadBack
<1>1. KInv => KeysReadBack
  <2>1. CASE types = NoKey /\ rows = {} /\ known = {}
    BY <2>1 DEF KeysReadBack, Key!KeysReadBack
  <2>2. CASE types \in Keyings /\ Keyed
    <3>1. \A k \in known : Key!KeyRead(Rid(types, k)) = k
      BY <2>2, KeyBack DEF Keyed
    <3>2. {Key!KeyRead(rid) : rid \in rows} = known
      BY <2>2, <3>1 DEF Keyed
    <3> DEFINE f == [k \in known |-> Rid(types, k)]
    <3>3. f \in Bijection(known, rows)
      <4>1. f \in [known -> rows] /\ \A r \in rows : \E k \in known : f[k] = r
        BY <2>2 DEF Keyed
      <4>2. \A k, l \in known : f[k] = f[l] => k = l
        BY <3>1
      <4> HIDE DEF f
      <4> QED BY <4>1, <4>2 DEF Bijection, Injection, Surjection, IsInjective
    <3>4. Cardinality(rows) = Cardinality(known)
      <4> HIDE DEF f
      <4> QED BY <2>2, <3>3, FS_Bijection DEF Keyed, ExistsBijection
    <3>5. \A S : Key!Cardinality(S) = Cardinality(S)
      BY DEF Key!Cardinality, Cardinality
    <3> QED BY <3>2, <3>4, <3>5 DEF KeysReadBack, Key!KeysReadBack
  <2> QED BY <2>1, <2>2 DEF KInv
<1> QED BY <1>1, KeysKept, PTL

(* A key is found, and refused as a duplicate, exactly when its row is there, in
   whatever form it is handed over (record_id.rs:34-47).                      *)
THEOREM KeysFound == RowSpec => FoundWhenThere
<1> DEFINE Right == answer' # "unsupported_feature" =>
                (answer' = "ok" <=> IF asked'[1] = "Insert" THEN asked'[2] \notin known
                                    ELSE asked'[2] \in known)
<1>1. KInv /\ [RowNext]_<<vars, keyvars>> => [Right]_(Key!vars)
  <2> SUFFICES ASSUME KInv, [RowNext]_<<vars, keyvars>> PROVE [Right]_(Key!vars)
    OBVIOUS
  <2>1. CASE UNCHANGED keyvars
    BY <2>1 DEF keyvars, Key!vars
  <2>2. CASE types # NoKey /\ Key!Next
    <3>1. types \in Keyings /\ Keyed
      BY <2>2 DEF KInv
    <3>2. PICK k \in Key!KeysOf(types) : Handled(k, Rid(types, k))
      BY <2>2, <3>1, KeyStep
    <3>3. Rid(types, k) # unsupported_feature => (Rid(types, k) \in rows <=> k \in known)
      BY <3>1, RowThere
    <3>4. Right
      BY <3>2, <3>3 DEF Handled
    <3> QED BY <3>4
  <2> QED BY <2>1, <2>2 DEF RowNext, keyvars
<1> QED BY <1>1, KeysKept, PTL DEF RowSpec, FoundWhenThere, Key!FoundWhenThere

(* What is proved of a column holds of the columns of a row. *)
THEOREM RowIsColumn == RowSpec => Spec
<1>1. RowInit => Init
  BY DEF RowInit
<1>2. [RowNext]_<<vars, keyvars>> => [Next]_vars
  BY DEF RowNext, vars
<1> QED BY <1>1, <1>2, PTL DEF RowSpec, Spec
=============================================================================
