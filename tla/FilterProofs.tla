----------------------------- MODULE FilterProofs -----------------------------
(***************************************************************************)
(* Where the operands of every comparison are of the same kind and every   *)
(* record holds values of the types of its columns, a query selects the    *)
(* rows that its filters mean, however they are nested.                    *)
(***************************************************************************)
EXTENDS Filter, FiniteSetTheorems, TLAPS

-----------------------------------------------------------------------------
(* The recursive functions.  A set of naturals has a least element. *)
LEMMA Least ==
    ASSUME NEW T, T \subseteq Nat, T # {}
    PROVE  \E x \in T : \A y \in T : x <= y
<1> DEFINE R == StrictSubsetOrdering(Nat)
           C == {0..n : n \in T}
<1>1. IsWellFoundedOn(R, FiniteSubsetsOf(Nat))
  BY FS_StrictSubsetOrderingWellFounded
<1>2. C \subseteq FiniteSubsetsOf(Nat) /\ C # {}
  <2>1. ASSUME NEW n \in T PROVE 0..n \in FiniteSubsetsOf(Nat)
    <3>1. IsFiniteSet(0..n)
      BY FS_Interval
    <3> QED BY <3>1 DEF FiniteSubsetsOf
  <2> QED BY <2>1
<1>3. PICK c \in C : \A d \in C : <<d, c>> \notin R
  <2> HIDE DEF R, C
  <2> QED BY <1>1, <1>2, WFMin
<1>4. PICK x \in T : c = 0..x
  OBVIOUS
<1>5. ASSUME NEW y \in T, ~(x <= y)
      PROVE  FALSE
  <2>1. 0..y \in SUBSET Nat /\ 0..x \in SUBSET Nat /\ 0..y \subseteq 0..x /\ 0..y # 0..x
    <3>1. x \in 0..x /\ x \notin 0..y /\ 0..y \subseteq 0..x
      BY <1>5
    <3> QED BY <3>1
  <2>2. <<0..y, c>> \in R
    BY <2>1, <1>4 DEF StrictSubsetOrdering
  <2> QED BY <2>2, <1>3
<1> QED BY <1>5

Below(n) == {e \in Exprs : Height[e] < n}

LEMMA Layers ==
    /\ Below(0) = {} /\ Below(Depth + 1) = Exprs
    /\ \A n \in Nat \ {0} : \A e \in Below(n) : Parts(e) \subseteq Below(n - 1)
    /\ \A n \in Nat \ {0} : Below(n - 1) \subseteq Below(n)
<1>1. \A e \in Exprs : Height[e] \in 0..Depth
  BY ExprAssumption
<1>2. \A e \in Exprs : \A d \in Parts(e) : d \in Exprs /\ Height[d] < Height[e]
  BY ExprAssumption
<1>3. Depth \in Nat
  BY ExprAssumption
<1> QED BY <1>1, <1>2, <1>3 DEF Below

(* Every expression has one rendering, made of those of its parts. *)
LEMMA RenderIs == render = [e \in Exprs |-> RenderedBy([d \in Parts(e) |-> render[d]], e)]
<1> DEFINE Body(f, e) == RenderedBy([d \in Parts(e) |-> f[d]], e)
           T == {n \in Nat : \A f : f # [e \in Below(n) |-> Body(f, e)]}
<1>1. T = {}
  <2> SUFFICES ASSUME T # {} PROVE FALSE
    OBVIOUS
  <2>1. PICK n \in T : \A y \in T : n <= y
    <3>1. T \subseteq Nat
      OBVIOUS
    <3> HIDE DEF T
    <3> QED BY <3>1, Least
  <2> HIDE DEF Body
  <2>2. n # 0
    <3> SUFFICES ASSUME n = 0 PROVE FALSE
      OBVIOUS
    <3> DEFINE f == [e \in {} |-> e]
    <3>1. f = [e \in Below(0) |-> Body(f, e)]
      BY Layers
    <3> QED BY <2>1, <3>1
  <2>3. n - 1 \in Nat /\ n - 1 \notin T
    BY <2>1, <2>2
  <2>4. PICK f : f = [e \in Below(n - 1) |-> Body(f, e)]
    BY <2>3
  <2> DEFINE g == [e \in Below(n) |-> Body(f, e)]
  <2>5. ASSUME NEW e \in Below(n) PROVE Body(g, e) = Body(f, e)
    <3>1. \A d \in Parts(e) : d \in Below(n - 1) /\ d \in Below(n)
      BY <2>1, <2>2, Layers
    <3>2. \A d \in Parts(e) : g[d] = f[d]
      BY <2>4, <3>1
    <3> HIDE DEF g
    <3>3. [d \in Parts(e) |-> g[d]] = [d \in Parts(e) |-> f[d]]
      BY <3>2
    <3> QED BY <3>3 DEF Body
  <2>6. g = [e \in Below(n) |-> Body(g, e)]
    BY <2>5
  <2> HIDE DEF g
  <2> QED BY <2>1, <2>6
<1> HIDE DEF Body
<1>2. Depth + 1 \in Nat /\ Below(Depth + 1) = Exprs
  BY Layers, ExprAssumption
<1>3. \E f : f = [e \in Exprs |-> Body(f, e)]
  BY <1>1, <1>2
<1>4. render = CHOOSE f : f = [e \in Exprs |-> Body(f, e)]
  BY DEF render, Body
<1>5. render = [e \in Exprs |-> Body(render, e)]
  BY <1>3, <1>4
<1> QED BY <1>5 DEF Body

(* And one meaning, made of those of its parts. *)
LEMMA MeansIs == means = [e \in Exprs |-> MeantBy([d \in Parts(e) |-> means[d]], e)]
<1> DEFINE Body(f, e) == MeantBy([d \in Parts(e) |-> f[d]], e)
           T == {n \in Nat : \A f : f # [e \in Below(n) |-> Body(f, e)]}
<1>1. T = {}
  <2> SUFFICES ASSUME T # {} PROVE FALSE
    OBVIOUS
  <2>1. PICK n \in T : \A y \in T : n <= y
    <3>1. T \subseteq Nat
      OBVIOUS
    <3> HIDE DEF T
    <3> QED BY <3>1, Least
  <2> HIDE DEF Body
  <2>2. n # 0
    <3> SUFFICES ASSUME n = 0 PROVE FALSE
      OBVIOUS
    <3> DEFINE f == [e \in {} |-> e]
    <3>1. f = [e \in Below(0) |-> Body(f, e)]
      BY Layers
    <3> QED BY <2>1, <3>1
  <2>3. n - 1 \in Nat /\ n - 1 \notin T
    BY <2>1, <2>2
  <2>4. PICK f : f = [e \in Below(n - 1) |-> Body(f, e)]
    BY <2>3
  <2> DEFINE g == [e \in Below(n) |-> Body(f, e)]
  <2>5. ASSUME NEW e \in Below(n) PROVE Body(g, e) = Body(f, e)
    <3>1. \A d \in Parts(e) : d \in Below(n - 1) /\ d \in Below(n)
      BY <2>1, <2>2, Layers
    <3>2. \A d \in Parts(e) : g[d] = f[d]
      BY <2>4, <3>1
    <3> HIDE DEF g
    <3>3. [d \in Parts(e) |-> g[d]] = [d \in Parts(e) |-> f[d]]
      BY <3>2
    <3> QED BY <3>3 DEF Body
  <2>6. g = [e \in Below(n) |-> Body(g, e)]
    BY <2>5
  <2> HIDE DEF g
  <2> QED BY <2>1, <2>6
<1> HIDE DEF Body
<1>2. Depth + 1 \in Nat /\ Below(Depth + 1) = Exprs
  BY Layers, ExprAssumption
<1>3. \E f : f = [e \in Exprs |-> Body(f, e)]
  BY <1>1, <1>2
<1>4. means = CHOOSE f : f = [e \in Exprs |-> Body(f, e)]
  BY DEF means, Body
<1>5. means = [e \in Exprs |-> Body(means, e)]
  BY <1>3, <1>4
<1> QED BY <1>5 DEF Body

(* What holds of an expression when it holds of those less deep holds of all. *)
LEMMA Induction ==
    ASSUME NEW P, P \subseteq Exprs, NEW Q,
           \A e \in P : (\A d \in P : Height[d] < Height[e] => d \in Q) => e \in Q
    PROVE  P \subseteq Q
<1> DEFINE T == {Height[e] : e \in P \ Q}
<1> SUFFICES ASSUME P \ Q # {} PROVE FALSE
  OBVIOUS
<1>1. \A e \in P : Height[e] \in Nat
  BY ExprAssumption
<1>2. PICK n \in T : \A y \in T : n <= y
  <2>1. T \subseteq Nat /\ T # {}
    BY <1>1
  <2> HIDE DEF T
  <2> QED BY <2>1, Least
<1>3. PICK e \in P \ Q : n = Height[e]
  BY <1>2
<1>4. ASSUME NEW d \in P, Height[d] < Height[e] PROVE d \in Q
  <2> SUFFICES ASSUME d \notin Q PROVE FALSE
    OBVIOUS
  <2>1. Height[d] \in T
    OBVIOUS
  <2> HIDE DEF T
  <2> QED BY <1>1, <1>2, <1>3, <1>4, <2>1
<1> QED BY <1>3, <1>4

-----------------------------------------------------------------------------
(* What a value of the database stands for.  An integer of either width; what is
   stored as it is; a JSON value; a list of these.                           *)
Scalar(j)    == \/ j = <<"Null">>
                \/ \E b \in BOOLEAN : j = <<"Bool", b>>
                \/ \E n \in Int : j = <<"Num", n>>
                \/ \E s : j = <<"String", s>>
JsonValue(j) == \/ Scalar(j)
                \/ \E f : j = <<"Object", [m \in DOMAIN f |-> f[m]]>> /\ \A m \in DOMAIN f : Scalar(f[m])

Integer(x, v) == \E n \in Int : /\ x = <<"Int", n>> \/ x = <<"Decimal", n>>
                                /\ v[1] \in IntTypes \cup {"F64"} /\ v[2] = n
Plain(x, v)   == \E c : x = v /\ (v = <<"Bool", c>> \/ v = <<"String", c>>)
Json(x, v)    == \E j : JsonValue(j) /\ v = <<"Json", j>> /\ x = json_text_to_surreal(v)

Stands(x, v, k) ==
    \/ k = "number" /\ Integer(x, v)
    \/ k \in {"Bool", "String"} /\ Plain(x, v) /\ v[1] = k
    \/ k = "Json" /\ Json(x, v)
StandAll(x, v, k) ==
    /\ x[1] = "Array" /\ v[1] = "List" /\ DOMAIN x[2] = DOMAIN v[2]
    /\ \A i \in DOMAIN v[2] : Stands(x[2][i], v[2][i], k)

(* A scalar of a JSON value is read as it was written. *)
LEMMA ScalarBack ==
    ASSUME NEW j, Scalar(j), NEW x, x = json_scalar_to_surreal(j)
    PROVE  /\ surreal_to_json_scalar(x) = j
           /\ x # NONE /\ ~IsError(x) /\ x[1] \notin {"Object", "Array"}
           /\ IsNumber(x) => j = <<"Num", x[2]>>
<1>1. CASE j = <<"Null">>
  BY <1>1 DEF json_scalar_to_surreal, surreal_to_json_scalar, NULL, NONE, IsError, IsNumber
<1>2. CASE \E b : j = <<"Bool", b>> \/ j = <<"String", b>>
  BY <1>2 DEF json_scalar_to_surreal, surreal_to_json_scalar, NULL, NONE, IsError, IsNumber
<1>3. CASE \E n \in Int : j = <<"Num", n>>
  BY <1>3 DEF json_scalar_to_surreal, surreal_to_json_scalar, NULL, NONE, IsError, IsNumber, Number
<1> QED BY <1>1, <1>2, <1>3 DEF Scalar

LEMMA JsonBack ==
    ASSUME NEW j, JsonValue(j), NEW x, x = json_text_to_surreal(<<"Json", j>>)
    PROVE  /\ surreal_json_to_text(x) = <<"Json", j>>
           /\ x # NONE /\ ~IsError(x) /\ x[1] # "Array"
           /\ IsNumber(x) => j = <<"Num", x[2]>>
<1>1. CASE Scalar(j)
  <2>1. j[1] \in {"Null", "Bool", "Num", "String"}
    BY <1>1 DEF Scalar
  <2>2. x = json_scalar_to_surreal(j)
    BY <2>1 DEF json_text_to_surreal, Null
  <2>3. surreal_json_to_text(x) = <<"Json", surreal_to_json_scalar(x)>>
    BY <1>1, <2>2, ScalarBack DEF surreal_json_to_text
  <2> QED BY <1>1, <2>2, <2>3, ScalarBack
<1>2. ASSUME NEW f, j = <<"Object", [m \in DOMAIN f |-> f[m]]>>, \A m \in DOMAIN f : Scalar(f[m])
      PROVE  /\ surreal_json_to_text(x) = <<"Json", j>>
             /\ x # NONE /\ ~IsError(x) /\ x[1] # "Array" /\ ~IsNumber(x)
  <2> DEFINE g == [m \in DOMAIN f |-> f[m]]
             h == [m \in DOMAIN g |-> json_scalar_to_surreal(g[m])]
             o == [m \in DOMAIN h |-> surreal_to_json_scalar(h[m])]
  <2>1. j = <<"Object", g>> /\ DOMAIN g = DOMAIN f /\ \A m \in DOMAIN g : Scalar(g[m])
    BY <1>2
  <2>2. DOMAIN h = DOMAIN g /\ \A m \in DOMAIN g : h[m] # NONE /\ surreal_to_json_scalar(h[m]) = g[m]
    <3> HIDE DEF g
    <3> QED BY <2>1, ScalarBack
  <2>3. o = g
    <3>1. g = [m \in DOMAIN g |-> g[m]]
      OBVIOUS
    <3> HIDE DEF g, h
    <3> QED BY <2>2, <3>1
  <2>4. x = <<"Object", h>>
    <3> HIDE DEF g
    <3> QED BY <2>1 DEF json_text_to_surreal, Null
  <2>5. surreal_json_to_text(x) = <<"Json", <<"Object", o>>>>
    <3>1. x[1] = "Object" /\ x[2] = h /\ x # NONE
      <4> HIDE DEF h
      <4> QED BY <2>4 DEF NONE
    <3>2. ~ \E m \in DOMAIN x[2] : x[2][m] = NONE
      <4> HIDE DEF g, h
      <4> QED BY <2>2, <3>1
    <3>3. o = [m \in DOMAIN x[2] |-> surreal_to_json_scalar(x[2][m])]
      <4> HIDE DEF h
      <4> QED BY <3>1
    <3> HIDE DEF g, h, o
    <3> QED BY <3>1, <3>2, <3>3 DEF surreal_json_to_text
  <2>6. x # NONE /\ ~IsError(x) /\ x[1] # "Array" /\ ~IsNumber(x)
    <3> HIDE DEF h
    <3> QED BY <2>4 DEF NONE, IsError, IsNumber
  <2> HIDE DEF o
  <2> QED BY <2>1, <2>3, <2>5, <2>6
<1> QED BY <1>1, <1>2 DEF JsonValue

(* Values of one kind are compared by SurrealDB as what they stand for. *)
LEMMA StandsFor ==
    ASSUME NEW x, NEW v, NEW k, Stands(x, v, k)
    PROVE  x # NONE /\ ~IsError(x) /\ x[1] # "Array" /\ v # Null
<1>1. CASE Integer(x, v)
  BY <1>1 DEF Integer, NONE, Null, IsError, IntTypes
<1>2. CASE Plain(x, v)
  BY <1>2 DEF Plain, NONE, Null, IsError
<1>3. CASE Json(x, v)
  BY <1>3, JsonBack DEF Json, Null
<1> QED BY <1>1, <1>2, <1>3 DEF Stands

LEMMA SameIsEqual ==
    ASSUME NEW x, NEW v, NEW y, NEW w, NEW k, Stands(x, v, k), Stands(y, w, k)
    PROVE  (Same(x, y) <=> Equal(v, w)) /\ (Same(x, y) <=> Equal(w, v))
<1>1. CASE Integer(x, v) /\ Integer(y, w)
  BY <1>1 DEF Integer, Same, Equal, IsNumber, IsNum
<1>2. CASE Plain(x, v) /\ Plain(y, w)
  BY <1>2 DEF Plain, Same, Equal, IsNumber, IsNum, IntTypes
<1>3. CASE Json(x, v) /\ Json(y, w)
  <2>1. PICK i : JsonValue(i) /\ v = <<"Json", i>> /\ x = json_text_to_surreal(<<"Json", i>>)
    BY <1>3 DEF Json
  <2>2. PICK j : JsonValue(j) /\ w = <<"Json", j>> /\ y = json_text_to_surreal(<<"Json", j>>)
    BY <1>3 DEF Json
  <2>3. (Equal(v, w) <=> i = j) /\ (Equal(w, v) <=> i = j)
    BY <2>1, <2>2 DEF Equal, IsNum, IntTypes
  <2>4. surreal_json_to_text(x) = <<"Json", i>> /\ surreal_json_to_text(y) = <<"Json", j>>
    BY <2>1, <2>2, JsonBack
  <2>5. x = y <=> i = j
    BY <2>1, <2>2, <2>4
  <2>6. (IsNumber(x) => i = <<"Num", x[2]>>) /\ (IsNumber(y) => j = <<"Num", y[2]>>)
    BY <2>1, <2>2, JsonBack
  <2>7. Same(x, y) <=> i = j
    BY <2>5, <2>6 DEF Same
  <2> QED BY <2>3, <2>7
<1> QED BY <1>1, <1>2, <1>3 DEF Stands

LEMMA LessIsLess ==
    ASSUME NEW x, NEW v, NEW y, NEW w, Stands(x, v, "number"), Stands(y, w, "number")
    PROVE  /\ Less(x, y) <=> v[2] < w[2]
           /\ Less(x, y) \/ Same(x, y) <=> v[2] <= w[2]
  BY DEF Stands, Integer, Less, Same, IsNumber

LEMMA HasIsIn ==
    ASSUME NEW x, NEW v, NEW y, NEW w, NEW k, Stands(x, v, k), StandAll(y, w, k)
    PROVE  Has(y, x) <=> In(v, w)
<1>1. \A i \in DOMAIN w[2] : Same(y[2][i], x) <=> Equal(v, w[2][i])
  BY SameIsEqual DEF StandAll
<1> QED BY <1>1 DEF Has, In, StandAll

(* What SurrealDB answers to a comparison. *)
LEMMA Compared ==
    ASSUME NEW x, NEW v, NEW y, NEW w, NEW k, Stands(x, v, k), Stands(y, w, k), NEW op,
           op \in {"Eq", "Ne"} \/ (k = "number" /\ op \in {"Lt", "Le", "Gt", "Ge"})
    PROVE  Apply(op, x, y) = Truth(Compare(op, v, w))
<1>1. Same(x, y) = Equal(v, w)
  BY SameIsEqual DEF Same, Equal
<1>2. k = "number" => /\ Less(x, y) <=> v[2] < w[2]
                      /\ Less(y, x) <=> w[2] < v[2]
                      /\ Less(x, y) \/ Same(x, y) <=> v[2] <= w[2]
                      /\ Less(y, x) \/ Same(x, y) <=> w[2] <= v[2]
                      /\ v[2] \in Int /\ w[2] \in Int
  BY LessIsLess, SameIsEqual DEF Stands, Integer
<1>3. CASE op = "Eq"
  BY <1>1, <1>3 DEF Apply, Compare
<1>4. CASE op = "Ne"
  BY <1>1, <1>4 DEF Apply, Compare
<1>5. CASE op = "Lt" /\ k = "number"
  <2>1. Apply(op, x, y) = Truth(Less(x, y)) /\ Compare(op, v, w) = (v[2] < w[2])
    BY <1>5 DEF Apply, Compare
  <2>2. (Less(x, y)) = (v[2] < w[2])
    BY <1>5, <1>2 DEF Less
  <2> QED BY <2>1, <2>2
<1>6. CASE op = "Le" /\ k = "number"
  <2>1. Apply(op, x, y) = Truth(Less(x, y) \/ Same(x, y)) /\ Compare(op, v, w) = (v[2] <= w[2])
    BY <1>6 DEF Apply, Compare
  <2>2. (Less(x, y) \/ Same(x, y)) = (v[2] <= w[2])
    BY <1>6, <1>2
  <2> QED BY <2>1, <2>2
<1>7. CASE op = "Gt" /\ k = "number"
  <2>1. Apply(op, x, y) = Truth(Less(y, x)) /\ Compare(op, v, w) = (v[2] > w[2])
    BY <1>7 DEF Apply, Compare
  <2>2. (Less(y, x)) = (v[2] > w[2])
    BY <1>7, <1>2 DEF Less
  <2> QED BY <2>1, <2>2
<1>8. CASE op = "Ge" /\ k = "number"
  <2>1. Apply(op, x, y) = Truth(Less(y, x) \/ Same(x, y)) /\ Compare(op, v, w) = (v[2] >= w[2])
    BY <1>8 DEF Apply, Compare
  <2>2. (Less(y, x) \/ Same(x, y)) = (v[2] >= w[2])
    BY <1>8, <1>2
  <2> QED BY <2>1, <2>2
<1> QED BY <1>3, <1>4, <1>5, <1>6, <1>7, <1>8

-----------------------------------------------------------------------------
(* Every integer is read as it was written. *)
LEMMA Ranges ==
    /\ \A t \in IntTypes : IntRange(t) \subseteq Int
    /\ \A t \in {"I8", "U8", "I64"} : IntRange(t) \subseteq IntRange("I64")
<1>1. Narrow \div 2 \in Nat /\ Narrow = 2 * (Narrow \div 2) /\ Narrow \div 2 <= MaxInt
  BY WidthAssumption
<1> QED BY <1>1, WidthAssumption DEF IntRange, IntTypes

LEMMA Remainder ==
    ASSUME NEW b \in Nat, b > 0, NEW a \in 0 .. b - 1
    PROVE  a % b = a
  OBVIOUS

LEMMA Unwrapped ==
    ASSUME NEW t \in IntTypes, NEW n \in IntRange(t)
    PROVE  Wrapped(t, n) = n
<1>1. CASE t = "U8"
  BY <1>1, Remainder, WidthAssumption DEF IntRange, Wrapped
<1>2. CASE t = "I8"
  <2> DEFINE h == Narrow \div 2
  <2>1. h \in Nat /\ Narrow = 2 * h /\ Narrow > 0
    BY WidthAssumption
  <2> HIDE DEF h
  <2>2. IntRange(t) = -h .. h - 1 /\ Wrapped(t, n) = ((n + h) % Narrow) - h
    BY <1>2 DEF IntRange, Wrapped, h
  <2>3. n \in Int /\ n + h \in 0 .. Narrow - 1
    BY <2>1, <2>2
  <2>4. (n + h) % Narrow = n + h
    BY <2>1, <2>3, Remainder, WidthAssumption
  <2> QED BY <2>1, <2>2, <2>3, <2>4
<1>3. CASE t = "U64"
  <2>1. 2 * MaxInt + 2 \in Nat /\ 2 * MaxInt + 2 > 0 /\ n \in 0 .. (2 * MaxInt + 2) - 1
    BY <1>3, WidthAssumption DEF IntRange
  <2>2. n % (2 * MaxInt + 2) = n
    BY <2>1, Remainder
  <2> QED BY <1>3, <2>2 DEF Wrapped
<1>4. CASE t = "I64"
  BY <1>4 DEF Wrapped
<1> QED BY <1>1, <1>2, <1>3, <1>4 DEF IntTypes

LEMMA IntegerBack ==
    ASSUME NEW t \in IntTypes, NEW n \in IntRange(t)
    PROVE  /\ n \in Int /\ to_scalar(<<t, n>>) = Number(n) /\ to_surreal(<<t, n>>) = Number(n)
           /\ Number(n) \in {<<"Int", n>>, <<"Decimal", n>>}
           /\ from_scalar(Number(n), t) = <<t, n>> /\ from_surreal(Number(n), t) = <<t, n>>
<1>1. n \in Int
  BY Ranges
<1>2. to_scalar(<<t, n>>) = Number(n) /\ to_surreal(<<t, n>>) = Number(n)
  BY DEF to_surreal, to_scalar, IntTypes, Null
<1>3. Number(n) \in {<<"Int", n>>, <<"Decimal", n>>}
  BY DEF Number
<1> DEFINE x == Number(n)
<1> HIDE DEF x
<1>4. x[1] \in {"Int", "Decimal"} /\ x[2] = n /\ x \in {<<"Int", n>>, <<"Decimal", n>>}
  BY <1>3 DEF x
<1>5. from_scalar(x, t) = number_to_stmt(x, t) /\ from_surreal(x, t) = from_scalar(x, t)
  BY <1>4 DEF from_surreal, from_scalar, NONE, NULL
<1>6. number_to_stmt(x, t) = <<t, n>>
  <2>1. CASE t = "U64"
    <3>1. number_to_u64(x) = n
      BY <1>4, <2>1, Unwrapped DEF number_to_u64
    <3> QED BY <2>1, <3>1 DEF number_to_stmt
  <2>2. CASE t # "U64"
    <3>1. to_int(x) = n
      BY <1>4, <2>2, Ranges DEF to_int, IsInt, IntTypes
    <3>2. Wrapped(t, n) = n
      BY Unwrapped
    <3> QED BY <2>2, <3>1, <3>2 DEF number_to_stmt, IntTypes
  <2> QED BY <2>1, <2>2
<1> QED BY <1>1, <1>2, <1>3, <1>5, <1>6 DEF x

-----------------------------------------------------------------------------
(* Records that hold values of the types of their columns.  Numbers in documents
   are no larger than i64::MAX, and a key that stands alone is no larger either:
   it would have been refused.                                               *)
Leaf(v) == \/ v = Null \/ Plain(v, v)
           \/ \E t \in IntTypes : \E n \in IntRange(t) : n <= MaxInt /\ v = <<t, n>>
ValueOf(v, t) ==
    \/ t \in IntTypes /\ \E n \in IntRange(t) : v = <<t, n>>
    \/ t \in {"Bool", "String"} /\ Plain(v, v) /\ v[1] = t
    \/ t = "Json" /\ \E j : JsonValue(j) /\ v = <<"Json", j>>
    \/ t = "List(U64)" /\ \E s \in Seq({"U64"} \X IntRange("U64")) : v = <<"List", s>>
    \/ t = "Document" /\ v[1] = "Object" /\ v = <<"Object", v[2]>> /\ \A m \in DOMAIN v[2] : Leaf(v[2][m])
TypedRecord(rec) == \A c \in DOMAIN Type :
    \/ /\ IsKey(c) /\ Type[c] \in IntTypes \cup {"String"} /\ ValueOf(rec[c], Type[c])
       /\ Len(KeyCols) = 1 => scalar_to_key(rec[c]) # unsupported_feature
    \/ ~IsKey(c) /\ (rec[c] = Null \/ ValueOf(rec[c], Type[c]))

KindOf(t) == IF t \in IntTypes THEN "number" ELSE t

LEMMA PlainCoded ==
    ASSUME NEW v, Plain(v, v), NEW t, t = v[1] \/ t = "Unknown"
    PROVE  /\ to_scalar(v) = v /\ to_surreal(v) = v /\ v # Null /\ v # NONE
           /\ from_scalar(v, t) = v /\ from_surreal(v, t) = v
<1>1. PICK c : v = <<"Bool", c>> \/ v = <<"String", c>>
  BY DEF Plain
<1>2. v # NONE /\ v # NULL /\ v # Null /\ v[1] \in {"Bool", "String"}
  BY <1>1 DEF NONE, NULL, Null
<1>3. to_scalar(v) = v /\ to_surreal(v) = v
  BY <1>2 DEF to_surreal, to_scalar, IntTypes
<1>4. from_scalar(v, t) = v
  BY <1>2 DEF from_scalar
<1>5. from_surreal(v, t) = from_scalar(v, t)
  BY <1>2 DEF from_surreal
<1> QED BY <1>2, <1>3, <1>4, <1>5

LEMMA ListCoded ==
    ASSUME NEW s \in Seq({"U64"} \X IntRange("U64")), NEW x, x = to_surreal(<<"List", s>>)
    PROVE  StandAll(x, <<"List", s>>, "number") /\ from_surreal(x, "List(U64)") = <<"List", s>>
<1>1. ASSUME NEW i \in DOMAIN s
      PROVE  /\ Stands(to_scalar(s[i]), s[i], "number")
             /\ from_scalar(to_scalar(s[i]), "U64") = s[i]
  <2>1. PICK n \in IntRange("U64") : s[i] = <<"U64", n>>
    BY <1>1
  <2>2. "U64" \in IntTypes
    BY DEF IntTypes
  <2>3. n \in Int /\ to_scalar(s[i]) = Number(n) /\ from_scalar(Number(n), "U64") = s[i]
        /\ Number(n) \in {<<"Int", n>>, <<"Decimal", n>>}
    BY <2>1, <2>2, IntegerBack
  <2>4. Integer(Number(n), s[i])
    BY <2>1, <2>2, <2>3 DEF Integer
  <2> QED BY <2>3, <2>4 DEF Stands
<1> DEFINE h == [i \in DOMAIN s |-> to_scalar(s[i])]
           o == [i \in DOMAIN h |-> from_scalar(h[i], "U64")]
<1>2. x = <<"Array", h>>
  BY DEF to_surreal
<1>3. o = s
  <2>1. s = [i \in DOMAIN s |-> s[i]]
    OBVIOUS
  <2> QED BY <1>1, <2>1
<1>4. from_surreal(x, "List(U64)") = <<"List", o>>
  <2> HIDE DEF h
  <2>1. x[1] = "Array" /\ x[2] = h /\ ElementType("List(U64)") = "U64"
    BY <1>2 DEF ElementType
  <2>2. from_surreal(x, "List(U64)")
            = <<"List", [i \in DOMAIN x[2] |-> from_scalar(x[2][i], ElementType("List(U64)"))]>>
    BY <2>1 DEF from_surreal
  <2> QED BY <2>1, <2>2
<1>5. StandAll(x, <<"List", s>>, "number")
  BY <1>1, <1>2 DEF StandAll
<1> QED BY <1>3, <1>4, <1>5

(* A value that is stored is read as it was written, and stands for itself. *)
LEMMA Coded ==
    ASSUME NEW t, t # "Document", NEW v, ValueOf(v, t), NEW x, x = to_surreal_with_storage(v, t)
    PROVE  /\ from_surreal_with_storage(x, t) = v
           /\ x # NONE /\ ~IsError(x) /\ v # Null
           /\ t # "List(U64)" => Stands(x, v, KindOf(t))
           /\ t = "List(U64)" => StandAll(x, v, "number")
<1>1. CASE t \in IntTypes
  <2>1. PICK n \in IntRange(t) : v = <<t, n>>
    BY <1>1 DEF ValueOf, IntTypes
  <2>2. /\ n \in Int /\ x = Number(n) /\ from_surreal_with_storage(x, t) = v
        /\ Number(n) \in {<<"Int", n>>, <<"Decimal", n>>}
    BY <1>1, <2>1, IntegerBack DEF to_surreal_with_storage, from_surreal_with_storage, IntTypes
  <2>3. Stands(x, v, KindOf(t))
    BY <1>1, <2>1, <2>2 DEF Stands, Integer, KindOf
  <2> QED BY <1>1, <2>2, <2>3, StandsFor DEF IntTypes
<1>2. CASE t \in {"Bool", "String"}
  <2>1. Plain(v, v) /\ v[1] = t
    BY <1>2 DEF ValueOf, IntTypes
  <2>2. x = v /\ from_surreal_with_storage(x, t) = v
    BY <1>2, <2>1, PlainCoded DEF to_surreal_with_storage, from_surreal_with_storage
  <2>3. Stands(x, v, KindOf(t))
    BY <1>2, <2>1, <2>2 DEF Stands, KindOf, IntTypes
  <2> QED BY <1>2, <2>2, <2>3, StandsFor
<1>3. CASE t = "Json"
  <2>1. PICK j : JsonValue(j) /\ v = <<"Json", j>>
    BY <1>3 DEF ValueOf, IntTypes
  <2>2. x = json_text_to_surreal(<<"Json", j>>) /\ from_surreal_with_storage(x, t) = surreal_json_to_text(x)
    BY <1>3, <2>1 DEF to_surreal_with_storage, from_surreal_with_storage
  <2>3. Stands(x, v, KindOf(t))
    BY <1>3, <2>1, <2>2 DEF Stands, Json, KindOf, IntTypes
  <2> QED BY <1>3, <2>1, <2>2, <2>3, StandsFor, JsonBack
<1>4. CASE t = "List(U64)"
  <2>1. PICK s \in Seq({"U64"} \X IntRange("U64")) : v = <<"List", s>>
    BY <1>4 DEF ValueOf, IntTypes
  <2>2. x = to_surreal(v) /\ from_surreal_with_storage(x, t) = from_surreal(x, t)
    BY <1>4 DEF to_surreal_with_storage, from_surreal_with_storage
  <2>3. StandAll(x, v, "number") /\ from_surreal(x, t) = v
    BY <1>4, <2>1, <2>2, ListCoded
  <2>4. x # NONE /\ ~IsError(x) /\ v # Null
    BY <2>1, <2>3 DEF StandAll, NONE, IsError, Null
  <2> QED BY <1>4, <2>2, <2>3, <2>4
<1> QED BY <1>1, <1>2, <1>3, <1>4 DEF ValueOf

(* A key column is projected out of the record id, of a table with one or with more. *)
LEMMA KeyStored ==
    ASSUME NEW rec, TypedRecord(rec), NEW c \in DOMAIN Type, IsKey(c)
    PROVE  /\ Column(rec, c) = rec[c] /\ rec[c] # Null
           /\ Type[c] \notin {"Bool", "Json", "List(U64)", "Document"}
           /\ Stands(KeyColumn(rec, c), rec[c], KindOf(Type[c]))
<1> DEFINE k == Position(c)
           ks == [i \in DOMAIN KeyCols |-> rec[KeyCols[i]]]
           v == rec[c]
           t == Type[c]
<1>1. k \in DOMAIN KeyCols /\ KeyCols[k] = c
  BY DEF IsKey, Position
<1>2. /\ t \in IntTypes \cup {"String"} /\ ValueOf(v, t)
      /\ Len(KeyCols) = 1 => scalar_to_key(v) # unsupported_feature
  BY DEF TypedRecord
<1>3. Len(KeyCols) \in Nat /\ Len(KeyCols) >= 1 /\ DOMAIN KeyCols = 1..Len(KeyCols)
  BY KeyAssumption
<1>4. ks[k] = v
  BY <1>1
<1>5. Key(rec) = record_id_key(<<"Record", ks>>, Len(KeyCols))
  BY DEF Key
<1>6. t \notin {"Bool", "Json", "List(U64)", "Document"}
  BY <1>2 DEF IntTypes
<1> HIDE DEF k, ks, t
<1>7. KeyColumn(rec, c) = to_surreal(v)
  <2>1. CASE Len(KeyCols) = 1
    <3>1. k = 1
      BY <1>1, <1>3, <2>1
    <3>2. Key(rec) = scalar_to_key(v)
      <4>1. ks # << >>
        <5>1. 1 \in DOMAIN ks
          BY <1>1, <1>3, <3>1 DEF ks
        <5> QED BY <5>1
      <4> QED BY <1>4, <1>5, <2>1, <3>1, <4>1 DEF record_id_key
    <3>3. scalar_to_key(v) = to_surreal(v)
      <4>1. CASE t \in IntTypes
        <5>1. PICK n \in IntRange(t) : v = <<t, n>>
          BY <1>2, <4>1 DEF ValueOf, IntTypes
        <5>2. n \in Int /\ to_surreal(v) = Number(n)
          BY <4>1, <5>1, IntegerBack
        <5>3. scalar_to_key(<<t, n>>) = IF n <= MaxInt THEN <<"Int", n>> ELSE unsupported_feature
          BY <4>1 DEF scalar_to_key, IntTypes
        <5>4. scalar_to_key(v) = scalar_to_key(<<t, n>>)
          BY <5>1
        <5>5. scalar_to_key(v) # unsupported_feature
          BY <1>2, <2>1
        <5>6. scalar_to_key(v) = <<"Int", n>> /\ n <= MaxInt
          BY <5>3, <5>4, <5>5
        <5> QED BY <5>2, <5>6 DEF Number
      <4>2. CASE t = "String"
        <5>1. Plain(v, v) /\ v[1] = "String"
          BY <1>2, <4>2 DEF ValueOf, IntTypes
        <5> QED BY <5>1, PlainCoded DEF scalar_to_key, IntTypes
      <4> QED BY <1>2, <4>1, <4>2
    <3> QED BY <2>1, <3>2, <3>3 DEF KeyColumn, key_column
  <2>2. CASE Len(KeyCols) # 1
    <3>1. ~(Len(KeyCols) <= 1) /\ k \in DOMAIN ks
      BY <1>1, <1>3, <2>2 DEF ks
    <3>2. Key(rec) = <<"Array", [i \in DOMAIN ks |-> to_surreal(ks[i])]>>
      BY <1>5, <3>1 DEF record_id_key
    <3> QED BY <1>4, <3>1, <3>2 DEF KeyColumn, key_column, k
  <2> QED BY <2>1, <2>2
<1>8. to_surreal_with_storage(v, t) = to_surreal(v)
  BY <1>6 DEF to_surreal_with_storage
<1>9. Column(rec, c) = from_surreal_with_storage(to_surreal(v), t)
  BY <1>6, <1>7 DEF Column, from_surreal_with_storage, t
<1> HIDE DEF v
<1>10. /\ from_surreal_with_storage(to_surreal(v), t) = v
       /\ v # Null /\ Stands(to_surreal(v), v, KindOf(t))
  BY <1>2, <1>6, <1>8, Coded
<1> QED BY <1>6, <1>7, <1>9, <1>10 DEF v, t

(* A column is read as it was written, and its field is absent when that is nothing. *)
LEMMA ColumnStored ==
    ASSUME NEW rec, TypedRecord(rec), NEW c \in DOMAIN Type, Type[c] # "Document"
    PROVE  /\ Column(rec, c) = rec[c]
           /\ rec[c] = Null => Stored(rec, c) = NONE
           /\ rec[c] # Null =>
                /\ Type[c] # "List(U64)" => Stands(Stored(rec, c), rec[c], KindOf(Type[c]))
                /\ Type[c] = "List(U64)" => StandAll(Stored(rec, c), rec[c], "number")
                /\ Stored(rec, c) # NONE /\ ~IsError(Stored(rec, c))
<1>1. CASE IsKey(c)
  BY <1>1, KeyStored, StandsFor DEF Stored
<1>2. CASE ~IsKey(c) /\ rec[c] = Null
  <2>1. Content(rec)[c] = NONE
    BY <1>2 DEF Content
  <2>2. from_surreal_with_storage(NONE, Type[c]) = Null
    BY DEF from_surreal_with_storage, surreal_json_to_text, from_surreal, from_scalar, NONE
  <2> QED BY <1>2, <2>1, <2>2 DEF Column, Stored
<1>3. CASE ~IsKey(c) /\ rec[c] # Null
  <2>1. Content(rec)[c] = to_surreal_with_storage(rec[c], Type[c])
    BY <1>3 DEF Content
  <2>2. ValueOf(rec[c], Type[c])
    BY <1>3 DEF TypedRecord
  <2>3. /\ from_surreal_with_storage(Content(rec)[c], Type[c]) = rec[c]
        /\ Content(rec)[c] # NONE /\ ~IsError(Content(rec)[c])
        /\ Type[c] # "List(U64)" => Stands(Content(rec)[c], rec[c], KindOf(Type[c]))
        /\ Type[c] = "List(U64)" => StandAll(Content(rec)[c], rec[c], "number")
    BY <2>1, <2>2, Coded
  <2> QED BY <1>3, <2>3 DEF Column, Stored
<1> QED BY <1>1, <1>2, <1>3

(* A member of a document, of no known type. *)
LEMMA LeafCoded ==
    ASSUME NEW v, Leaf(v), v # Null
    PROVE  Stands(to_scalar(v), from_scalar(to_scalar(v), "Unknown"), KindOf(v[1]))
<1>1. CASE Plain(v, v)
  <2>1. v[1] \in {"Bool", "String"}
    BY <1>1 DEF Plain
  <2> QED BY <1>1, <2>1, PlainCoded DEF Stands, KindOf, IntTypes
<1>2. ASSUME NEW t \in IntTypes, NEW n \in IntRange(t), n <= MaxInt, v = <<t, n>>
      PROVE  Stands(to_scalar(v), from_scalar(to_scalar(v), "Unknown"), KindOf(v[1]))
  <2>1. n \in Int /\ to_scalar(v) = Number(n)
    BY <1>2, IntegerBack
  <2>2. to_scalar(v) = <<"Int", n>>
    BY <1>2, <2>1 DEF Number
  <2>3. n \in IntRange("I64")
    <3>1. CASE t = "U64"
      BY <1>2, <3>1, WidthAssumption DEF IntRange
    <3>2. CASE t # "U64"
      BY <1>2, <3>2, Ranges DEF IntTypes
    <3> QED BY <3>1, <3>2
  <2>4. from_scalar(<<"Int", n>>, "Unknown") = number_to_stmt(<<"Int", n>>, "Unknown")
    BY DEF from_scalar, NONE, NULL
  <2>5. number_to_stmt(<<"Int", n>>, "Unknown") = <<"I64", n>>
    BY <2>3 DEF number_to_stmt, IsInt, IntTypes
  <2>6. Integer(<<"Int", n>>, <<"I64", n>>)
    BY <2>1 DEF Integer, IntTypes
  <2> QED BY <1>2, <2>2, <2>4, <2>5, <2>6 DEF Stands, KindOf
<1> QED BY <1>1, <1>2 DEF Leaf

LEMMA DocumentStored ==
    ASSUME NEW rec, TypedRecord(rec), NEW c \in DOMAIN Type, Type[c] = "Document"
    PROVE  /\ ~IsKey(c) /\ ~IsError(Content(rec)[c])
           /\ rec[c] = Null => Content(rec)[c] = NONE /\ Column(rec, c) = Null
           /\ rec[c] # Null =>
                LET M == {m \in DOMAIN rec[c][2] : rec[c][2][m] # Null}
                IN  /\ \A m \in DOMAIN rec[c][2] : Leaf(rec[c][2][m])
                    /\ Content(rec)[c] = <<"Object", [m \in M |-> to_scalar(rec[c][2][m])]>>
                    /\ Column(rec, c)
                        = <<"Object", [m \in M |-> from_scalar(to_scalar(rec[c][2][m]), "Unknown")]>>
<1>1. ~IsKey(c) /\ (rec[c] = Null \/ ValueOf(rec[c], "Document"))
  BY DEF TypedRecord, IntTypes
<1>2. CASE rec[c] = Null
  <2>1. Content(rec)[c] = NONE
    BY <1>1, <1>2 DEF Content
  <2>2. from_surreal_with_storage(NONE, Type[c]) = Null
    BY DEF from_surreal_with_storage, surreal_json_to_text, from_surreal, from_scalar, NONE
  <2> QED BY <1>1, <1>2, <2>1, <2>2 DEF Column, IsError, NONE
<1>3. CASE rec[c] # Null
  <2> DEFINE v == rec[c]
             M == {m \in DOMAIN v[2] : v[2][m] # Null}
             h == [m \in M |-> to_scalar(v[2][m])]
             o == [m \in M |-> from_scalar(h[m], "Unknown")]
  <2>1. v[1] = "Object" /\ \A m \in DOMAIN v[2] : Leaf(v[2][m])
    BY <1>1, <1>3 DEF ValueOf, IntTypes
  <2>2. Content(rec)[c] = to_surreal(v)
    BY <1>1, <1>3 DEF Content, to_surreal_with_storage
  <2>3. to_surreal(v) = <<"Object", h>>
    BY <2>1 DEF to_surreal
  <2>4. DOMAIN h = M
    OBVIOUS
  <2>5. Column(rec, c) = from_surreal(<<"Object", h>>, "Document")
    <3> HIDE DEF h
    <3> QED BY <1>1, <2>2, <2>3 DEF Column, from_surreal_with_storage
  <2>6. from_surreal(<<"Object", h>>, "Document") = <<"Object", o>>
    <3> HIDE DEF h, M
    <3> QED BY <2>4 DEF from_surreal
  <2>7. o = [m \in M |-> from_scalar(to_scalar(v[2][m]), "Unknown")]
    BY <2>4
  <2>8. ~IsError(<<"Object", h>>)
    <3> HIDE DEF h
    <3> QED BY DEF IsError
  <2> HIDE DEF o
  <2> QED BY <1>1, <1>3, <2>1, <2>2, <2>3, <2>5, <2>6, <2>7, <2>8
<1> QED BY <1>2, <1>3

-----------------------------------------------------------------------------
(* How each expression is rendered. *)
PartsOf(e) == [d \in Parts(e) |-> render[d]]

LEMMA RenderAt ==
    ASSUME NEW e \in Exprs, NEW st \in Storages, NEW b \in Binds
    PROVE  render[e] = RenderedBy(PartsOf(e), e)
  BY RenderIs DEF PartsOf

LEMMA RenderLeaf ==
    ASSUME NEW e \in Exprs, NEW st \in Storages, NEW b \in Binds
    PROVE  /\ e[1] = "Value" => render[e][st][b] = value_to_binds(b, e[2], st)
           /\ e[1] = "Member" => render[e][st][b] = Rendered(document_path(e[2], e[3]), b)
           /\ e[1] = "Column" => render[e][st][b] = Reference(e[2], b)
<1>1. render[e] = RenderedBy(PartsOf(e), e)
  BY RenderAt
<1>2. CASE e[1] = "Value"
  BY <1>1, <1>2 DEF RenderedBy
<1>3. CASE e[1] = "Member"
  BY <1>1, <1>3 DEF RenderedBy
<1>4. CASE e[1] = "Column"
  BY <1>1, <1>4 DEF RenderedBy
<1> QED BY <1>2, <1>3, <1>4

LEMMA RenderInner ==
    ASSUME NEW e \in Exprs, NEW st \in Storages, NEW b \in Binds
    PROVE  /\ e[1] = "Binary" => render[e][st][b] = Operands(render, e[2], e[3], e[4], b)
           /\ e[1] = "IsSuperset" => render[e][st][b] = Operands(render, "ContainsAll", e[2], e[3], b)
           /\ e[1] = "Intersects" => render[e][st][b] = Operands(render, "ContainsAny", e[2], e[3], b)
           /\ e[1] = "Not" => render[e][st][b] = Negation(render, e, b)
           /\ e[1] = "IsNull" => render[e][st][b] = IsNull(render, e, b)
           /\ e[1] = "Length" => render[e][st][b] = Length(render, e, b)
           /\ e[1] = "AnyOp" => render[e][st][b] = AnyOp(render, e, b)
           /\ e[1] = "InList" => render[e][st][b] = InList(render, e, b)
           /\ e[1] = "StartsWith" => render[e][st][b] = StartsWith(render, e, b)
           /\ e[1] = "Between" => render[e][st][b] = Between(render, e, b)
           /\ e[1] \in {"And", "Or"} => render[e][st][b] = Joined(render, e, b)
<1> DEFINE r == PartsOf(e)
<1>1. \A d \in Parts(e) : r[d] = render[d]
  BY DEF PartsOf
<1>2. render[e] = RenderedBy(r, e)
  BY RenderAt
<1> HIDE DEF r
<1>3. CASE e[1] = "Binary"
  <2>1. render[e][st][b] = Operands(r, e[2], e[3], e[4], b)
    BY <1>2, <1>3 DEF RenderedBy
  <2>2. r[e[3]] = render[e[3]] /\ r[e[4]] = render[e[4]]
    BY <1>1, <1>3 DEF Parts
  <2>3. Operands(r, e[2], e[3], e[4], b) = Operands(render, e[2], e[3], e[4], b)
    BY <2>2 DEF Operands
  <2> QED BY <1>3, <2>1, <2>3
<1>4. CASE e[1] = "IsSuperset"
  <2>1. render[e][st][b] = Operands(r, "ContainsAll", e[2], e[3], b)
    BY <1>2, <1>4 DEF RenderedBy
  <2>2. r[e[2]] = render[e[2]] /\ r[e[3]] = render[e[3]]
    BY <1>1, <1>4 DEF Parts
  <2>3. Operands(r, "ContainsAll", e[2], e[3], b) = Operands(render, "ContainsAll", e[2], e[3], b)
    BY <2>2 DEF Operands
  <2> QED BY <1>4, <2>1, <2>3
<1>5. CASE e[1] = "Intersects"
  <2>1. render[e][st][b] = Operands(r, "ContainsAny", e[2], e[3], b)
    BY <1>2, <1>5 DEF RenderedBy
  <2>2. r[e[2]] = render[e[2]] /\ r[e[3]] = render[e[3]]
    BY <1>1, <1>5 DEF Parts
  <2>3. Operands(r, "ContainsAny", e[2], e[3], b) = Operands(render, "ContainsAny", e[2], e[3], b)
    BY <2>2 DEF Operands
  <2> QED BY <1>5, <2>1, <2>3
<1>6. CASE e[1] = "Not"
  <2>1. render[e][st][b] = Negation(r, e, b)
    BY <1>2, <1>6 DEF RenderedBy
  <2>2. r[e[2]] = render[e[2]]
    BY <1>1, <1>6 DEF Parts
  <2>3. Negation(r, e, b) = Negation(render, e, b)
    BY <2>2 DEF Negation
  <2> QED BY <1>6, <2>1, <2>3
<1>7. CASE e[1] = "IsNull"
  <2>1. render[e][st][b] = IsNull(r, e, b)
    BY <1>2, <1>7 DEF RenderedBy
  <2>2. r[e[2]] = render[e[2]]
    BY <1>1, <1>7 DEF Parts
  <2>3. IsNull(r, e, b) = IsNull(render, e, b)
    BY <2>2 DEF IsNull
  <2> QED BY <1>7, <2>1, <2>3
<1>8. CASE e[1] = "Length"
  <2>1. render[e][st][b] = Length(r, e, b)
    BY <1>2, <1>8 DEF RenderedBy
  <2>2. r[e[2]] = render[e[2]]
    BY <1>1, <1>8 DEF Parts
  <2>3. Length(r, e, b) = Length(render, e, b)
    BY <2>2 DEF Length
  <2> QED BY <1>8, <2>1, <2>3
<1>9. CASE e[1] = "AnyOp"
  <2>1. render[e][st][b] = AnyOp(r, e, b)
    BY <1>2, <1>9 DEF RenderedBy
  <2>2. r[e[3]] = render[e[3]] /\ r[e[4]] = render[e[4]]
    BY <1>1, <1>9 DEF Parts
  <2>3. AnyOp(r, e, b) = AnyOp(render, e, b)
    BY <2>2 DEF AnyOp
  <2> QED BY <1>9, <2>1, <2>3
<1>10. CASE e[1] = "InList"
  <2>1. render[e][st][b] = InList(r, e, b)
    BY <1>2, <1>10 DEF RenderedBy
  <2>2. r[e[2]] = render[e[2]] /\ r[e[3]] = render[e[3]]
    BY <1>1, <1>10 DEF Parts
  <2>3. InList(r, e, b) = InList(render, e, b)
    BY <2>2 DEF InList
  <2> QED BY <1>10, <2>1, <2>3
<1>11. CASE e[1] = "StartsWith"
  <2>1. render[e][st][b] = StartsWith(r, e, b)
    BY <1>2, <1>11 DEF RenderedBy
  <2>2. r[e[2]] = render[e[2]] /\ r[e[3]] = render[e[3]]
    BY <1>1, <1>11 DEF Parts
  <2>3. StartsWith(r, e, b) = StartsWith(render, e, b)
    BY <2>2 DEF StartsWith
  <2> QED BY <1>11, <2>1, <2>3
<1>12. CASE e[1] = "Between"
  <2>1. render[e][st][b] = Between(r, e, b)
    BY <1>2, <1>12 DEF RenderedBy
  <2>2. r[e[2]] = render[e[2]] /\ r[e[3]] = render[e[3]] /\ r[e[4]] = render[e[4]]
    BY <1>1, <1>12 DEF Parts
  <2>3. Between(r, e, b) = Between(render, e, b)
    BY <2>2 DEF Between
  <2> QED BY <1>12, <2>1, <2>3
<1>13. CASE e[1] \in {"And", "Or"}
  <2>1. render[e][st][b] = Joined(r, e, b)
    BY <1>2, <1>13 DEF RenderedBy
  <2>2. ASSUME e[2] = <<>> PROVE Joined(r, e, b) = Joined(render, e, b)
    BY <2>2 DEF Joined
  <2>3. ASSUME e[2] # <<>>, Tail(e[2]) = <<>> PROVE Joined(r, e, b) = Joined(render, e, b)
    <3>1. r[Head(e[2])] = render[Head(e[2])]
      BY <1>1, <1>13, <2>3 DEF Parts
    <3> QED BY <2>3, <3>1 DEF Joined
  <2>4. ASSUME e[2] # <<>>, Tail(e[2]) # <<>> PROVE Joined(r, e, b) = Joined(render, e, b)
    <3>1. r[Head(e[2])] = render[Head(e[2])] /\ r[Rest(e)] = render[Rest(e)]
      BY <1>1, <1>13, <2>4 DEF Parts
    <3> QED BY <2>4, <3>1 DEF Joined
  <2>5. Joined(r, e, b) = Joined(render, e, b)
    BY <2>2, <2>3, <2>4
  <2> QED BY <1>13, <2>1, <2>5
<1> QED BY <1>3, <1>4, <1>5, <1>6, <1>7, <1>8, <1>9, <1>10, <1>11, <1>12, <1>13

-----------------------------------------------------------------------------
(* Binds that begin like others, with nothing but encoded literals added. *)
Extends(c, b) ==
    /\ b \in Binds /\ c \in Binds /\ Len(b) <= Len(c)
    /\ \A i \in 1..Len(b) : c[i] = b[i]
    /\ \A i \in 1..Len(c) : i > Len(b) => ~IsError(c[i])

LEMMA ExtendsSelf == \A b \in Binds : Extends(b, b)
  BY DEF Extends, Binds

LEMMA ExtendsOn ==
    ASSUME NEW b, NEW c, NEW d, Extends(c, b), Extends(d, c)
    PROVE  Extends(d, b)
<1>1. Len(b) \in Nat /\ Len(c) \in Nat /\ Len(d) \in Nat
  BY DEF Extends, Binds
<1>2. /\ b \in Binds /\ d \in Binds /\ Len(b) <= Len(c) /\ Len(c) <= Len(d)
      /\ \A i \in 1..Len(b) : c[i] = b[i]
      /\ \A i \in 1..Len(c) : i > Len(b) => ~IsError(c[i])
      /\ \A i \in 1..Len(c) : d[i] = c[i]
      /\ \A i \in 1..Len(d) : i > Len(c) => ~IsError(d[i])
  BY DEF Extends
<1>3. \A i \in 1..Len(b) : d[i] = b[i]
  BY <1>1, <1>2
<1>4. ASSUME NEW i \in 1..Len(d), i > Len(b) PROVE ~IsError(d[i])
  BY <1>1, <1>2, <1>4
<1> QED BY <1>1, <1>2, <1>3, <1>4 DEF Extends

LEMMA Pushed ==
    ASSUME NEW b \in Binds, NEW s \in Seq(Encodings), \A i \in 1..Len(s) : ~IsError(s[i])
    PROVE  /\ Extends(b \o s, b)
           /\ \A B : Extends(B, b \o s) => \A i \in 1..Len(s) : B[Len(b) + i] = s[i]
<1>1. b \in Seq(Encodings) /\ Len(b) \in Nat /\ Len(s) \in Nat
  BY DEF Binds
<1>2. b \o s \in Binds /\ Len(b \o s) = Len(b) + Len(s)
  BY <1>1 DEF Binds
<1>3. \A i \in 1..Len(b) : (b \o s)[i] = b[i]
  BY <1>1
<1>4. \A i \in 1..Len(s) : (b \o s)[Len(b) + i] = s[i]
  BY <1>1
<1> DEFINE c == b \o s
<1> HIDE DEF c
<1>5. ASSUME NEW i \in 1..Len(c), i > Len(b) PROVE ~IsError(c[i])
  <2>1. i - Len(b) \in 1..Len(s) /\ Len(b) + (i - Len(b)) = i
    BY <1>1, <1>2, <1>5 DEF c
  <2>2. c[Len(b) + (i - Len(b))] = s[i - Len(b)]
    BY <1>4, <2>1 DEF c
  <2> QED BY <2>1, <2>2
<1>6. Extends(c, b)
  BY <1>1, <1>2, <1>3, <1>5 DEF Extends, c
<1>7. ASSUME NEW B, Extends(B, c), NEW i \in 1..Len(s) PROVE B[Len(b) + i] = s[i]
  <2>1. Len(b) + i \in 1..Len(c) /\ c[Len(b) + i] = s[i]
    BY <1>1, <1>2, <1>4 DEF c
  <2> QED BY <1>7, <2>1 DEF Extends
<1> QED BY <1>6, <1>7 DEF c

-----------------------------------------------------------------------------
(* An operand of kind k: where it is not null, what it is rendered to stands for
   what it means, whatever is pushed after it.                                *)
Yields(e, st, k) == \A b \in Binds :
    LET x == render[e][st][b]
    IN  /\ ~x.sql.open /\ Extends(x.binds, b)
        /\ \A B \in Binds, rec \in Records :
              Extends(B, x.binds) /\ Meant(rec, e) # Null
                  => Stands(x.sql.value[B][rec], Meant(rec, e), k)
YieldsAll(e, st, k) == \A b \in Binds :
    LET x == render[e][st][b]
    IN  /\ ~x.sql.open /\ Extends(x.binds, b)
        /\ \A B \in Binds, rec \in Records :
              Extends(B, x.binds) /\ Meant(rec, e) # Null
                  => StandAll(x.sql.value[B][rec], Meant(rec, e), k)

LEMMA ColumnYields ==
    ASSUME \A rec \in Records : TypedRecord(rec),
           NEW e \in Exprs, NEW st \in Storages, e[1] = "Column", e[2] \in DOMAIN Type,
           Type[e[2]] \notin {"Bool", "Document"}
    PROVE  /\ Type[e[2]] # "List(U64)" => Yields(e, st, KindOf(Type[e[2]]))
           /\ Type[e[2]] = "List(U64)" => YieldsAll(e, st, "number")
<1>1. ASSUME NEW b \in Binds
      PROVE  render[e][st][b] = Rendered(column_ref(e[2]), b)
  BY <1>1, RenderLeaf DEF Reference
<1>2. ASSUME NEW b \in Binds
      PROVE  /\ ~render[e][st][b].sql.open /\ Extends(render[e][st][b].binds, b)
             /\ \A B \in Binds, rec \in Records : render[e][st][b].sql.value[B][rec] = Stored(rec, e[2])
  <2>1. Extends(b, b)
    BY <1>2, ExtendsSelf
  <2>2. render[e][st][b] = Rendered(column_ref(e[2]), b)
    BY <1>1, <1>2
  <2>3. \A B \in Binds, rec \in Records : column_ref(e[2]).value[B][rec] = Stored(rec, e[2])
    BY DEF column_ref, Closed
  <2>4. ~column_ref(e[2]).open
    BY DEF column_ref, Closed
  <2> QED BY <2>1, <2>2, <2>3, <2>4 DEF Rendered
<1>3. \A rec \in Records : Meant(rec, e) = rec[e[2]] /\
        (rec[e[2]] # Null =>
            /\ Type[e[2]] # "List(U64)" => Stands(Stored(rec, e[2]), rec[e[2]], KindOf(Type[e[2]]))
            /\ Type[e[2]] = "List(U64)" => StandAll(Stored(rec, e[2]), rec[e[2]], "number"))
  <2> SUFFICES ASSUME NEW rec \in Records PROVE Meant(rec, e) = rec[e[2]] /\
        (rec[e[2]] # Null =>
            /\ Type[e[2]] # "List(U64)" => Stands(Stored(rec, e[2]), rec[e[2]], KindOf(Type[e[2]]))
            /\ Type[e[2]] = "List(U64)" => StandAll(Stored(rec, e[2]), rec[e[2]], "number"))
    OBVIOUS
  <2>1. Meant(rec, e) = Column(rec, e[2])
    BY DEF Meant
  <2> QED BY <2>1, ColumnStored
<1> QED BY <1>2, <1>3 DEF Yields, YieldsAll

(* What a column or a member holds is absent when it is nothing. *)
LEMMA ColumnAbsent ==
    ASSUME NEW rec, TypedRecord(rec), NEW c \in DOMAIN Type
    PROVE  /\ Stored(rec, c) = NONE <=> Column(rec, c) = Null
           /\ ~IsError(Stored(rec, c))
<1>1. CASE Type[c] # "Document"
  <2>1. rec[c] = Null => Stored(rec, c) = NONE
    BY <1>1, ColumnStored
  <2>2. ~IsError(NONE)
    BY DEF IsError, NONE
  <2> QED BY <1>1, <2>1, <2>2, ColumnStored
<1>2. CASE Type[c] = "Document"
  <2>1. Stored(rec, c) = Content(rec)[c]
    BY <1>2, DocumentStored DEF Stored
  <2>2. rec[c] # Null => Content(rec)[c] # NONE /\ Column(rec, c) # Null
    <3> SUFFICES ASSUME rec[c] # Null PROVE Content(rec)[c] # NONE /\ Column(rec, c) # Null
      OBVIOUS
    <3> DEFINE f == rec[c][2]
               M == {i \in DOMAIN f : f[i] # Null}
    <3>1. /\ Content(rec)[c] = <<"Object", [i \in M |-> to_scalar(f[i])]>>
          /\ Column(rec, c) = <<"Object", [i \in M |-> from_scalar(to_scalar(f[i]), "Unknown")]>>
      BY <1>2, DocumentStored
    <3> QED BY <3>1 DEF NONE, Null
  <2> QED BY <1>2, <2>1, <2>2, DocumentStored
<1> QED BY <1>1, <1>2

(* The members of a document hold values of one kind each. *)
MemberOf(e, k) ==
    /\ e[1] = "Member" /\ e[2] \in DOMAIN Type /\ Type[e[2]] = "Document"
    /\ \A rec \in Records : Meant(rec, e) # Null => KindOf(rec[e[2]][2][e[3]][1]) = k

PathOf(rec, c, m) == LET base == Content(rec)[c]
                     IN  IF base[1] = "Object" /\ m \in DOMAIN base[2] THEN base[2][m] ELSE NONE

LEMMA MemberStored ==
    ASSUME NEW rec \in Records, TypedRecord(rec), NEW e, NEW k, MemberOf(e, k)
    PROVE  /\ Meant(rec, e) = Null => PathOf(rec, e[2], e[3]) = NONE
           /\ Meant(rec, e) # Null => Stands(PathOf(rec, e[2], e[3]), Meant(rec, e), k)
<1> DEFINE c == e[2]
           m == e[3]
           f == rec[c][2]
           M == {i \in DOMAIN f : f[i] # Null}
<1>1. c \in DOMAIN Type /\ Type[c] = "Document" /\ e[1] = "Member"
  BY DEF MemberOf
<1>2. Meant(rec, e) = IF Column(rec, c) = Null \/ m \notin DOMAIN Column(rec, c)[2] THEN Null
                      ELSE Column(rec, c)[2][m]
  BY <1>1 DEF Meant
<1>3. CASE rec[c] = Null
  <2>1. Content(rec)[c] = NONE /\ Column(rec, c) = Null
    BY <1>1, <1>3, DocumentStored
  <2> QED BY <1>2, <2>1 DEF PathOf, NONE
<1>4. CASE rec[c] # Null
  <2>1. /\ \A i \in DOMAIN f : Leaf(f[i])
        /\ Content(rec)[c] = <<"Object", [i \in M |-> to_scalar(f[i])]>>
        /\ Column(rec, c) = <<"Object", [i \in M |-> from_scalar(to_scalar(f[i]), "Unknown")]>>
    BY <1>1, <1>4, DocumentStored
  <2>2. Column(rec, c) # Null
    BY <2>1 DEF Null
  <2> HIDE DEF M
  <2>3. CASE m \notin M
    BY <1>2, <2>1, <2>2, <2>3 DEF PathOf
  <2>4. CASE m \in M
    <3>1. f[m] # Null /\ Leaf(f[m])
      BY <2>1, <2>4 DEF M
    <3>2. Stands(to_scalar(f[m]), from_scalar(to_scalar(f[m]), "Unknown"), KindOf(f[m][1]))
      BY <3>1, LeafCoded
    <3>3. PathOf(rec, c, m) = to_scalar(f[m])
      BY <2>1, <2>4 DEF PathOf
    <3>4. Meant(rec, e) = from_scalar(to_scalar(f[m]), "Unknown")
      BY <1>2, <2>1, <2>2, <2>4
    <3>5. Meant(rec, e) # Null
      BY <3>2, <3>4, StandsFor
    <3>6. KindOf(f[m][1]) = k
      BY <3>5 DEF MemberOf
    <3> QED BY <3>2, <3>3, <3>4, <3>5, <3>6
  <2> QED BY <2>3, <2>4
<1> QED BY <1>3, <1>4

LEMMA MemberYields ==
    ASSUME \A rec \in Records : TypedRecord(rec),
           NEW e \in Exprs, NEW st \in Storages, NEW k, MemberOf(e, k)
    PROVE  Yields(e, st, k)
<1>1. ASSUME NEW b \in Binds
      PROVE  render[e][st][b] = Rendered(document_path(e[2], e[3]), b)
  BY <1>1, RenderLeaf DEF MemberOf
<1>2. \A B \in Binds, rec \in Records : document_path(e[2], e[3]).value[B][rec] = PathOf(rec, e[2], e[3])
  BY DEF document_path, Closed, PathOf
<1>3. ~document_path(e[2], e[3]).open
  BY DEF document_path, Closed
<1>4. \A rec \in Records : Meant(rec, e) # Null => Stands(PathOf(rec, e[2], e[3]), Meant(rec, e), k)
  BY MemberStored
<1>5. ASSUME NEW b \in Binds
      PROVE  /\ ~render[e][st][b].sql.open /\ Extends(render[e][st][b].binds, b)
             /\ \A B \in Binds, rec \in Records :
                   render[e][st][b].sql.value[B][rec] = PathOf(rec, e[2], e[3])
  <2>1. Extends(b, b)
    BY <1>5, ExtendsSelf
  <2>2. render[e][st][b] = Rendered(document_path(e[2], e[3]), b)
    BY <1>1, <1>5
  <2> QED BY <1>2, <1>3, <2>1, <2>2 DEF Rendered
<1> QED BY <1>4, <1>5 DEF Yields

(* A literal of kind k, where it is known whether it is compared with a JSON column. *)
Literal(v, k, st) ==
    /\ \E t \in IntTypes \cup {"Bool", "String", "Json"} : ValueOf(v, t) /\ KindOf(t) = k
    /\ k = "Json" <=> st = "Json"

LEMMA LiteralCoded ==
    ASSUME NEW v, NEW k, NEW st, Literal(v, k, st), NEW x, x = to_surreal_with_storage(v, st)
    PROVE  Stands(x, v, k) /\ ~IsError(x) /\ v # Null /\ v[1] # "List"
<1>1. PICK t \in IntTypes \cup {"Bool", "String", "Json"} : ValueOf(v, t) /\ KindOf(t) = k
  BY DEF Literal
<1>2. t = "Json" <=> st = "Json"
  BY <1>1 DEF Literal, KindOf, IntTypes
<1>3. to_surreal_with_storage(v, st) = to_surreal_with_storage(v, t)
  BY <1>2 DEF to_surreal_with_storage
<1>4. t \notin {"Document", "List(U64)"}
  BY DEF IntTypes
<1>5. v[1] # "List"
  BY <1>1, <1>4 DEF ValueOf, IntTypes, Plain
<1> QED BY <1>1, <1>3, <1>4, <1>5, Coded

LEMMA LiteralEncoding ==
    ASSUME NEW e \in Exprs, e[1] = "Value", NEW v \in Elements(e[2]), NEW st \in Storages
    PROVE  to_surreal_with_storage(v, st) \in Encodings
<1>1. e \in {x \in Exprs : x[1] = "Value"}
  OBVIOUS
<1>2. v \in Literals
  BY <1>1 DEF Literals
<1> QED BY <1>2 DEF Encodings

LEMMA ValueYields ==
    ASSUME NEW e \in Exprs, NEW st \in Storages, NEW k, e[1] = "Value", Literal(e[2], k, st)
    PROVE  Yields(e, st, k)
<1> DEFINE z == to_surreal_with_storage(e[2], st)
<1>1. Stands(z, e[2], k) /\ ~IsError(z) /\ e[2][1] # "List"
  BY LiteralCoded
<1>2. z \in Encodings
  BY <1>1, LiteralEncoding DEF Elements
<1> HIDE DEF z
<1>3. \A rec \in Records : Meant(rec, e) = e[2]
  BY DEF Meant
<1>4. ASSUME NEW b \in Binds
      PROVE  LET x == render[e][st][b]
             IN  /\ ~x.sql.open /\ Extends(x.binds, b)
                 /\ \A B \in Binds, rec \in Records :
                      Extends(B, x.binds) /\ Meant(rec, e) # Null
                          => Stands(x.sql.value[B][rec], Meant(rec, e), k)
  <2>1. render[e][st][b] = Rendered(Param(Len(b) + 1), Append(b, z))
    <3>1. render[e][st][b] = value_to_binds(b, e[2], st)
      BY <1>4, RenderLeaf
    <3> QED BY <1>1, <3>1 DEF value_to_binds, z
  <2>2. Append(b, z) = b \o <<z>> /\ Len(<<z>>) = 1 /\ <<z>>[1] = z /\ <<z>> \in Seq(Encodings)
    BY <1>2, <1>4 DEF Binds
  <2>3. /\ Extends(Append(b, z), b)
        /\ \A B : Extends(B, Append(b, z)) => B[Len(b) + 1] = z
    <3> DEFINE s == <<z>>
    <3>1. s \in Seq(Encodings) /\ Len(s) = 1 /\ s[1] = z /\ Append(b, z) = b \o s
      BY <2>2
    <3> HIDE DEF s
    <3>2. \A i \in 1..Len(s) : ~IsError(s[i])
      BY <1>1, <3>1
    <3>3. /\ Extends(b \o s, b)
          /\ \A B : Extends(B, b \o s) => \A i \in 1..Len(s) : B[Len(b) + i] = s[i]
      BY <1>4, <3>1, <3>2, Pushed
    <3> QED BY <3>1, <3>3
  <2>4. /\ ~Param(Len(b) + 1).open
        /\ \A B \in Binds, rec \in Records : Param(Len(b) + 1).value[B][rec] = B[Len(b) + 1]
    BY DEF Param, Closed
  <2> QED BY <1>1, <1>3, <2>1, <2>3, <2>4 DEF Rendered
<1> QED BY <1>4 DEF Yields

LEMMA ListYields ==
    ASSUME NEW e \in Exprs, NEW st \in Storages, NEW k, e[1] = "Value",
           NEW s \in Seq(Elements(e[2])), e[2] = <<"List", s>>,
           \A i \in 1..Len(s) : Literal(s[i], k, st)
    PROVE  YieldsAll(e, st, k)
<1> DEFINE z == [i \in DOMAIN s |-> to_surreal_with_storage(s[i], st)]
<1>1. DOMAIN s = 1..Len(s) /\ Len(s) \in Nat
  OBVIOUS
<1>2. ASSUME NEW i \in 1..Len(s) PROVE Stands(z[i], s[i], k) /\ ~IsError(z[i]) /\ z[i] \in Encodings
  <2>1. z[i] = to_surreal_with_storage(s[i], st) /\ Literal(s[i], k, st) /\ s[i] \in Elements(e[2])
    BY <1>1, <1>2
  <2> HIDE DEF z
  <2>2. Stands(z[i], s[i], k) /\ ~IsError(z[i])
    BY <2>1, LiteralCoded
  <2>3. z[i] \in Encodings
    BY <2>1, LiteralEncoding
  <2> QED BY <2>2, <2>3
<1>3. z \in Seq(Encodings) /\ Len(z) = Len(s) /\ DOMAIN z = 1..Len(s)
  <2>1. z = [i \in 1..Len(s) |-> z[i]]
    BY <1>1
  <2> HIDE DEF z
  <2> QED BY <1>1, <1>2, <2>1
<1> HIDE DEF z
<1>4. \A rec \in Records : Meant(rec, e) = <<"List", s>>
  BY DEF Meant
<1>5. ASSUME NEW b \in Binds
      PROVE  LET x == render[e][st][b]
             IN  /\ ~x.sql.open /\ Extends(x.binds, b)
                 /\ \A B \in Binds, rec \in Records :
                      Extends(B, x.binds) /\ Meant(rec, e) # Null
                          => StandAll(x.sql.value[B][rec], Meant(rec, e), k)
  <2>1. render[e][st][b] = Rendered(Array(Len(b), Len(s)), b \o z)
    <3>1. render[e][st][b] = value_to_binds(b, e[2], st)
      BY <1>5, RenderLeaf
    <3>2. e[2][1] = "List" /\ e[2][2] = s
      OBVIOUS
    <3> QED BY <3>1, <3>2 DEF value_to_binds, z
  <2>2. /\ Extends(b \o z, b)
        /\ \A B : Extends(B, b \o z) => \A i \in 1..Len(s) : B[Len(b) + i] = z[i]
    BY <1>2, <1>3, <1>5, Pushed
  <2>3. /\ ~Array(Len(b), Len(s)).open
        /\ \A B \in Binds, rec \in Records :
              Array(Len(b), Len(s)).value[B][rec] = <<"Array", [i \in 1..Len(s) |-> B[Len(b) + i]]>>
    BY DEF Array, Closed
  <2>4. ASSUME NEW B \in Binds, Extends(B, b \o z)
        PROVE  StandAll(<<"Array", [i \in 1..Len(s) |-> B[Len(b) + i]]>>, <<"List", s>>, k)
    BY <1>1, <1>2, <2>2, <2>4 DEF StandAll
  <2> DEFINE x == render[e][st][b]
             a == Array(Len(b), Len(s))
  <2>5. x.sql = a /\ x.binds = b \o z
    BY <2>1 DEF Rendered
  <2> HIDE DEF x, a
  <2>6. ASSUME NEW B \in Binds, NEW rec \in Records, Extends(B, x.binds)
        PROVE  StandAll(a.value[B][rec], Meant(rec, e), k)
    <3>1. a.value[B][rec] = <<"Array", [i \in 1..Len(s) |-> B[Len(b) + i]]>>
      BY <2>3 DEF a
    <3>2. StandAll(<<"Array", [i \in 1..Len(s) |-> B[Len(b) + i]]>>, <<"List", s>>, k)
      BY <2>4, <2>5, <2>6
    <3> QED BY <1>4, <3>1, <3>2
  <2>7. ~a.open
    BY <2>3 DEF a
  <2>8. Extends(x.binds, b)
    BY <2>2, <2>5
  <2> QED BY <2>5, <2>6, <2>7, <2>8 DEF x
<1> QED BY <1>5 DEF YieldsAll

LEMMA LengthYields ==
    ASSUME \A rec \in Records : TypedRecord(rec),
           NEW e \in Exprs, NEW st \in Storages, e[1] = "Length", e[2][1] = "Column",
           e[2][2] \in DOMAIN Type, Type[e[2][2]] = "List(U64)"
    PROVE  Yields(e, st, "number")
<1> DEFINE d == e[2]
<1>1. d \in Exprs /\ "none" \in Storages
  BY ExprAssumption DEF Parts, Storages
<1>2. YieldsAll(d, "none", "number")
  BY <1>1, ColumnYields
<1>3. \A rec \in Records : Meant(rec, e) = IF Meant(rec, d) = Null THEN Null ELSE <<"I64", Len(Meant(rec, d)[2])>>
  BY DEF Meant
<1>4. ASSUME NEW rec \in Records, Meant(rec, d) # Null, NEW y, StandAll(y, Meant(rec, d), "number")
      PROVE  Stands(array_len(y), <<"I64", Len(Meant(rec, d)[2])>>, "number")
  <2> DEFINE l == rec[d[2]]
  <2>1. Meant(rec, d) = l /\ d[2] \in DOMAIN Type
    BY ColumnStored DEF Meant
  <2>2. ValueOf(l, "List(U64)")
    BY <1>4, <2>1 DEF TypedRecord, IntTypes
  <2>3. PICK s \in Seq({"U64"} \X IntRange("U64")) : l = <<"List", s>>
    BY <2>2 DEF ValueOf, IntTypes
  <2>4. Len(s) \in Nat /\ DOMAIN s = 1..Len(s)
    OBVIOUS
  <2>5. y[1] = "Array" /\ DOMAIN y[2] = DOMAIN s /\ l[2] = s
    BY <1>4, <2>1, <2>3 DEF StandAll
  <2>6. Len(y[2]) = Len(s)
    BY <2>4, <2>5
  <2>7. array_len(y) = <<"Int", Len(s)>>
    BY <2>5, <2>6 DEF array_len
  <2> DEFINE n == Len(s)
             v == <<"I64", n>>
  <2>8. n \in Int /\ v[1] \in IntTypes /\ v[2] = n
    BY <2>4 DEF IntTypes
  <2> HIDE DEF v, n
  <2>9. Integer(<<"Int", n>>, v)
    BY <2>8 DEF Integer
  <2>10. Meant(rec, d)[2] = s
    BY <2>1, <2>5
  <2> QED BY <2>7, <2>9, <2>10 DEF Stands, v, n
<1> HIDE DEF d
<1>5. ASSUME NEW b \in Binds
      PROVE  LET x == render[e][st][b]
             IN  /\ ~x.sql.open /\ Extends(x.binds, b)
                 /\ \A B \in Binds, rec \in Records :
                      Extends(B, x.binds) /\ Meant(rec, e) # Null
                          => Stands(x.sql.value[B][rec], Meant(rec, e), "number")
  <2> DEFINE x == render[d]["none"][b]
  <2>1. render[e][st][b] = Rendered(LengthOf(x.sql), x.binds)
    BY <1>5, RenderInner DEF Length, d
  <2>2. /\ Extends(x.binds, b)
        /\ \A B \in Binds, rec \in Records :
              Extends(B, x.binds) /\ Meant(rec, d) # Null => StandAll(x.sql.value[B][rec], Meant(rec, d), "number")
    BY <1>2, <1>5 DEF YieldsAll
  <2> HIDE DEF x
  <2>3. /\ ~LengthOf(x.sql).open
        /\ \A B \in Binds, rec \in Records : LengthOf(x.sql).value[B][rec] = array_len(x.sql.value[B][rec])
    BY DEF LengthOf, Closed
  <2>4. \A B \in Binds, rec \in Records :
            Extends(B, x.binds) /\ Meant(rec, e) # Null
                => Stands(array_len(x.sql.value[B][rec]), Meant(rec, e), "number")
    <3> SUFFICES ASSUME NEW B \in Binds, NEW rec \in Records, Extends(B, x.binds), Meant(rec, e) # Null
                 PROVE  Stands(array_len(x.sql.value[B][rec]), Meant(rec, e), "number")
      OBVIOUS
    <3>1. Meant(rec, d) # Null /\ Meant(rec, e) = <<"I64", Len(Meant(rec, d)[2])>>
      BY <1>3
    <3> QED BY <1>4, <2>2, <3>1
  <2> QED BY <2>1, <2>2, <2>3, <2>4 DEF Rendered
<1> QED BY <1>5 DEF Yields

(* The operands of a comparison: columns, members, literals and lengths of kind k,
   and lists of them; a literal takes the storage type of what it is compared with. *)
Operand(e, k, st) ==
    \/ /\ e[1] = "Column" /\ e[2] \in DOMAIN Type /\ KindOf(Type[e[2]]) = k
       /\ Type[e[2]] \notin {"Bool", "Document", "List(U64)"}
    \/ MemberOf(e, k)
    \/ e[1] = "Value" /\ Literal(e[2], k, st)
    \/ /\ e[1] = "Length" /\ k = "number" /\ e[2][1] = "Column"
       /\ e[2][2] \in DOMAIN Type /\ Type[e[2][2]] = "List(U64)"
ListOperand(e, k, st) ==
    \/ e[1] = "Column" /\ e[2] \in DOMAIN Type /\ Type[e[2]] = "List(U64)" /\ k = "number"
    \/ /\ e[1] = "Value" /\ e[2] = <<"List", e[2][2]>> /\ e[2][2] \in Seq(Elements(e[2]))
       /\ \A i \in 1..Len(e[2][2]) : Literal(e[2][2][i], k, st)

(* One or a list. *)
Fits(x, v, k, many) == IF many = "list" THEN StandAll(x, v, k) ELSE Stands(x, v, k)
Fitting(e, k, st, many) == IF many = "list" THEN ListOperand(e, k, st) ELSE Operand(e, k, st)
Says(x, e, k, many) ==
    /\ ~x.sql.open
    /\ \A B \in Binds, rec \in Records :
          Extends(B, x.binds) /\ Meant(rec, e) # Null => Fits(x.sql.value[B][rec], Meant(rec, e), k, many)

LEMMA OperandSays ==
    ASSUME \A rec \in Records : TypedRecord(rec), NEW e \in Exprs, NEW st \in Storages, NEW k,
           NEW many, Fitting(e, k, st, many), NEW b \in Binds
    PROVE  Extends(render[e][st][b].binds, b) /\ Says(render[e][st][b], e, k, many)
<1>1. CASE many # "list"
  <2>1. Operand(e, k, st)
    BY <1>1 DEF Fitting
  <2>2. Yields(e, st, k)
    BY <2>1, ColumnYields, MemberYields, ValueYields, LengthYields DEF Operand
  <2> QED BY <1>1, <2>2 DEF Yields, Says, Fits
<1>2. CASE many = "list"
  <2>1. ListOperand(e, k, st)
    BY <1>2 DEF Fitting
  <2>2. YieldsAll(e, st, k)
    <3>1. CASE e[1] = "Column"
      BY <2>1, <3>1, ColumnYields DEF ListOperand
    <3>2. CASE e[1] = "Value"
      <4> DEFINE s == e[2][2]
      <4>1. e[2] = <<"List", s>> /\ s \in Seq(Elements(e[2])) /\ \A i \in 1..Len(s) : Literal(s[i], k, st)
        BY <2>1, <3>2 DEF ListOperand
      <4> HIDE DEF s
      <4> QED BY <3>2, <4>1, ListYields
    <3> QED BY <2>1, <3>1, <3>2 DEF ListOperand
  <2> QED BY <1>2, <2>2 DEF YieldsAll, Says, Fits
<1> QED BY <1>1, <1>2

LEMMA StorageKnown ==
    ASSUME NEW e, NEW k, NEW st, NEW many, Fitting(e, k, st, many)
    PROVE  expression_storage_ty(e) \in Storages
  BY DEF Fitting, Operand, ListOperand, MemberOf, expression_storage_ty, Storages

LEMMA FitsIsValue ==
    ASSUME NEW x, NEW v, NEW k, NEW many, Fits(x, v, k, many)
    PROVE  ~IsError(x)
<1>1. CASE many = "list"
  BY <1>1 DEF Fits, StandAll, IsError
<1>2. CASE many # "list"
  BY <1>2, StandsFor DEF Fits
<1> QED BY <1>1, <1>2

(* An operator between two operands is asked of what they stand for. *)
LEMMA SaysFits ==
    ASSUME NEW x, NEW e, NEW k, NEW many, Says(x, e, k, many),
           NEW B \in Binds, NEW rec \in Records, Extends(B, x.binds), Meant(rec, e) # Null
    PROVE  /\ Fits(x.sql.value[B][rec], Meant(rec, e), k, many)
           /\ ~x.sql.open /\ ~IsError(x.sql.value[B][rec])
<1> DEFINE v == x.sql.value[B][rec]
<1>1. ~x.sql.open /\ Fits(v, Meant(rec, e), k, many)
  BY DEF Says
<1>2. ~IsError(v)
  BY <1>1, FitsIsValue
<1> QED BY <1>1, <1>2

LEMMA InfixOf ==
    ASSUME NEW x, NEW y, NEW sym, NEW B \in Binds, NEW rec \in Records,
           ~x.open, ~y.open, ~IsError(x.value[B][rec]), ~IsError(y.value[B][rec])
    PROVE  Infix(sym, x, y).value[B][rec] = Apply(sym, x.value[B][rec], y.value[B][rec])
<1> DEFINE v == x.value[B][rec]
           w == y.value[B][rec]
<1>1. Infix(sym, x, y).value[B][rec]
        = IF x.open \/ y.open \/ IsError(v) \/ IsError(w) THEN Refused ELSE Apply(sym, v, w)
  BY DEF Infix
<1> QED BY <1>1

(* What the operators on lists answer. *)
LEMMA ListAsked ==
    ASSUME NEW x, NEW v, NEW y, NEW w, NEW k, Stands(x, v, k), StandAll(y, w, k)
    PROVE  Apply("In", x, y) = Truth(In(v, w)) /\ Apply("Contains", y, x) = Truth(In(v, w))
<1>1. y[1] = "Array" /\ (Has(y, x) <=> In(v, w))
  BY HasIsIn DEF StandAll
<1>2. (y[1] = "Array" /\ Has(y, x)) = In(v, w)
  BY <1>1 DEF Has, In
<1>3. Apply("In", x, y) = Truth(y[1] = "Array" /\ Has(y, x))
  BY DEF Apply
<1>4. Apply("Contains", y, x) = Truth(y[1] = "Array" /\ Has(y, x))
  BY DEF Apply
<1> QED BY <1>2, <1>3, <1>4

LEMMA ListsCompared ==
    ASSUME NEW x, NEW v, NEW y, NEW w, NEW k, StandAll(x, v, k), StandAll(y, w, k)
    PROVE  /\ Apply("ContainsAll", x, y) = Truth(\A i \in DOMAIN w[2] : In(w[2][i], v))
           /\ Apply("ContainsAny", x, y) = Truth(\E i \in DOMAIN w[2] : In(w[2][i], v))
<1>1. x[1] = "Array" /\ DOMAIN y[2] = DOMAIN w[2]
  BY DEF StandAll
<1>2. \A i \in DOMAIN w[2] : Has(x, y[2][i]) <=> In(w[2][i], v)
  BY HasIsIn DEF StandAll
<1>3. (x[1] = "Array" /\ \A i \in DOMAIN y[2] : Has(x, y[2][i])) = (\A i \in DOMAIN w[2] : In(w[2][i], v))
  BY <1>1, <1>2
<1>4. (x[1] = "Array" /\ \E i \in DOMAIN y[2] : Has(x, y[2][i])) = (\E i \in DOMAIN w[2] : In(w[2][i], v))
  BY <1>1, <1>2
<1>5. Apply("ContainsAll", x, y) = Truth(x[1] = "Array" /\ \A i \in DOMAIN y[2] : Has(x, y[2][i]))
  BY DEF Apply
<1>6. Apply("ContainsAny", x, y) = Truth(x[1] = "Array" /\ \E i \in DOMAIN y[2] : Has(x, y[2][i]))
  BY DEF Apply
<1> QED BY <1>3, <1>4, <1>5, <1>6

LEMMA OperandsSay ==
    ASSUME \A rec \in Records : TypedRecord(rec), NEW l \in Exprs, NEW r \in Exprs, NEW k,
           NEW m, NEW n, Fitting(l, k, expression_storage_ty(r), m),
           Fitting(r, k, expression_storage_ty(l), n), NEW sym, NEW b \in Binds
    PROVE  LET z == Operands(render, sym, l, r, b)
           IN  /\ Extends(z.binds, b)
               /\ \A B \in Binds, rec \in Records :
                     Extends(B, z.binds) /\ Meant(rec, l) # Null /\ Meant(rec, r) # Null =>
                        \E v, w : /\ Fits(v, Meant(rec, l), k, m) /\ Fits(w, Meant(rec, r), k, n)
                                  /\ z.sql.value[B][rec] = Apply(sym, v, w)
<1> DEFINE s == expression_storage_ty(r)
           t == expression_storage_ty(l)
           x == render[l][s][b]
           y == render[r][t][x.binds]
           z == Operands(render, sym, l, r, b)
<1>1. s \in Storages /\ t \in Storages
  BY StorageKnown
<1>2. z.sql = Infix(sym, x.sql, y.sql) /\ z.binds = y.binds
  BY DEF Operands, Rendered
<1> HIDE DEF s, t, x, y, z
<1>3. Extends(x.binds, b) /\ Says(x, l, k, m)
  BY <1>1, OperandSays DEF x, s
<1>4. x.binds \in Binds
  BY <1>3 DEF Extends
<1>5. Extends(y.binds, x.binds) /\ Says(y, r, k, n)
  BY <1>1, <1>4, OperandSays DEF y, t
<1>6. Extends(z.binds, b)
  BY <1>2, <1>3, <1>5, ExtendsOn
<1>7. ASSUME NEW B \in Binds, NEW rec \in Records, Extends(B, x.binds), Extends(B, y.binds),
             Meant(rec, l) # Null, Meant(rec, r) # Null
      PROVE  \E v, w : /\ Fits(v, Meant(rec, l), k, m) /\ Fits(w, Meant(rec, r), k, n)
                       /\ z.sql.value[B][rec] = Apply(sym, v, w)
  <2> DEFINE v == x.sql.value[B][rec]
             w == y.sql.value[B][rec]
  <2>1. Fits(v, Meant(rec, l), k, m) /\ ~x.sql.open /\ ~IsError(v)
    BY <1>3, <1>7, SaysFits
  <2>2. Fits(w, Meant(rec, r), k, n) /\ ~y.sql.open /\ ~IsError(w)
    BY <1>5, <1>7, SaysFits
  <2>3. Infix(sym, x.sql, y.sql).value[B][rec] = Apply(sym, v, w)
    BY <2>1, <2>2, InfixOf
  <2> HIDE DEF v, w
  <2> QED BY <1>2, <2>1, <2>2, <2>3
<1>8. \A B : Extends(B, z.binds) => Extends(B, y.binds) /\ Extends(B, x.binds)
  BY <1>2, <1>5, ExtendsOn
<1> QED BY <1>6, <1>7, <1>8 DEF z

-----------------------------------------------------------------------------
(* A condition that is no conjunction, disjunction or negation: it is answered as
   it holds of the row, where that is clear.                                  *)
Answered(e, x, b) ==
    /\ Extends(x.binds, b)
    /\ \A B \in Binds, rec \in Records : Extends(B, x.binds) /\ Clear(rec, e) =>
          \E h \in BOOLEAN : x.sql.value[B][rec] = Truth(h) /\ (h <=> Holds(rec, e))
Answers(e) == \A b \in Binds : Answered(e, render[e]["none"][b], b)

LEMMA NoStorageKnown == "none" \in Storages
  BY DEF Storages

LEMMA CompareTruth ==
    ASSUME NEW op \in {"Eq", "Ne", "Lt", "Le", "Gt", "Ge"}, NEW v, NEW w
    PROVE  Compare(op, v, w) \in BOOLEAN
<1>1. CASE op = "Eq"
  BY <1>1 DEF Compare, Equal
<1>2. CASE op = "Ne"
  BY <1>2 DEF Compare
<1>3. CASE op = "Lt"
  BY <1>3 DEF Compare
<1>4. CASE op = "Le"
  BY <1>4 DEF Compare
<1>5. CASE op = "Gt"
  BY <1>5 DEF Compare
<1>6. CASE op = "Ge"
  BY <1>6 DEF Compare
<1> QED BY <1>1, <1>2, <1>3, <1>4, <1>5, <1>6

LEMMA BinaryAnswers ==
    ASSUME \A rec \in Records : TypedRecord(rec), NEW e \in Exprs, e[1] = "Binary", NEW k,
           Operand(e[3], k, expression_storage_ty(e[4])), Operand(e[4], k, expression_storage_ty(e[3])),
           e[2] \in {"Eq", "Ne"} \/ (k = "number" /\ e[2] \in {"Lt", "Le", "Gt", "Ge"})
    PROVE  Answers(e)
<1> DEFINE l == e[3]
           r == e[4]
           one == "one"
<1>1. l \in Exprs /\ r \in Exprs
  BY ExprAssumption DEF Parts
<1>2. Fitting(l, k, expression_storage_ty(r), one) /\ Fitting(r, k, expression_storage_ty(l), one)
  BY DEF Fitting
<1>3. \A rec : Clear(rec, e) => Meant(rec, l) # Null /\ Meant(rec, r) # Null
  BY DEF Clear, Parts
<1>4. \A rec : Holds(rec, e) <=> Compare(e[2], Meant(rec, l), Meant(rec, r))
  BY DEF Holds
<1>5. \A v, w : Compare(e[2], v, w) \in BOOLEAN
  BY CompareTruth
<1> HIDE DEF l, r, one
<1>6. ASSUME NEW b \in Binds
      PROVE  Answered(e, render[e]["none"][b], b)
  <2> DEFINE x == render[e]["none"][b]
  <2>1. x = Operands(render, e[2], l, r, b)
    BY <1>6, NoStorageKnown, RenderInner DEF l, r
  <2> HIDE DEF x
  <2>2. /\ Extends(x.binds, b)
        /\ \A B \in Binds, rec \in Records :
              Extends(B, x.binds) /\ Meant(rec, l) # Null /\ Meant(rec, r) # Null =>
                 \E v, w : /\ Fits(v, Meant(rec, l), k, one) /\ Fits(w, Meant(rec, r), k, one)
                           /\ x.sql.value[B][rec] = Apply(e[2], v, w)
    BY <1>1, <1>2, <1>6, <2>1, OperandsSay
  <2>3. ASSUME NEW B \in Binds, NEW rec \in Records, Extends(B, x.binds), Clear(rec, e)
        PROVE  \E h \in BOOLEAN : x.sql.value[B][rec] = Truth(h) /\ (h <=> Holds(rec, e))
    <3>1. PICK v, w : /\ Fits(v, Meant(rec, l), k, one) /\ Fits(w, Meant(rec, r), k, one)
                      /\ x.sql.value[B][rec] = Apply(e[2], v, w)
      BY <1>3, <2>2, <2>3
    <3>2. Apply(e[2], v, w) = Truth(Compare(e[2], Meant(rec, l), Meant(rec, r)))
      BY <3>1, Compared DEF Fits, one
    <3> QED BY <1>4, <1>5, <3>1, <3>2
  <2>4. Answered(e, x, b)
    BY <2>2, <2>3, Zenon DEF Answered
  <2> QED BY <2>4, Zenon DEF x
<1> QED BY <1>6 DEF Answers

LEMMA ListsAnswer ==
    ASSUME \A rec \in Records : TypedRecord(rec), NEW e \in Exprs, e[1] \in {"IsSuperset", "Intersects"},
           NEW k, ListOperand(e[2], k, expression_storage_ty(e[3])),
           ListOperand(e[3], k, expression_storage_ty(e[2]))
    PROVE  Answers(e)
<1> DEFINE l == e[2]
           r == e[3]
           all == "list"
           sym == IF e[1] = "IsSuperset" THEN "ContainsAll" ELSE "ContainsAny"
           H(v, w) == IF e[1] = "IsSuperset" THEN \A i \in DOMAIN w[2] : In(w[2][i], v)
                      ELSE \E i \in DOMAIN w[2] : In(w[2][i], v)
<1>1. l \in Exprs /\ r \in Exprs
  BY ExprAssumption DEF Parts
<1>2. Fitting(l, k, expression_storage_ty(r), all) /\ Fitting(r, k, expression_storage_ty(l), all)
  BY DEF Fitting
<1>3. \A rec : Clear(rec, e) => Meant(rec, l) # Null /\ Meant(rec, r) # Null
  BY DEF Clear, Parts
<1>4. \A rec : Holds(rec, e) <=> H(Meant(rec, l), Meant(rec, r))
  <2>1. CASE e[1] = "IsSuperset"
    BY <2>1 DEF Holds
  <2>2. CASE e[1] = "Intersects"
    BY <2>2 DEF Holds
  <2> QED BY <2>1, <2>2
<1>5. \A v, w : H(v, w) \in BOOLEAN
  OBVIOUS
<1>6. ASSUME NEW x, NEW v, NEW y, NEW w, StandAll(x, v, k), StandAll(y, w, k)
      PROVE  Apply(sym, x, y) = Truth(H(v, w))
  <2>1. /\ Apply("ContainsAll", x, y) = Truth(\A i \in DOMAIN w[2] : In(w[2][i], v))
        /\ Apply("ContainsAny", x, y) = Truth(\E i \in DOMAIN w[2] : In(w[2][i], v))
    BY <1>6, ListsCompared
  <2>2. CASE e[1] = "IsSuperset"
    <3>1. H(v, w) = (\A i \in DOMAIN w[2] : In(w[2][i], v))
      BY <2>2
    <3>2. sym = "ContainsAll"
      BY <2>2
    <3> QED BY <2>1, <3>1, <3>2
  <2>3. CASE e[1] = "Intersects"
    <3>1. H(v, w) = (\E i \in DOMAIN w[2] : In(w[2][i], v))
      BY <2>3
    <3>2. sym = "ContainsAny"
      BY <2>3
    <3> QED BY <2>1, <3>1, <3>2
  <2> QED BY <2>2, <2>3
<1>7. ASSUME NEW b \in Binds PROVE render[e]["none"][b] = Operands(render, sym, l, r, b)
  BY <1>7, NoStorageKnown, RenderInner
<1> HIDE DEF l, r, all, sym, H
<1>8. ASSUME NEW b \in Binds
      PROVE  Answered(e, render[e]["none"][b], b)
  <2> DEFINE x == render[e]["none"][b]
  <2>1. x = Operands(render, sym, l, r, b)
    BY <1>7, <1>8
  <2> HIDE DEF x
  <2>2. /\ Extends(x.binds, b)
        /\ \A B \in Binds, rec \in Records :
              Extends(B, x.binds) /\ Meant(rec, l) # Null /\ Meant(rec, r) # Null =>
                 \E v, w : /\ Fits(v, Meant(rec, l), k, all) /\ Fits(w, Meant(rec, r), k, all)
                           /\ x.sql.value[B][rec] = Apply(sym, v, w)
    BY <1>1, <1>2, <1>8, <2>1, OperandsSay
  <2>3. ASSUME NEW B \in Binds, NEW rec \in Records, Extends(B, x.binds), Clear(rec, e)
        PROVE  \E h \in BOOLEAN : x.sql.value[B][rec] = Truth(h) /\ (h <=> Holds(rec, e))
    <3>1. PICK v, w : /\ Fits(v, Meant(rec, l), k, all) /\ Fits(w, Meant(rec, r), k, all)
                      /\ x.sql.value[B][rec] = Apply(sym, v, w)
      BY <1>3, <2>2, <2>3
    <3>2. Apply(sym, v, w) = Truth(H(Meant(rec, l), Meant(rec, r)))
      BY <1>6, <3>1 DEF Fits, all
    <3> QED BY <1>4, <1>5, <3>1, <3>2
  <2>4. Answered(e, x, b)
    BY <2>2, <2>3, Zenon DEF Answered
  <2> QED BY <2>4, Zenon DEF x
<1> QED BY <1>8 DEF Answers

(* One operand after another, each with the storage type that it gets. *)
LEMMA OperandAt ==
    ASSUME \A rec \in Records : TypedRecord(rec), NEW e \in Exprs, NEW st \in Storages, NEW k,
           NEW many, Fitting(e, k, st, many), NEW b \in Binds, NEW x, x = render[e][st][b]
    PROVE  Extends(x.binds, b) /\ x.binds \in Binds /\ Says(x, e, k, many)
<1> DEFINE z == render[e][st][b]
<1>1. Extends(z.binds, b) /\ Says(z, e, k, many)
  BY OperandSays, Zenon
<1>2. z.binds \in Binds
  BY <1>1, Zenon DEF Extends
<1> HIDE DEF z
<1>3. x = z
  BY DEF z
<1> QED BY <1>1, <1>2, <1>3

LEMMA InListAnswers ==
    ASSUME \A rec \in Records : TypedRecord(rec), NEW e \in Exprs, e[1] = "InList", NEW k,
           Operand(e[2], k, "none"), ListOperand(e[3], k, expression_storage_ty(e[2]))
    PROVE  Answers(e)
<1> DEFINE l == e[2]
           r == e[3]
           t == expression_storage_ty(l)
           one == "one"
           all == "list"
<1>1. l \in Exprs /\ r \in Exprs
  BY ExprAssumption DEF Parts
<1>2. Fitting(l, k, "none", one) /\ Fitting(r, k, t, all)
  BY DEF Fitting
<1>3. "none" \in Storages /\ t \in Storages
  BY <1>2, NoStorageKnown, StorageKnown
<1>4. \A rec : Clear(rec, e) => Meant(rec, l) # Null /\ Meant(rec, r) # Null
  BY DEF Clear, Parts
<1>5. \A rec : Holds(rec, e) <=> In(Meant(rec, l), Meant(rec, r))
  BY DEF Holds
<1>6. \A v, w : In(v, w) \in BOOLEAN
  BY DEF In
<1> HIDE DEF l, r, t, one, all
<1>7. ASSUME NEW b \in Binds
      PROVE  Answered(e, render[e]["none"][b], b)
  <2> DEFINE z == render[e]["none"][b]
             x == render[l]["none"][b]
             y == render[r][t][x.binds]
  <2>1. z = Rendered(Infix("In", x.sql, y.sql), y.binds)
    <3>1. z = InList(render, e, b)
      BY <1>3, <1>7, RenderInner
    <3> QED BY <3>1 DEF InList, l, r, t
  <2>2. z.sql = Infix("In", x.sql, y.sql) /\ z.binds = y.binds
    BY <2>1 DEF Rendered
  <2>3. /\ Says(x, l, k, one) /\ Says(y, r, k, all)
        /\ Extends(y.binds, b) /\ Extends(y.binds, x.binds)
    <3>1. x = render[l]["none"][b] /\ y = render[r][t][x.binds]
      OBVIOUS
    <3> HIDE DEF x, y, z
    <3>2. Extends(x.binds, b) /\ x.binds \in Binds /\ Says(x, l, k, one)
      BY <1>1, <1>2, <1>3, <1>7, <3>1, OperandAt, Zenon
    <3>3. Extends(y.binds, x.binds) /\ y.binds \in Binds /\ Says(y, r, k, all)
      BY <1>1, <1>2, <1>3, <1>7, <3>1, <3>2, OperandAt, Zenon
    <3> QED BY <3>2, <3>3, ExtendsOn
  <2> HIDE DEF x, y, z
  <2>4. ASSUME NEW B \in Binds, NEW rec \in Records, Extends(B, z.binds), Clear(rec, e)
        PROVE  \E h \in BOOLEAN : z.sql.value[B][rec] = Truth(h) /\ (h <=> Holds(rec, e))
    <3>1. Extends(B, y.binds) /\ Extends(B, x.binds)
      BY <2>2, <2>3, <2>4, ExtendsOn
    <3> DEFINE v == x.sql.value[B][rec]
               w == y.sql.value[B][rec]
    <3>2. /\ Fits(v, Meant(rec, l), k, one) /\ Fits(w, Meant(rec, r), k, all)
          /\ Infix("In", x.sql, y.sql).value[B][rec] = Apply("In", v, w)
      <4>1. Fits(v, Meant(rec, l), k, one) /\ ~x.sql.open /\ ~IsError(v)
        BY <1>4, <2>3, <2>4, <3>1, SaysFits
      <4>2. Fits(w, Meant(rec, r), k, all) /\ ~y.sql.open /\ ~IsError(w)
        BY <1>4, <2>3, <2>4, <3>1, SaysFits
      <4> QED BY <4>1, <4>2, InfixOf
    <3> HIDE DEF v, w
    <3>3. Apply("In", v, w) = Truth(In(Meant(rec, l), Meant(rec, r)))
      BY <3>2, ListAsked DEF Fits, one, all
    <3> QED BY <1>5, <1>6, <2>2, <3>2, <3>3
  <2>5. Answered(e, z, b)
    BY <2>2, <2>3, <2>4 DEF Answered
  <2> QED BY <2>5, Zenon DEF z
<1> QED BY <1>7 DEF Answers

LEMMA AnyOpAnswers ==
    ASSUME \A rec \in Records : TypedRecord(rec), NEW e \in Exprs, e[1] = "AnyOp", e[2] = "Eq", NEW k,
           Operand(e[3], k, expression_storage_ty(e[4])), ListOperand(e[4], k, "none")
    PROVE  Answers(e)
<1> DEFINE l == e[3]
           r == e[4]
           s == expression_storage_ty(r)
           one == "one"
           all == "list"
<1>1. l \in Exprs /\ r \in Exprs
  BY ExprAssumption DEF Parts
<1>2. Fitting(l, k, s, one) /\ Fitting(r, k, "none", all)
  BY DEF Fitting
<1>3. "none" \in Storages /\ s \in Storages
  BY <1>2, NoStorageKnown, StorageKnown
<1>4. \A rec : Clear(rec, e) => Meant(rec, l) # Null /\ Meant(rec, r) # Null
  BY DEF Clear, Parts
<1>5. \A rec : Holds(rec, e) <=> In(Meant(rec, l), Meant(rec, r))
  BY DEF Holds
<1>6. \A v, w : In(v, w) \in BOOLEAN
  BY DEF In
<1> HIDE DEF l, r, s, one, all
<1>7. ASSUME NEW b \in Binds
      PROVE  Answered(e, render[e]["none"][b], b)
  <2> DEFINE z == render[e]["none"][b]
             x == render[l][s][b]
             y == render[r]["none"][x.binds]
  <2>1. z = Rendered(Infix("Contains", y.sql, x.sql), y.binds)
    <3>1. z = AnyOp(render, e, b)
      BY <1>3, <1>7, RenderInner
    <3> QED BY <3>1 DEF AnyOp, l, r, s
  <2>2. z.sql = Infix("Contains", y.sql, x.sql) /\ z.binds = y.binds
    BY <2>1 DEF Rendered
  <2>3. /\ Says(x, l, k, one) /\ Says(y, r, k, all)
        /\ Extends(y.binds, b) /\ Extends(y.binds, x.binds)
    <3>1. x = render[l][s][b] /\ y = render[r]["none"][x.binds]
      OBVIOUS
    <3> HIDE DEF x, y, z
    <3>2. Extends(x.binds, b) /\ x.binds \in Binds /\ Says(x, l, k, one)
      BY <1>1, <1>2, <1>3, <1>7, <3>1, OperandAt, Zenon
    <3>3. Extends(y.binds, x.binds) /\ y.binds \in Binds /\ Says(y, r, k, all)
      BY <1>1, <1>2, <1>3, <1>7, <3>1, <3>2, OperandAt, Zenon
    <3> QED BY <3>2, <3>3, ExtendsOn
  <2> HIDE DEF x, y, z
  <2>4. ASSUME NEW B \in Binds, NEW rec \in Records, Extends(B, z.binds), Clear(rec, e)
        PROVE  \E h \in BOOLEAN : z.sql.value[B][rec] = Truth(h) /\ (h <=> Holds(rec, e))
    <3>1. Extends(B, y.binds) /\ Extends(B, x.binds)
      BY <2>2, <2>3, <2>4, ExtendsOn
    <3> DEFINE v == x.sql.value[B][rec]
               w == y.sql.value[B][rec]
    <3>2. /\ Fits(w, Meant(rec, r), k, all) /\ Fits(v, Meant(rec, l), k, one)
          /\ Infix("Contains", y.sql, x.sql).value[B][rec] = Apply("Contains", w, v)
      <4>1. Fits(v, Meant(rec, l), k, one) /\ ~x.sql.open /\ ~IsError(v)
        BY <1>4, <2>3, <2>4, <3>1, SaysFits
      <4>2. Fits(w, Meant(rec, r), k, all) /\ ~y.sql.open /\ ~IsError(w)
        BY <1>4, <2>3, <2>4, <3>1, SaysFits
      <4> QED BY <4>1, <4>2, InfixOf
    <3> HIDE DEF v, w
    <3>3. Apply("Contains", w, v) = Truth(In(Meant(rec, l), Meant(rec, r)))
      BY <3>2, ListAsked DEF Fits, one, all
    <3> QED BY <1>5, <1>6, <2>2, <3>2, <3>3
  <2>5. Answered(e, z, b)
    BY <2>2, <2>3, <2>4 DEF Answered
  <2> QED BY <2>5, Zenon DEF z
<1> QED BY <1>7 DEF Answers

(* Both sides of a range are asked of what they mean. *)
LEMMA BothSay ==
    ASSUME NEW x, NEW y, NEW B \in Binds, NEW rec \in Records, NEW g \in BOOLEAN, NEW h \in BOOLEAN,
           x.value[B][rec] = Truth(g), y.value[B][rec] = Truth(h)
    PROVE  /\ Both(x, y).value[B][rec] = Truth(g /\ h)
           /\ Either(x, y).value[B][rec] = Truth(g \/ h)
           /\ Negated(x).value[B][rec] = Truth(~g)
<1>1. /\ Both(x, y).value[B][rec] = And(Truth(g), Truth(h))
      /\ Either(x, y).value[B][rec] = Or(Truth(g), Truth(h))
      /\ Negated(x).value[B][rec] = Not(Truth(g))
  BY DEF Both, Either, Negated, Closed
<1>2. ~IsError(Truth(g)) /\ ~IsError(Truth(h))
  BY DEF IsError, Truth
<1>3. (Truth(g) = Truth(TRUE)) = g /\ (Truth(h) = Truth(TRUE)) = h
  BY DEF Truth
<1>4. And(Truth(g), Truth(h)) = Truth(g /\ h)
  <2>1. (Truth(g) = Truth(TRUE) /\ Truth(h) = Truth(TRUE)) = (g /\ h)
    BY <1>3
  <2> QED BY <1>2, <2>1 DEF And
<1>5. Or(Truth(g), Truth(h)) = Truth(g \/ h)
  <2>1. (Truth(g) = Truth(TRUE) \/ Truth(h) = Truth(TRUE)) = (g \/ h)
    BY <1>3
  <2> QED BY <1>2, <2>1 DEF Or
<1>6. Not(Truth(g)) = Truth(~g)
  <2>1. (Truth(g) # Truth(TRUE)) = (~g)
    BY <1>3
  <2> QED BY <1>2, <2>1 DEF Not
<1> QED BY <1>1, <1>4, <1>5, <1>6

LEMMA BetweenAnswers ==
    ASSUME \A rec \in Records : TypedRecord(rec), NEW e \in Exprs, e[1] = "Between",
           Operand(e[2], "number", "none"),
           Operand(e[3], "number", expression_storage_ty(e[2])),
           Operand(e[4], "number", expression_storage_ty(e[2]))
    PROVE  Answers(e)
<1> DEFINE l == e[2]
           r == e[3]
           u == e[4]
           t == expression_storage_ty(l)
           N == "number"
           one == "one"
<1>1. l \in Exprs /\ r \in Exprs /\ u \in Exprs
  BY ExprAssumption DEF Parts
<1>2. Fitting(l, N, "none", one) /\ Fitting(r, N, t, one) /\ Fitting(u, N, t, one)
  BY DEF Fitting
<1>3. "none" \in Storages /\ t \in Storages
  BY <1>2, NoStorageKnown, StorageKnown
<1>4. \A rec : Clear(rec, e) => Meant(rec, l) # Null /\ Meant(rec, r) # Null /\ Meant(rec, u) # Null
  BY DEF Clear, Parts
<1>5. \A rec : Holds(rec, e) <=> Meant(rec, r)[2] <= Meant(rec, l)[2] /\ Meant(rec, l)[2] <= Meant(rec, u)[2]
  BY DEF Holds
<1> HIDE DEF l, r, u, t, N, one
<1>6. ASSUME NEW b \in Binds
      PROVE  Answered(e, render[e]["none"][b], b)
  <2> DEFINE z == render[e]["none"][b]
             x == render[l]["none"][b]
             y == render[r][t][x.binds]
             w == render[u][t][y.binds]
             above == Infix("Ge", x.sql, y.sql)
             below == Infix("Le", x.sql, w.sql)
  <2>1. z = Rendered(Both(above, below), w.binds)
    <3>1. z = Between(render, e, b)
      BY <1>3, <1>6, RenderInner
    <3>2. Between(render, e, b) = Rendered(Both(above, below), w.binds)
      BY DEF Between, l, r, u, t
    <3> QED BY <3>1, <3>2, Zenon
  <2>2. z.sql = Both(above, below) /\ z.binds = w.binds
    <3> HIDE DEF z, above, below, w
    <3> QED BY <2>1 DEF Rendered
  <2>3. /\ Says(x, l, N, one) /\ Says(y, r, N, one) /\ y.binds \in Binds
        /\ Extends(y.binds, b) /\ Extends(y.binds, x.binds)
    <3>1. x = render[l]["none"][b] /\ y = render[r][t][x.binds]
      OBVIOUS
    <3> HIDE DEF x, y, z
    <3>2. Extends(x.binds, b) /\ x.binds \in Binds /\ Says(x, l, N, one)
      BY <1>1, <1>2, <1>3, <1>6, <3>1, OperandAt, Zenon
    <3>3. Extends(y.binds, x.binds) /\ y.binds \in Binds /\ Says(y, r, N, one)
      BY <1>1, <1>2, <1>3, <1>6, <3>1, <3>2, OperandAt, Zenon
    <3> QED BY <3>2, <3>3, ExtendsOn
  <2>4. Extends(w.binds, y.binds) /\ Says(w, u, N, one)
    <3>1. w = render[u][t][y.binds]
      OBVIOUS
    <3> HIDE DEF x, y, z, w
    <3> QED BY <1>1, <1>2, <1>3, <2>3, <3>1, OperandAt, Zenon
  <2> HIDE DEF x, y, z, w
  <2>7. ASSUME NEW B \in Binds, NEW rec \in Records, Extends(B, z.binds), Clear(rec, e)
        PROVE  \E h \in BOOLEAN : z.sql.value[B][rec] = Truth(h) /\ (h <=> Holds(rec, e))
    <3> DEFINE i == Meant(rec, l)
               j == Meant(rec, r)
               n == Meant(rec, u)
    <3>1. Extends(B, w.binds)
      BY <2>2, <2>7
    <3>2. Extends(B, y.binds)
      BY <2>4, <3>1, ExtendsOn
    <3>3. Extends(B, x.binds)
      BY <2>3, <3>2, ExtendsOn
    <3>4. i # Null /\ j # Null /\ n # Null
      BY <1>4, <2>7
    <3>5. above.value[B][rec] = Truth(Compare("Ge", i, j))
      <4> DEFINE p == x.sql.value[B][rec]
                 q == y.sql.value[B][rec]
      <4>1. Fits(p, i, N, one) /\ ~x.sql.open /\ ~IsError(p)
        BY <2>3, <2>7, <3>3, <3>4, SaysFits
      <4>2. Fits(q, j, N, one) /\ ~y.sql.open /\ ~IsError(q)
        BY <2>3, <2>4, <2>7, <3>1, <3>2, <3>4, SaysFits
      <4>3. above.value[B][rec] = Apply("Ge", p, q)
        BY <4>1, <4>2, InfixOf
      <4> HIDE DEF i, j, n, above, below, p, q
      <4> QED BY <4>1, <4>2, <4>3, Compared DEF Fits, N, one
    <3>6. below.value[B][rec] = Truth(Compare("Le", i, n))
      <4> DEFINE p == x.sql.value[B][rec]
                 q == w.sql.value[B][rec]
      <4>1. Fits(p, i, N, one) /\ ~x.sql.open /\ ~IsError(p)
        BY <2>3, <2>7, <3>3, <3>4, SaysFits
      <4>2. Fits(q, n, N, one) /\ ~w.sql.open /\ ~IsError(q)
        BY <2>3, <2>4, <2>7, <3>1, <3>2, <3>4, SaysFits
      <4>3. below.value[B][rec] = Apply("Le", p, q)
        BY <4>1, <4>2, InfixOf
      <4> HIDE DEF i, j, n, above, below, p, q
      <4> QED BY <4>1, <4>2, <4>3, Compared DEF Fits, N, one
    <3> HIDE DEF i, j, n, above, below
    <3> DEFINE g == Compare("Ge", i, j)
               h == Compare("Le", i, n)
    <3>7. g \in BOOLEAN /\ h \in BOOLEAN
      BY CompareTruth
    <3>8. (g <=> i[2] >= j[2]) /\ (h <=> i[2] <= n[2])
      BY DEF Compare
    <3>9. above.value[B][rec] = Truth(g) /\ below.value[B][rec] = Truth(h)
      BY <3>5, <3>6
    <3> HIDE DEF g, h
    <3>10. z.sql.value[B][rec] = Truth(g /\ h)
      BY <2>2, <3>7, <3>9, BothSay
    <3>11. (g /\ h) \in BOOLEAN /\ ((g /\ h) <=> Holds(rec, e))
      BY <1>5, <3>7, <3>8 DEF i, j, n
    <3> QED BY <3>10, <3>11
  <2>8. Extends(w.binds, b)
    BY <2>3, <2>4, ExtendsOn
  <2>9. Answered(e, z, b)
    BY <2>2, <2>7, <2>8 DEF Answered
  <2> QED BY <2>9, Zenon DEF z
<1> QED BY <1>6 DEF Answers

(* What is rendered without a literal. *)
LEMMA PlainAnswers ==
    ASSUME NEW e \in Exprs, NEW sql, \A b \in Binds : render[e]["none"][b] = Rendered(sql, b),
           \A B \in Binds, rec \in Records : Clear(rec, e) =>
              \E h \in BOOLEAN : sql.value[B][rec] = Truth(h) /\ (h <=> Holds(rec, e))
    PROVE  Answers(e)
<1> SUFFICES ASSUME NEW b \in Binds
             PROVE  Answered(e, render[e]["none"][b], b)
  BY DEF Answers
<1> DEFINE x == render[e]["none"][b]
<1>1. x.sql = sql /\ x.binds = b
  <2>1. x = Rendered(sql, b)
    OBVIOUS
  <2> HIDE DEF x
  <2> QED BY <2>1 DEF Rendered
<1> HIDE DEF x
<1>2. Extends(x.binds, b)
  BY <1>1, ExtendsSelf
<1>3. Answered(e, x, b)
  BY <1>1, <1>2 DEF Answered
<1> QED BY <1>3, Zenon DEF x

(* A bool column by itself. *)
LEMMA FlagAnswers ==
    ASSUME \A rec \in Records : TypedRecord(rec), NEW e \in Exprs, e[1] = "Column",
           e[2] \in DOMAIN Type, Type[e[2]] = "Bool"
    PROVE  Answers(e)
<1> DEFINE c == e[2]
           sql == Infix("Eq", column_ref(c), Constant(Truth(TRUE)))
<1>1. ASSUME NEW b \in Binds PROVE render[e]["none"][b] = Rendered(sql, b)
  <2>1. render[e]["none"][b] = Reference(c, b)
    BY <1>1, NoStorageKnown, RenderLeaf
  <2> QED BY <2>1 DEF Reference
<1>2. ASSUME NEW B \in Binds, NEW rec \in Records, Clear(rec, e)
      PROVE  \E h \in BOOLEAN : sql.value[B][rec] = Truth(h) /\ (h <=> Holds(rec, e))
  <2> DEFINE v == Stored(rec, c)
             w == rec[c]
             h == w = <<"Bool", TRUE>>
  <2>1. Meant(rec, e) = Column(rec, c) /\ Column(rec, c) = w
    BY ColumnStored DEF Meant
  <2>2. w # Null
    BY <1>2, <2>1 DEF Clear
  <2>3. Stands(v, w, "Bool")
    BY <2>2, ColumnStored DEF KindOf, IntTypes
  <2>4. v = w /\ w[1] = "Bool"
    BY <2>3 DEF Stands, Plain
  <2>5. column_ref(c).value[B][rec] = v /\ ~column_ref(c).open
    BY DEF column_ref, Closed
  <2>6. Constant(Truth(TRUE)).value[B][rec] = Truth(TRUE) /\ ~Constant(Truth(TRUE)).open
    BY DEF Constant, Closed
  <2>7. ~IsError(v) /\ ~IsError(Truth(TRUE))
    BY <2>4 DEF IsError, Truth
  <2>8. sql.value[B][rec] = Apply("Eq", v, Truth(TRUE))
    <3> HIDE DEF v
    <3> DEFINE x == column_ref(c)
               y == Constant(Truth(TRUE))
    <3>2. ~x.open /\ ~y.open /\ ~IsError(x.value[B][rec]) /\ ~IsError(y.value[B][rec])
      BY <2>5, <2>6, <2>7
    <3> HIDE DEF x, y
    <3>3. Infix("Eq", x, y).value[B][rec] = Apply("Eq", x.value[B][rec], y.value[B][rec])
      BY <3>2, InfixOf
    <3> QED BY <2>5, <2>6, <3>3 DEF x, y
  <2>9. Same(v, Truth(TRUE)) = h
    BY <2>4 DEF Same, IsNumber, Truth
  <2>10. Apply("Eq", v, Truth(TRUE)) = Truth(Same(v, Truth(TRUE)))
    BY DEF Apply
  <2>11. Holds(rec, e) <=> h
    BY <2>1 DEF Holds
  <2> HIDE DEF v, w, h
  <2>12. h \in BOOLEAN
    BY DEF h
  <2> QED BY <2>8, <2>9, <2>10, <2>11, <2>12
<1> HIDE DEF sql
<1> QED BY <1>1, <1>2, PlainAnswers

(* A column or a member that is there or not. *)
LEMMA IsNullAnswers ==
    ASSUME \A rec \in Records : TypedRecord(rec), NEW e \in Exprs, e[1] = "IsNull", NEW k,
           MemberOf(e[2], k) \/ (e[2][1] = "Column" /\ e[2][2] \in DOMAIN Type)
    PROVE  Answers(e)
<1> DEFINE d == e[2]
           x == IF d[1] = "Column" THEN column_ref(d[2]) ELSE document_path(d[2], d[3])
           y == Constant(NONE)
           sql == Infix("Is", x, y)
<1>1. d[1] \in {"Column", "Member"} /\ (d[1] = "Member" => MemberOf(d, k))
  BY DEF MemberOf
<1>2. ASSUME NEW b \in Binds PROVE render[e]["none"][b] = Rendered(sql, b)
  <2>1. render[e]["none"][b] = IsNull(render, e, b)
    BY <1>2, NoStorageKnown, RenderInner
  <2>2. CASE d[1] = "Column"
    BY <2>1, <2>2 DEF IsNull, Rendered
  <2>3. CASE d[1] = "Member"
    BY <2>1, <2>3 DEF IsNull, Rendered
  <2> QED BY <1>1, <2>2, <2>3
<1>3. ASSUME NEW B \in Binds, NEW rec \in Records
      PROVE  \E h \in BOOLEAN : sql.value[B][rec] = Truth(h) /\ (h <=> Holds(rec, e))
  <2> DEFINE v == x.value[B][rec]
  <2>1. ~x.open /\ ~IsError(v) /\ (v = NONE <=> Meant(rec, d) = Null)
    <3>1. CASE d[1] = "Column"
      <4>1. x = column_ref(d[2])
        BY <3>1
      <4>2. ~x.open /\ v = Stored(rec, d[2])
        BY <4>1 DEF column_ref, Closed
      <4>3. Meant(rec, d) = Column(rec, d[2])
        BY <3>1 DEF Meant
      <4>4. d[2] \in DOMAIN Type
        BY <3>1 DEF MemberOf
      <4> HIDE DEF v, x, d
      <4> QED BY <4>2, <4>3, <4>4, ColumnAbsent
    <3>2. CASE d[1] = "Member"
      <4>1. x = document_path(d[2], d[3])
        BY <3>2
      <4>2. ~x.open /\ v = PathOf(rec, d[2], d[3])
        BY <4>1 DEF document_path, Closed, PathOf
      <4>3. MemberOf(d, k)
        BY <1>1, <3>2
      <4> HIDE DEF v, x, d
      <4>4. CASE Meant(rec, d) = Null
        <5>1. v = NONE
          BY <4>2, <4>3, <4>4, MemberStored
        <5> QED BY <4>2, <4>4, <5>1 DEF IsError, NONE
      <4>5. CASE Meant(rec, d) # Null
        <5>1. Stands(v, Meant(rec, d), k)
          BY <4>2, <4>3, <4>5, MemberStored
        <5> QED BY <4>2, <4>5, <5>1, StandsFor
      <4> QED BY <4>4, <4>5
    <3> QED BY <1>1, <3>1, <3>2
  <2>2. y.value[B][rec] = NONE /\ ~y.open /\ ~IsError(NONE)
    BY DEF Constant, Closed, IsError, NONE
  <2> HIDE DEF x, y, v
  <2>3. sql.value[B][rec] = Apply("Is", x.value[B][rec], y.value[B][rec])
    BY <2>1, <2>2, InfixOf DEF v
  <2>4. Apply("Is", v, NONE) = Truth(v = NONE)
    BY DEF Apply
  <2>5. Holds(rec, e) <=> Meant(rec, d) = Null
    BY DEF Holds
  <2> DEFINE h == v = NONE
  <2>6. h \in BOOLEAN /\ (h <=> Holds(rec, e))
    BY <2>1, <2>5
  <2>7. sql.value[B][rec] = Truth(h)
    BY <2>2, <2>3, <2>4 DEF v
  <2> HIDE DEF h
  <2> QED BY <2>6, <2>7
<1> HIDE DEF sql
<1> QED BY <1>2, <1>3, PlainAnswers

(* A text that may not be there, and a prefix. *)
LEMMA StartsWithAnswers ==
    ASSUME \A rec \in Records : TypedRecord(rec), NEW e \in Exprs, e[1] = "StartsWith",
           MemberOf(e[2], "String")
             \/ (e[2][1] = "Column" /\ e[2][2] \in DOMAIN Type /\ Type[e[2][2]] = "String"),
           e[3][1] = "Value", Literal(e[3][2], "String", expression_storage_ty(e[2]))
    PROVE  Answers(e)
<1> DEFINE l == e[2]
           r == e[3]
           t == expression_storage_ty(l)
           k == "String"
           one == "one"
           y0 == Constant(NONE)
<1>1. l \in Exprs /\ r \in Exprs
  BY ExprAssumption DEF Parts
<1>2. Fitting(l, k, "none", one) /\ Fitting(r, k, t, one)
  BY DEF Fitting, Operand, KindOf, IntTypes
<1>3. "none" \in Storages /\ t \in Storages
  BY <1>2, NoStorageKnown, StorageKnown
<1>4. \A rec : Meant(rec, r) = r[2]
  BY DEF Meant
<1>5. \A rec : Holds(rec, e) <=> Meant(rec, l) # Null /\ IsPrefix(Meant(rec, r)[2], Meant(rec, l)[2])
  BY DEF Holds
<1>6. \A rec : Meant(rec, r) # Null
  BY <1>4, LiteralCoded
<1>7. y0.open = FALSE /\ \A B \in Binds, rec \in Records : y0.value[B][rec] = NONE
  BY DEF Constant, Closed
<1>8. \A v, w : IsPrefix(v, w) \in BOOLEAN
  BY DEF IsPrefix
<1>9. l[1] = "Column" => l[2] \in DOMAIN Type /\ Type[l[2]] = "String"
  BY DEF MemberOf
<1>10. l[1] # "Column" => MemberOf(l, k)
  OBVIOUS
<1>11. l[1] \in {"Column", "Member"}
  BY DEF MemberOf
<1> HIDE DEF l, r, t, one, y0
<1>12. ASSUME NEW b \in Binds, NEW B \in Binds, NEW rec \in Records, Meant(rec, l) = Null
       PROVE  render[l]["none"][b].sql.value[B][rec] = NONE
  <2>1. CASE l[1] = "Column"
    <3>1. render[l]["none"][b] = Rendered(column_ref(l[2]), b)
      <4>1. render[l]["none"][b] = Reference(l[2], b)
        BY <1>1, <1>3, <1>12, <2>1, RenderLeaf
      <4> QED BY <1>9, <2>1, <4>1 DEF Reference
    <3>2. column_ref(l[2]).value[B][rec] = Stored(rec, l[2])
      BY DEF column_ref, Closed
    <3>3. Meant(rec, l) = Column(rec, l[2])
      BY <2>1 DEF Meant
    <3>4. Stored(rec, l[2]) = NONE
      BY <1>9, <1>12, <2>1, <3>3, ColumnAbsent
    <3> QED BY <3>1, <3>2, <3>4 DEF Rendered
  <2>2. CASE l[1] = "Member"
    <3>1. render[l]["none"][b] = Rendered(document_path(l[2], l[3]), b)
      BY <1>1, <1>3, <1>12, <2>2, RenderLeaf
    <3>2. document_path(l[2], l[3]).value[B][rec] = PathOf(rec, l[2], l[3])
      BY DEF document_path, Closed, PathOf
    <3>3. PathOf(rec, l[2], l[3]) = NONE
      BY <1>10, <1>12, <2>2, MemberStored
    <3> QED BY <3>1, <3>2, <3>3 DEF Rendered
  <2> QED BY <1>11, <2>1, <2>2
<1>13. ASSUME NEW b \in Binds
       PROVE  Answered(e, render[e]["none"][b], b)
  <2> DEFINE z == render[e]["none"][b]
             x == render[l]["none"][b]
             y == render[r][t][x.binds]
             there == Infix("IsNot", x.sql, y0)
             begins == Starts(x.sql, y.sql)
  <2>1. z = Rendered(Both(there, begins), y.binds)
    <3>1. z = StartsWith(render, e, b)
      BY <1>3, <1>13, RenderInner
    <3> QED BY <3>1 DEF StartsWith, l, r, t, y0
  <2>2. z.sql = Both(there, begins) /\ z.binds = y.binds
    <3> HIDE DEF z, there, begins, y
    <3> QED BY <2>1 DEF Rendered
  <2>3. /\ Says(x, l, k, one) /\ Says(y, r, k, one)
        /\ Extends(y.binds, b) /\ Extends(y.binds, x.binds)
    <3>1. x = render[l]["none"][b] /\ y = render[r][t][x.binds]
      OBVIOUS
    <3> HIDE DEF x, y, z
    <3>2. Extends(x.binds, b) /\ x.binds \in Binds /\ Says(x, l, k, one)
      BY <1>1, <1>2, <1>3, <1>13, <3>1, OperandAt, Zenon
    <3>3. Extends(y.binds, x.binds) /\ y.binds \in Binds /\ Says(y, r, k, one)
      BY <1>1, <1>2, <1>3, <1>13, <3>1, <3>2, OperandAt, Zenon
    <3> QED BY <3>2, <3>3, ExtendsOn
  <2>4. \A B \in Binds, rec \in Records : Meant(rec, l) = Null => x.sql.value[B][rec] = NONE
    BY <1>12, <1>13
  <2> HIDE DEF x, y, z
  <2>5. ASSUME NEW B \in Binds, NEW rec \in Records, Extends(B, z.binds), Clear(rec, e)
        PROVE  \E h \in BOOLEAN : z.sql.value[B][rec] = Truth(h) /\ (h <=> Holds(rec, e))
    <3> DEFINE v == x.sql.value[B][rec]
               w == y.sql.value[B][rec]
               m == Meant(rec, l)
               p == Meant(rec, r)
    <3>1. Extends(B, y.binds)
      BY <2>2, <2>5
    <3>2. Extends(B, x.binds)
      BY <2>3, <3>1, ExtendsOn
    <3>3. Fits(w, p, k, one)
      BY <1>6, <2>3, <2>5, <3>1, SaysFits
    <3>4. w = p /\ p[1] = "String"
      BY <3>3 DEF Fits, Stands, Plain, one
    <3>5. begins.value[B][rec] = starts_with(v, w)
      BY DEF Starts, Closed
    <3>6. ~x.sql.open
      BY <2>3 DEF Says
    <3>7. m = Null => v = NONE
      BY <2>4
    <3>8. ASSUME m # Null PROVE v = m /\ m[1] = "String"
      <4>1. Fits(v, m, k, one)
        BY <2>3, <2>5, <3>2, <3>8, SaysFits
      <4> QED BY <4>1 DEF Fits, Stands, Plain, one
    <3>9. there.value[B][rec] = Apply("IsNot", v, NONE)
      <4>1. ~IsError(v) /\ ~IsError(NONE)
        BY <3>7, <3>8 DEF IsError, NONE
      <4>2. ~x.sql.open /\ ~y0.open /\ y0.value[B][rec] = NONE
        BY <1>7, <3>6
      <4> QED BY <4>1, <4>2, InfixOf
    <3>10. Apply("IsNot", v, NONE) = Truth(v # NONE)
      BY DEF Apply
    <3>11. (v # NONE) = (m # Null)
      BY <3>7, <3>8 DEF NONE
    <3> DEFINE g == v # NONE
               h == IsPrefix(w[2], v[2])
    <3> HIDE DEF there, begins, v, w, m, p
    <3>12. CASE m = Null
      <4>1. there.value[B][rec] = Truth(FALSE)
        BY <3>9, <3>10, <3>11, <3>12
      <4>2. z.sql.value[B][rec] = And(Truth(FALSE), begins.value[B][rec])
        <5>1. Both(there, begins).value[B][rec] = And(there.value[B][rec], begins.value[B][rec])
          BY DEF Both, Closed
        <5> QED BY <2>2, <4>1, <5>1
      <4>3. And(Truth(FALSE), begins.value[B][rec]) = Truth(FALSE)
        <5>1. Truth(FALSE) # Truth(TRUE) /\ ~IsError(Truth(FALSE))
          BY DEF Truth, IsError
        <5>2. (Truth(FALSE) = Truth(TRUE) /\ begins.value[B][rec] = Truth(TRUE)) = FALSE
          BY <5>1
        <5> QED BY <5>1, <5>2 DEF And
      <4>4. FALSE <=> Holds(rec, e)
        BY <1>5, <3>12 DEF m
      <4> QED BY <4>2, <4>3, <4>4
    <3>13. CASE m # Null
      <4>1. there.value[B][rec] = Truth(TRUE)
        BY <3>9, <3>10, <3>11, <3>13
      <4>2. starts_with(v, w) = Truth(IsPrefix(w[2], v[2]))
        BY <3>4, <3>8, <3>13 DEF starts_with
      <4>3. begins.value[B][rec] = Truth(h) /\ h \in BOOLEAN
        BY <1>8, <3>5, <4>2
      <4>4. h <=> Holds(rec, e)
        BY <1>5, <3>4, <3>8, <3>13 DEF m, p
      <4> DEFINE i == TRUE
      <4>5. i \in BOOLEAN /\ there.value[B][rec] = Truth(i) /\ begins.value[B][rec] = Truth(h)
        BY <4>1, <4>3
      <4>6. (i /\ h) = h
        BY <4>3
      <4> HIDE DEF h, i
      <4>7. Both(there, begins).value[B][rec] = Truth(i /\ h)
        BY <4>3, <4>5, BothSay
      <4> QED BY <2>2, <4>3, <4>4, <4>6, <4>7
    <3> QED BY <3>12, <3>13
  <2>6. Answered(e, z, b)
    BY <2>2, <2>3, <2>5 DEF Answered
  <2> QED BY <2>6, Zenon DEF z
<1> QED BY <1>13 DEF Answers

-----------------------------------------------------------------------------
(* The comparisons that are of one kind: a bool column stands by itself, one side is
   not compared with a list, and only numbers are ordered.                    *)
Kinds == {"number", "Bool", "String", "Json"}
TypedAtom(e) ==
    LET T(d) == expression_storage_ty(d)
        IsColumn(d) == d[1] = "Column" /\ d[2] \in DOMAIN Type
    IN  \/ IsColumn(e) /\ Type[e[2]] = "Bool"
        \/ e[1] = "IsNull" /\ (IsColumn(e[2]) \/ \E k \in Kinds : MemberOf(e[2], k))
        \/ /\ e[1] = "Binary"
           /\ \E k \in Kinds : /\ Operand(e[3], k, T(e[4])) /\ Operand(e[4], k, T(e[3]))
                               /\ \/ e[2] \in {"Eq", "Ne"}
                                  \/ k = "number" /\ e[2] \in {"Lt", "Le", "Gt", "Ge"}
        \/ /\ e[1] = "Between" /\ Operand(e[2], "number", "none")
           /\ Operand(e[3], "number", T(e[2])) /\ Operand(e[4], "number", T(e[2]))
        \/ e[1] = "InList" /\ \E k \in Kinds : Operand(e[2], k, "none") /\ ListOperand(e[3], k, T(e[2]))
        \/ /\ e[1] = "AnyOp" /\ e[2] = "Eq"
           /\ \E k \in Kinds : Operand(e[3], k, T(e[4])) /\ ListOperand(e[4], k, "none")
        \/ /\ e[1] \in {"IsSuperset", "Intersects"}
           /\ \E k \in Kinds : ListOperand(e[2], k, T(e[3])) /\ ListOperand(e[3], k, T(e[2]))
        \/ /\ e[1] = "StartsWith"
           /\ MemberOf(e[2], "String") \/ (IsColumn(e[2]) /\ Type[e[2][2]] = "String")
           /\ e[3][1] = "Value" /\ Literal(e[3][2], "String", T(e[2]))

(* Conjunctions, disjunctions and negations of these. *)
Typed(e, P) == IF e[1] \in {"And", "Or", "Not"}
               THEN Parts(e) \subseteq P /\ (e[1] # "Not" => e[2] # <<>>) ELSE TypedAtom(e)

LEMMA AtomAnswers ==
    ASSUME \A rec \in Records : TypedRecord(rec), NEW e \in Exprs, TypedAtom(e)
    PROVE  Answers(e)
<1>1. CASE e[1] = "Column"
  BY <1>1, FlagAnswers DEF TypedAtom
<1>2. CASE e[1] = "IsNull"
  BY <1>2, IsNullAnswers DEF TypedAtom
<1>3. CASE e[1] = "Binary"
  BY <1>3, BinaryAnswers DEF TypedAtom
<1>4. CASE e[1] = "Between"
  BY <1>4, BetweenAnswers DEF TypedAtom
<1>5. CASE e[1] = "InList"
  BY <1>5, InListAnswers DEF TypedAtom
<1>6. CASE e[1] = "AnyOp"
  BY <1>6, AnyOpAnswers DEF TypedAtom
<1>7. CASE e[1] \in {"IsSuperset", "Intersects"}
  BY <1>7, ListsAnswer DEF TypedAtom
<1>8. CASE e[1] = "StartsWith"
  BY <1>8, StartsWithAnswers DEF TypedAtom
<1> QED BY <1>1, <1>2, <1>3, <1>4, <1>5, <1>6, <1>7, <1>8 DEF TypedAtom

(* A condition of any depth is answered as the row is among those it means. *)
RightAt(e, x, b) ==
    /\ Extends(x.binds, b)
    /\ \A B \in Binds, rec \in Records : Extends(B, x.binds) /\ rec \in means[e].clear =>
          x.sql.value[B][rec] = Truth(rec \in means[e].rows)
Right(e) == \A b \in Binds : RightAt(e, render[e]["none"][b], b)

LEMMA MeansAt ==
    ASSUME NEW e \in Exprs
    PROVE  means[e] = MeantBy(means, e)
<1> DEFINE m == [d \in Parts(e) |-> means[d]]
<1>1. means[e] = MeantBy(m, e)
  BY MeansIs
<1>2. \A d \in Parts(e) : m[d] = means[d]
  OBVIOUS
<1> HIDE DEF m
<1>3. CASE e[1] \in {"And", "Or"} /\ e[2] = <<>>
  BY <1>1, <1>3 DEF MeantBy
<1>4. CASE e[1] \in {"And", "Or"} /\ e[2] # <<>>
  <2>1. m[Head(e[2])] = means[Head(e[2])]
    BY <1>2, <1>4 DEF Parts
  <2>2. Tail(e[2]) # <<>> => m[Rest(e)] = means[Rest(e)]
    BY <1>2, <1>4 DEF Parts
  <2>3. CASE Tail(e[2]) = <<>>
    BY <1>1, <1>4, <2>1, <2>3 DEF MeantBy
  <2>4. CASE Tail(e[2]) # <<>>
    BY <1>1, <1>4, <2>1, <2>2, <2>4 DEF MeantBy
  <2> QED BY <2>3, <2>4
<1>5. CASE e[1] = "Not"
  <2>1. m[e[2]] = means[e[2]]
    BY <1>2, <1>5 DEF Parts
  <2> QED BY <1>1, <1>5, <2>1 DEF MeantBy
<1>6. CASE e[1] \notin {"And", "Or", "Not"}
  BY <1>1, <1>6 DEF MeantBy
<1> QED BY <1>3, <1>4, <1>5, <1>6

LEMMA AtomRight ==
    ASSUME NEW e \in Exprs, e[1] \notin {"And", "Or", "Not"}, Answers(e)
    PROVE  Right(e)
<1>1. means[e] = [rows |-> {rec \in Records : Holds(rec, e)}, clear |-> {rec \in Records : Clear(rec, e)}]
  BY MeansAt DEF MeantBy
<1> SUFFICES ASSUME NEW b \in Binds
             PROVE  RightAt(e, render[e]["none"][b], b)
  BY DEF Right
<1> DEFINE x == render[e]["none"][b]
<1>2. /\ Extends(x.binds, b)
      /\ \A B \in Binds, rec \in Records : Extends(B, x.binds) /\ Clear(rec, e) =>
            \E h \in BOOLEAN : x.sql.value[B][rec] = Truth(h) /\ (h <=> Holds(rec, e))
  BY Zenon DEF Answers, Answered
<1> HIDE DEF x
<1>3. ASSUME NEW B \in Binds, NEW rec \in Records, Extends(B, x.binds), rec \in means[e].clear
      PROVE  x.sql.value[B][rec] = Truth(rec \in means[e].rows)
  <2>1. Clear(rec, e) /\ (rec \in means[e].rows <=> Holds(rec, e))
    BY <1>1, <1>3
  <2>2. PICK h \in BOOLEAN : x.sql.value[B][rec] = Truth(h) /\ (h <=> Holds(rec, e))
    BY <1>2, <1>3, <2>1
  <2>3. h = (rec \in means[e].rows)
    BY <2>1, <2>2
  <2> QED BY <2>2, <2>3
<1>4. RightAt(e, x, b)
  BY <1>2, <1>3 DEF RightAt
<1> QED BY <1>4, Zenon DEF x

LEMMA NotRight ==
    ASSUME NEW e \in Exprs, e[1] = "Not", Right(e[2])
    PROVE  Right(e)
<1> DEFINE d == e[2]
<1>1. means[e] = [rows |-> Records \ means[d].rows, clear |-> means[d].clear]
  BY MeansAt DEF MeantBy
<1>2. means[e].clear = means[d].clear /\ means[e].rows = Records \ means[d].rows
  BY <1>1
<1> HIDE DEF d
<1> SUFFICES ASSUME NEW b \in Binds
             PROVE  RightAt(e, render[e]["none"][b], b)
  BY DEF Right
<1> DEFINE z == render[e]["none"][b]
           x == render[d]["none"][b]
<1>3. z = Rendered(Negated(x.sql), x.binds)
  <2>1. z = Negation(render, e, b)
    BY NoStorageKnown, RenderInner
  <2> QED BY <2>1 DEF Negation, d
<1>4. /\ Extends(x.binds, b)
      /\ \A B \in Binds, rec \in Records : Extends(B, x.binds) /\ rec \in means[d].clear =>
            x.sql.value[B][rec] = Truth(rec \in means[d].rows)
  BY Zenon DEF Right, RightAt, d
<1> HIDE DEF x, z
<1>5. z.sql = Negated(x.sql) /\ z.binds = x.binds
  BY <1>3 DEF Rendered
<1>6. ASSUME NEW B \in Binds, NEW rec \in Records, Extends(B, z.binds), rec \in means[e].clear
      PROVE  z.sql.value[B][rec] = Truth(rec \in means[e].rows)
  <2> DEFINE g == rec \in means[d].rows
  <2>1. x.sql.value[B][rec] = Truth(g)
    BY <1>2, <1>4, <1>5, <1>6
  <2>2. g \in BOOLEAN /\ (~g) = (rec \in means[e].rows)
    BY <1>2, <1>6
  <2> HIDE DEF g
  <2>3. Negated(x.sql).value[B][rec] = Truth(~g)
    BY <2>1, <2>2, BothSay
  <2> QED BY <1>5, <2>2, <2>3
<1>7. RightAt(e, z, b)
  BY <1>4, <1>5, <1>6 DEF RightAt
<1> QED BY <1>7, Zenon DEF z

LEMMA JoinedRight ==
    ASSUME NEW e \in Exprs, e[1] \in {"And", "Or"}, e[2] # <<>>, \A d \in Parts(e) : Right(d)
    PROVE  Right(e)
<1> SUFFICES ASSUME NEW b \in Binds
             PROVE  RightAt(e, render[e]["none"][b], b)
  BY DEF Right
<1> DEFINE z == render[e]["none"][b]
<1>1. z = Joined(render, e, b)
  BY NoStorageKnown, RenderInner
<1> HIDE DEF z
<1>2. CASE Tail(e[2]) = <<>>
  <2> DEFINE l == Head(e[2])
             x == render[l]["none"][b]
  <2>1. z = Rendered(Closed(x.sql.value), x.binds)
    BY <1>1, <1>2, Zenon DEF Joined
  <2>2. l \in Parts(e)
    BY DEF Parts
  <2>3. means[e] = means[l]
    BY <1>2, MeansAt DEF MeantBy
  <2> HIDE DEF l
  <2>4. /\ Extends(x.binds, b)
        /\ \A B \in Binds, rec \in Records : Extends(B, x.binds) /\ rec \in means[l].clear =>
              x.sql.value[B][rec] = Truth(rec \in means[l].rows)
    BY <2>2, Zenon DEF Right, RightAt
  <2> HIDE DEF x
  <2>5. z.sql.value = x.sql.value /\ z.binds = x.binds
    BY <2>1 DEF Rendered, Closed
  <2>6. RightAt(e, z, b)
    BY <2>3, <2>4, <2>5 DEF RightAt
  <2> QED BY <2>6, Zenon DEF z
<1>3. CASE Tail(e[2]) # <<>>
  <2> DEFINE l == Head(e[2])
             r == Rest(e)
             x == render[l]["none"][b]
             y == render[r]["none"][x.binds]
             sql == IF e[1] = "And" THEN Both(x.sql, y.sql) ELSE Either(x.sql, y.sql)
  <2>1. z = Rendered(sql, y.binds)
    <3>1. Joined(render, e, b) = Rendered(sql, y.binds)
      BY <1>3, Zenon DEF Joined
    <3> HIDE DEF sql, y
    <3> QED BY <1>1, <3>1
  <2>2. l \in Parts(e) /\ r \in Parts(e)
    BY <1>3 DEF Parts
  <2>3. means[e] = [rows  |-> IF e[1] = "And" THEN means[l].rows \cap means[r].rows
                              ELSE means[l].rows \cup means[r].rows,
                    clear |-> means[l].clear \cap means[r].clear]
    <3>1. CASE e[1] = "And"
      BY <1>3, <3>1, MeansAt DEF MeantBy
    <3>2. CASE e[1] = "Or"
      BY <1>3, <3>2, MeansAt DEF MeantBy
    <3> QED BY <3>1, <3>2
  <2> HIDE DEF l, r
  <2>4. /\ Extends(x.binds, b)
        /\ \A B \in Binds, rec \in Records : Extends(B, x.binds) /\ rec \in means[l].clear =>
              x.sql.value[B][rec] = Truth(rec \in means[l].rows)
    BY <2>2, Zenon DEF Right, RightAt
  <2>5. x.binds \in Binds
    BY <2>4 DEF Extends
  <2> HIDE DEF x
  <2>6. /\ Extends(y.binds, x.binds)
        /\ \A B \in Binds, rec \in Records : Extends(B, y.binds) /\ rec \in means[r].clear =>
              y.sql.value[B][rec] = Truth(rec \in means[r].rows)
    BY <2>2, <2>5, Zenon DEF Right, RightAt
  <2> HIDE DEF y
  <2>7. /\ z.sql = IF e[1] = "And" THEN Both(x.sql, y.sql) ELSE Either(x.sql, y.sql)
        /\ z.binds = y.binds
    <3>1. z.sql = sql /\ z.binds = y.binds
      <4> HIDE DEF sql
      <4> QED BY <2>1 DEF Rendered
    <3> QED BY <3>1
  <2>8. ASSUME NEW B \in Binds, NEW rec \in Records, Extends(B, z.binds), rec \in means[e].clear
        PROVE  z.sql.value[B][rec] = Truth(rec \in means[e].rows)
    <3> DEFINE g == rec \in means[l].rows
               h == rec \in means[r].rows
    <3>1. Extends(B, y.binds)
      BY <2>7, <2>8
    <3>2. Extends(B, x.binds)
      BY <2>6, <3>1, ExtendsOn
    <3>3. rec \in means[l].clear /\ rec \in means[r].clear
      BY <2>3, <2>8
    <3>4. x.sql.value[B][rec] = Truth(g) /\ y.sql.value[B][rec] = Truth(h)
      BY <2>4, <2>6, <3>1, <3>2, <3>3
    <3>5. g \in BOOLEAN /\ h \in BOOLEAN
      OBVIOUS
    <3>6. IF e[1] = "And" THEN (g /\ h) = (rec \in means[e].rows) ELSE (g \/ h) = (rec \in means[e].rows)
      BY <2>3
    <3> HIDE DEF g, h
    <3>7. /\ Both(x.sql, y.sql).value[B][rec] = Truth(g /\ h)
          /\ Either(x.sql, y.sql).value[B][rec] = Truth(g \/ h)
      BY <3>4, <3>5, BothSay
    <3>8. CASE e[1] = "And"
      BY <2>7, <3>6, <3>7, <3>8
    <3>9. CASE e[1] # "And"
      BY <2>7, <3>6, <3>7, <3>9
    <3> QED BY <3>8, <3>9
  <2>9. Extends(z.binds, b)
    BY <2>4, <2>6, <2>7, ExtendsOn
  <2>10. RightAt(e, z, b)
    BY <2>8, <2>9 DEF RightAt
  <2> QED BY <2>10, Zenon DEF z
<1> QED BY <1>2, <1>3

LEMMA AllRight ==
    ASSUME \A rec \in Records : TypedRecord(rec), NEW P, P \subseteq Exprs, \A e \in P : Typed(e, P)
    PROVE  \A e \in P : Right(e)
<1> DEFINE Q == {e \in P : Right(e)}
<1>1. ASSUME NEW e \in P, \A d \in P : Height[d] < Height[e] => d \in Q
      PROVE  e \in Q
  <2>1. e \in Exprs /\ Typed(e, P)
    OBVIOUS
  <2>2. CASE e[1] \in {"And", "Or", "Not"}
    <3>1. \A d \in Parts(e) : Right(d)
      BY <1>1, <2>1, <2>2, ExprAssumption DEF Typed
    <3>2. e[1] = "Not" => e[2] \in Parts(e)
      BY DEF Parts
    <3>3. e[1] # "Not" => e[2] # <<>>
      BY <2>1, <2>2 DEF Typed
    <3> QED BY <2>1, <2>2, <3>1, <3>2, <3>3, NotRight, JoinedRight
  <2>3. CASE e[1] \notin {"And", "Or", "Not"}
    BY <2>1, <2>3, AtomAnswers, AtomRight DEF Typed
  <2> QED BY <2>2, <2>3
<1> HIDE DEF Q
<1>2. P \subseteq Q
  BY <1>1, Induction
<1> QED BY <1>2 DEF Q

LEMMA OutcomeOf ==
    ASSUME NEW b, NEW holds, \A i \in DOMAIN b : ~IsError(b[i]), holds # Refused
    PROVE  Outcome(b, holds) = IF holds = Truth(TRUE) THEN "yes" ELSE "no"
<1> DEFINE failed == \E i \in DOMAIN b : IsError(b[i])
<1>1. failed = FALSE
  OBVIOUS
<1>2. Outcome(b, holds) = CASE failed \/ holds = Refused -> "refused"
                            [] ~failed /\ holds = Truth(TRUE) -> "yes"
                            [] OTHER -> "no"
  BY Zenon DEF Outcome
<1> HIDE DEF failed
<1> QED BY <1>1, <1>2

-----------------------------------------------------------------------------
(* A filter selects exactly the rows that it means (Filter!SelectsMeant): whatever the
   columns, the records, and the shape and depth of the filters, as long as records
   hold values of the types of their columns and what is compared is of one kind.
   Every literal keeps its place among the binds, nothing is regrouped, and none is
   refused (expr.rs:97-337, query_pk.rs:27-45).                               *)
THEOREM Selected ==
    ASSUME \A rec \in Records : TypedRecord(rec),
           NEW P, P \subseteq Exprs, PkFilters \cup Filters \subseteq P, \A e \in P : Typed(e, P)
    PROVE  Spec => []SelectsMeant
<1> DEFINE Inv == record \in Records /\ SelectsMeant
<1>1. Init => Inv
  BY DEF Init, SelectsMeant
<1>2. Inv /\ [Next]_vars => Inv'
  <2> SUFFICES ASSUME Inv, [Next]_vars PROVE Inv'
    OBVIOUS
  <2>1. CASE UNCHANGED vars
    BY <2>1 DEF vars, SelectsMeant
  <2>2. CASE Finish
    BY <2>2 DEF Finish, SelectsMeant
  <2>3. ASSUME NEW p \in PkFilters, NEW f \in Filters, Select(p, f) PROVE Inv'
    <3> DEFINE x == render[p]["none"][<<>>]
               y == render[f]["none"][x.binds]
               holds == Both(x.sql, y.sql).value[y.binds][record]
               g == record \in means[p].rows
               h == record \in means[f].rows
    <3>1. Right(p) /\ Right(f)
      BY AllRight
    <3>2. <<>> \in Binds
      BY DEF Binds
    <3>3. /\ Extends(x.binds, <<>>)
          /\ \A B \in Binds, rec \in Records : Extends(B, x.binds) /\ rec \in means[p].clear =>
                x.sql.value[B][rec] = Truth(rec \in means[p].rows)
      BY <3>1, <3>2, Zenon DEF Right, RightAt
    <3>4. answer' = Outcome(y.binds, holds) /\ query' = <<p, f>> /\ record' = record
      BY <2>3, Zenon DEF Select
    <3> HIDE DEF x
    <3>5. x.binds \in Binds
      BY <3>3 DEF Extends
    <3>6. /\ Extends(y.binds, x.binds)
          /\ \A B \in Binds, rec \in Records : Extends(B, y.binds) /\ rec \in means[f].clear =>
                y.sql.value[B][rec] = Truth(rec \in means[f].rows)
      BY <3>1, <3>5, Zenon DEF Right, RightAt
    <3> HIDE DEF y
    <3>7. Extends(y.binds, <<>>) /\ y.binds \in Binds
      BY <3>3, <3>6, ExtendsOn DEF Extends
    <3>8. \A i \in DOMAIN y.binds : ~IsError(y.binds[i])
      <4>1. \A i \in 1..Len(y.binds) : i > 0 => ~IsError(y.binds[i])
        BY <3>7 DEF Extends
      <4>2. DOMAIN y.binds = 1..Len(y.binds)
        BY <3>7 DEF Binds
      <4> QED BY <4>1, <4>2
    <3>9. Extends(y.binds, y.binds)
      BY <3>7, ExtendsSelf
    <3>10. ASSUME record \in means[p].clear, record \in means[f].clear
           PROVE  answer' = IF g /\ h THEN "yes" ELSE "no"
      <4>1. x.sql.value[y.binds][record] = Truth(g) /\ y.sql.value[y.binds][record] = Truth(h)
        BY <3>3, <3>6, <3>7, <3>9, <3>10
      <4>2. g \in BOOLEAN /\ h \in BOOLEAN
        OBVIOUS
      <4> HIDE DEF g, h
      <4>3. holds = Truth(g /\ h)
        BY <3>7, <4>1, <4>2, BothSay
      <4> HIDE DEF holds
      <4>4. holds # Refused /\ (holds = Truth(TRUE) <=> g /\ h)
        BY <4>2, <4>3 DEF Truth, Refused
      <4>5. holds # Refused => Outcome(y.binds, holds) = IF holds = Truth(TRUE) THEN "yes" ELSE "no"
        BY <3>8, OutcomeOf
      <4> QED BY <3>4, <4>4, <4>5
    <3>11. DOMAIN query' = {1, 2} /\ query'[1] = p /\ query'[2] = f
      BY <3>4
    <3>12. (\A i \in DOMAIN query' : record' \in means[query'[i]].clear)
              => record \in means[p].clear /\ record \in means[f].clear
      BY <3>4, <3>11
    <3>13. (\A i \in DOMAIN query' : record' \in means[query'[i]].rows) <=> g /\ h
      BY <3>4, <3>11
    <3> HIDE DEF g, h
    <3> QED BY <3>4, <3>10, <3>12, <3>13 DEF SelectsMeant
  <2> QED BY <2>1, <2>2, <2>3 DEF Next
<1>3. Inv => SelectsMeant
  OBVIOUS
<1> QED BY <1>1, <1>2, <1>3, PTL DEF Spec
=============================================================================
