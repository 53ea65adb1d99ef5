------------------------------- MODULE MCFilter -------------------------------
(***************************************************************************)
(* Instances of Filter for TLC: a table with a composite key and a column  *)
(* of each kind, and filters over them.  Texts are sequences of letters.   *)
(***************************************************************************)
EXTENDS Filter

Wide == 2 * MaxInt + 1
Cols == [k1 |-> "U64", k2 |-> "U64", n |-> "U64", flag |-> "Bool", text |-> "String",
         json |-> "Json", list |-> "List(U64)", doc |-> "Document"]
KeyPair == <<"k1", "k2">>

U(n)    == <<"U64", n>>
Json(j) == <<"Json", j>>
Doc(v)  == <<"Object", [m |-> v]>>
Num(s)  == <<"List", [i \in DOMAIN s |-> U(s[i])]>>
Str(s)  == <<"String", s>>

Rows == [k1 : {U(1)}, k2 : {U(0), U(Wide)}, n : {Null, U(0), U(MaxInt + 1)},
         flag : {Null, <<"Bool", TRUE>>, <<"Bool", FALSE>>}, text : {Null, Str(<<1, 2>>)},
         json : {Null, Json(<<"Null">>), Json(<<"Num", 1>>)},
         list : {Null, Num(<<0, Wide>>)}, doc : {Null, Doc(Null), Doc(U(1))}]

Col(c)      == <<"Column", c>>
Val(v)      == <<"Value", v>>
Is(op, l, r) == <<"Binary", op, l, r>>
Leaf        == <<"Member", "doc", "m">>

Atoms == {Is("Eq", Col("n"), Val(U(MaxInt + 1))), Is("Lt", Val(U(0)), Col("n")), Col("flag"),
          Is("Eq", Col("json"), Val(Json(<<"Num", 1>>))), <<"IsNull", Col("json")>>,
          <<"IsNull", Leaf>>, <<"StartsWith", Col("text"), Val(Str(<<1>>))>>}
Others == {Is("Ne", Col("k2"), Col("n")), Is("Le", Leaf, Col("n")), <<"IsNull", Col("flag")>>,
           <<"IsNull", Col("n")>>, Is("Ne", Col("json"), Val(Json(<<"Null">>))),
           Is("Ge", <<"Length", Col("list")>>, Val(U(2))), Is("Gt", Col("k1"), Leaf),
           <<"Between", Col("n"), Val(U(0)), Val(U(MaxInt))>>,
           <<"InList", Col("json"), Val(<<"List", <<Json(<<"Null">>), Json(<<"Num", 2>>)>>>>)>>,
           <<"InList", Col("n"), Val(Num(<<MaxInt + 1, 1>>))>>,
           <<"AnyOp", "Eq", Val(U(Wide)), Col("list")>>,
           <<"IsSuperset", Col("list"), Val(Num(<<Wide>>))>>,
           <<"Intersects", Col("list"), Val(Num(<<1, 0>>))>>,
           <<"StartsWith", Col("text"), Val(Str(<<2>>))>>}

Conditions == Atoms \cup Others \cup {<<"Not", e>> : e \in Atoms \cup Others}
              \cup {<<"And", <<<<"Not", d>>, <<"Or", <<e, d>>>>>>>> :
                     d \in {Col("flag"), Is("Lt", Val(U(0)), Col("n"))}, e \in Atoms \cup Others}

Partition == {Is("Eq", Col("k1"), Val(U(1))),
              <<"And", <<Is("Eq", Col("k1"), Val(U(1))), Is("Gt", Col("k2"), Val(U(0)))>>>>}

BoolCompared == {Is("Eq", Col("flag"), Val(<<"Bool", FALSE>>))}

(* All parts of expressions, and how deep they are. *)
RECURSIVE Closure(_, _), Deep(_)
Closure(S, n) == IF n = 0 THEN S ELSE Closure(S \cup UNION {Parts(e) : e \in S}, n - 1)
Nesting == 6
Deep(e) == IF Parts(e) = {} THEN 0
           ELSE 1 + CHOOSE n \in 0..Nesting : /\ \E d \in Parts(e) : Deep(d) = n
                                              /\ \A d \in Parts(e) : Deep(d) <= n
AllExprs  == Closure(Partition \cup Conditions \cup BoolCompared, Nesting)
AllHeight == [e \in AllExprs |-> Deep(e)]
=============================================================================
