-------------------------------- MODULE MCRow ---------------------------------
(***************************************************************************)
(* Instances of Row for TLC.  Integers of SurrealDB have three bits here,  *)
(* narrow ones two.                                                        *)
(***************************************************************************)
EXTENDS Row

Wide == 2 * MaxInt + 1
Doc(v)  == <<"Object", [m \in {Member} |-> v]>>
Json(j) == <<"Json", j>>
JsonMember(j) == Json(<<"Object", [m \in {Member} |-> j]>>)
Numbers(s) == <<"List", s>>

Plain == [t \in {"Bool", "I8", "U8", "I64", "U64", "String", "List(U64)", "Document", "Json"} |->
    CASE t = "Bool"   -> {Null, <<t, TRUE>>, <<t, FALSE>>}
      [] t = "I8"     -> {Null, <<t, -2>>, <<t, 1>>}
      [] t = "U8"     -> {Null, <<t, 0>>, <<t, Narrow - 1>>}
      [] t = "I64"    -> {Null, <<t, -(MaxInt + 1)>>, <<t, MaxInt>>}
      [] t = "U64"    -> {Null, <<t, 0>>, <<t, MaxInt>>, <<t, MaxInt + 1>>, <<t, Wide>>}
      [] t = "String" -> {Null, <<t, "a">>, <<t, "b">>}
      [] t = "List(U64)"  -> {Null, Numbers(<<>>), Numbers(<< <<"U64", Wide>>, <<"U64", 0>> >>)}
      [] t = "Document" -> {Null, Doc(Null), Doc(<<"U64", MaxInt>>), Doc(<<"String", "a">>)}
      [] t = "Json"   -> {Null, Json(<<"Num", Wide>>), Json(<<"Invalid">>),
                          JsonMember(<<"Null">>), JsonMember(<<"Num", 1>>)}]

JsonOnly == [t \in {"Json"} |-> {Null, Json(<<"Null">>), Json(<<"Num", 1>>)}]
Leaves  == [t \in {"Document"} |-> {Doc(<<"U64", Wide>>)}]
Steps   == {-(MaxInt + 1), -1, 1, MaxInt, MaxInt + 1}

Some(t, s) == {<<t, n>> : n \in s}
SomeValues == [t \in {"I8", "I64", "U64", "String"} |->
    CASE t = "I8"  -> Some(t, {-2, 1})
      [] t = "I64" -> Some(t, {-(MaxInt + 1), 0, MaxInt})
      [] t = "U64" -> Some(t, {0, MaxInt, MaxInt + 1, 2 * MaxInt + 1})
      [] t = "String" -> {<<t, "a">>, <<t, "b">>}]
SomeKeyings == {<<"U64">>, <<"I64">>, <<"String">>, <<"U64", "I8">>, <<"I8", "I8", "String">>}
WideKeyings == {<<"U64">>}
NoKeyings   == {}
=============================================================================
