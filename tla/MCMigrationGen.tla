---------------------------- MODULE MCMigrationGen ----------------------------
(***************************************************************************)
(* Instances of MigrationGen for TLC: schema changes of tables with the    *)
(* key column "k" and the columns "a", "b" and "c".                        *)
(***************************************************************************)
EXTENDS MigrationGen

IndexOn(name, columns, unique) ==
    [name |-> name, columns |-> columns, unique |-> unique, primary_key |-> FALSE]
PkIndex(columns) ==
    [name |-> "pk", columns |-> columns, unique |-> TRUE, primary_key |-> TRUE]

AllText == [c \in Columns |-> "String"]
KeyedBy(name, key, columns, indices) ==
    [name |-> name, columns |-> key \o columns, type |-> AllText,
     primary_key |-> key, indices |-> <<PkIndex(key)>> \o indices]
Keyed(name, columns, indices) == KeyedBy(name, <<"k">>, columns, indices)

NoHints == [c \in {} |-> "k"]
Alter(previous, next, hints) ==
    [kind |-> "Alter", previous |-> previous, next |-> next, hints |-> hints]
Create(t) == [kind |-> "Create", previous |-> t, next |-> t, hints |-> NoHints]
Drop(t)   == [kind |-> "Drop", previous |-> t, next |-> t, hints |-> NoHints]
Hint(c, n) == [x \in {c} |-> n]

TableA  == Keyed("t", <<"a">>, <<>>)
TableAi == Keyed("t", <<"a">>, <<IndexOn("by_a", <<"a">>, FALSE)>>)
TableAc == Keyed("t", <<"a", "c">>, <<IndexOn("by_c", <<"c">>, FALSE), IndexOn("both", <<"c", "a">>, TRUE)>>)
TableBc == Keyed("t", <<"b", "c">>, <<IndexOn("by_c", <<"c">>, FALSE), IndexOn("both", <<"c", "b">>, TRUE)>>)
Other   == Keyed("u", <<"a">>, <<IndexOn("by_a", <<"a">>, FALSE)>>)
Typed   == [TableA EXCEPT !.type["a"] = "Json"]

Renaming   == Alter(TableAc, TableBc, Hint("a", "b"))
Shifting   == Alter(Keyed("t", <<"b", "a">>, <<IndexOn("by_b", <<"b">>, FALSE)>>),
                    Keyed("t", <<"c", "b">>, <<IndexOn("by_b", <<"b">>, FALSE)>>),
                    [x \in {"a", "b"} |-> IF x = "a" THEN "b" ELSE "c"])
Dropping   == Alter(TableAc, TableAi, NoHints)
Indexing   == Alter(TableAi, Keyed("t", <<"a">>, <<IndexOn("by_a", <<"a">>, TRUE)>>), NoHints)
Adding     == Alter(TableA, Keyed("t", <<"a", "b">>, <<>>), NoHints)
Moving     == Alter(Keyed("t", <<"a", "b">>, <<IndexOn("by", <<"a">>, FALSE)>>),
                    Keyed("t", <<"c", "b">>, <<IndexOn("by", <<"b">>, FALSE)>>), Hint("a", "c"))
Swapping   == Alter(Keyed("t", <<"a", "b">>, <<>>), Keyed("t", <<"a", "b">>, <<>>),
                    [x \in {"a", "b"} |-> IF x = "a" THEN "b" ELSE "a"])
KeyAlias   == Alter(TableA, KeyedBy("t", <<"b">>, <<"a">>, <<>>), Hint("k", "b"))
KeyLonger  == Alter(TableAc, KeyedBy("t", <<"k", "a">>, <<"c">>, <<>>), NoHints)
KeySwapped == Alter(KeyedBy("t", <<"k", "a">>, <<"c">>, <<>>),
                    KeyedBy("t", <<"a", "k">>, <<"c">>, <<>>), NoHints)
KeyTaken   == Alter(Keyed("t", <<"a">>, <<>>), KeyedBy("t", <<"a">>, <<"k">>, <<>>),
                    [x \in {"k", "a"} |-> IF x = "k" THEN "a" ELSE "k"])
Retyping   == Alter(TableAc, [Typed EXCEPT !.indices = TableAi.indices], NoHints)
Retabling  == Alter(TableAi, [TableAi EXCEPT !.name = "t2"], NoHints)
Elsewhere  == Alter(Other, Keyed("u", <<"b">>, <<IndexOn("by_a", <<"b">>, FALSE)>>), Hint("a", "b"))

SafeChanges == {<<Renaming>>, <<Shifting>>, <<Dropping, Create(Other)>>, <<Indexing, Drop(Other)>>,
                <<Adding>>, <<Moving>>, <<KeyAlias>>, <<Create(Other)>>}

(* Of one table, and of a table behind others that are dropped, rewritten, or take
   the name it gives up.                                                     *)
UnsafeChanges == {<<KeyLonger>>, <<KeySwapped>>, <<KeyTaken>>, <<Drop(Other), Retyping>>,
                  <<Elsewhere, KeyLonger>>, <<Create(TableA), Retabling>>}
AllChanges == SafeChanges \cup UnsafeChanges
Swaps  == {<<Swapping>>}
Mixed  == {<<Drop(Other), Retyping>>}
Pushes == {<<Create(TableAc), Create(Other)>>, <<Dropping, Create(Other)>>}
=============================================================================
