----------------------------- MODULE MCMigrations -----------------------------
(***************************************************************************)
(* Instances of Migrations for TLC.                                        *)
(***************************************************************************)
EXTENDS Migrations, TLC

CONSTANTS a, b, m1, m2, alien

Do(s)  == [kind |-> "run", stmt |-> s]
Stmt(verb, ids, eff, init, where) ==
    [verb |-> verb, ids |-> ids, eff |-> eff, init |-> init, where |-> where,
     build |-> "ok", decode |-> "ok"]
Select    == Stmt("SELECT", {}, Keep, 0, {})
Text(kind) == [kind |-> kind, stmt |-> Select]

(* The first migration adds 10 to every row, the second moves every row that
   has seen the first, and no other.  One that asks for manual work does so
   after it has created b.                                                  *)
Raise  == [id |-> m1, steps |-> <<Text("blank"), Do(Stmt("UPDATE", {a, b}, Add(10), 0, {}))>>]
Move   == Do(Stmt("UPDATE", {a, b}, Put(20), 0, {10}))
Settle == [id |-> m2, steps |-> <<Move>>]
Manual == [id |-> m2, steps |-> <<Move, Do(Stmt("CREATE", {b}, Keep, 30, {})), Text("guard")>>]

Rewrites == <<Raise, Settle>>
Guarded  == <<Raise, Manual>>

OneRow == [k \in Keys |-> IF k = a THEN 0 ELSE NoRow]

Touch == Stmt("UPDATE", {a}, Add(1), 0, {})
Grow  == Stmt("CREATE", {b}, Keep, 10, {})
Stray == Stmt("CREATE", {alien}, Keep, 0, {})

TouchOrGrow == {Touch, Grow}
AnyWrite    == {Touch, Grow, Stray}

(* Runners are interchangeable, and the runs that use this check safety. *)
Interchangeable == Permutations(Runners)
=============================================================================
