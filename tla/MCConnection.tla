----------------------------- MODULE MCConnection -----------------------------
(***************************************************************************)
(* Instances of Connection for TLC.                                        *)
(***************************************************************************)
EXTENDS Connection, TLC

CONSTANTS k1, k2

Plain(ro) == [isolation |-> FALSE, mode |-> "Default", read_only |-> ro]
RowOf(k, n) == [key |-> k, v |-> n, build |-> "ok", decode |-> "ok"]
SetTo(k, e, f, d) == [keys |-> {k}, assignment |-> e, filter |-> f, condition |-> d,
                      build |-> "ok", decode |-> "ok"]
Where(p) == [filter |-> p, build |-> "ok", decode |-> "ok"]

(* Every operation, every argument shape and every error path of a handler, on
   two connections that share two rows.                                      *)
AllStarts  == {Plain(FALSE), Plain(TRUE), [Plain(FALSE) EXCEPT !.isolation = TRUE],
               [Plain(FALSE) EXCEPT !.mode = "Other"]}
AllInserts == {<< >>, <<RowOf(k1, 1), RowOf(k2, 1)>>,
               <<RowOf(k2, 2), [RowOf(k1, 2) EXCEPT !.build = "serialization_failure"]>>,
               <<[RowOf(k1, 1) EXCEPT !.decode = "unsupported_feature"], RowOf(k2, 1)>>}
AllUpdates == {SetTo(k1, Add(1), NoPred, NoPred), SetTo(k1, Put(5), 1, 1), SetTo(k2, Add(1), 1, NoPred),
               [SetTo(k1, Put(2), NoPred, NoPred) EXCEPT !.keys = {k1, k2}],
               [SetTo(k2, Add(0), NoPred, NoPred) EXCEPT !.decode = "serialization_failure"],
               [SetTo(k1, Put(2), NoPred, NoPred) EXCEPT !.build = "unsupported_feature"]}
AllDeletes == {[keys |-> {k1}, filter |-> NoPred, condition |-> 1, build |-> "ok"],
               [keys |-> {k2}, filter |-> 2, condition |-> NoPred, build |-> "ok"],
               [keys |-> {}, filter |-> NoPred, condition |-> NoPred, build |-> "ok"]}
AllUpserts == {[key |-> k1, v |-> 1, shared |-> Add(1), action |-> a, build |-> "ok", decode |-> "ok"]
                  : a \in {"Update", "Ignore"}}
                \cup {[key |-> k2, v |-> 1, shared |-> Add(0), action |-> "Update",
                       build |-> "invalid_statement", decode |-> "ok"]}
AllGets    == {[keys |-> ks, build |-> "ok", decode |-> "ok"] : ks \in SUBSET {k1, k2}}
AllQueries == {Where(NoPred), Where(1), [Where(1) EXCEPT !.build = "unsupported_feature"],
               [Where(NoPred) EXCEPT !.decode = "serialization_failure"]}

Empty == {}

(* Connections are interchangeable, and every property checked is a safety
   property.                                                               *)
Interchangeable == Permutations(Conns)
=============================================================================
