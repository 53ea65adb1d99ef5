------------------------------- MODULE MCPaging -------------------------------
(***************************************************************************)
(* Instances of Paging for TLC: a table with the composite key             *)
(* (partition, local), the partitions a and b, and the sort key `local`.   *)
(***************************************************************************)
EXTENDS Paging

CONSTANTS a1, a2, a3, b1, b2, b3, old, new

Locals == [k \in Keys |-> CASE k \in {a1, b1} -> 1
                            [] k \in {a2, b2} -> 2
                            [] OTHER -> 3]

Ask(range, wanted, order, size) ==
    [range |-> range \cap Keys, wanted |-> wanted, order |-> order, page_size |-> size]

PartitionA == {a1, a2, a3}
QueryPks == {Ask(PartitionA, {old}, "Desc", 1), Ask(PartitionA, {old, new}, "None", 2),
             Ask(Keys, {old}, "Asc", 2)}
Lasting  == {Ask(PartitionA, {old}, "Desc", 1), Ask(Keys, {old, new}, "None", 1)}
Scans    == {Ask(Keys, {old, new}, "None", 1)}
=============================================================================
