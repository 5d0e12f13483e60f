------------------------- MODULE MCClickHouseWriter -------------------------
(* Instances of ClickHouseWriter for TLC: two of the three buffers (the    *)
(* code treats all alike, only their order matters).                       *)
EXTENDS ClickHouseWriter, TLC
CONSTANTS flows, threats, f1, f2, f3, t1, c1, c2

MCTables == <<flows, threats>>
MCRows == {f1, f2, f3, t1}
FewRows == {f1, f2, t1}
MCTableOf == [r \in Rows |-> IF r = t1 THEN threats ELSE flows]
TwoCallers == {c1, c2}
=============================================================================
