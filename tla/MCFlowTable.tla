---------------------------- MODULE MCFlowTable ----------------------------
(* Instances of FlowTable for TLC: two workers that share the flows        *)
(* (ServesShared) or divide them (ServesAffine).                           *)
EXTENDS FlowTable, TLC
CONSTANTS f1, f2, f3, w1, w2

MCFlows == {f1, f2, f3}
TwoFlows == {f1, f2}
MCWorkers == {w1, w2}
ServesShared == [w \in {w1, w2} |-> {f1, f2}]
ServesAffine == (w1 :> {f1, f3}) @@ (w2 :> {f2})
=============================================================================
