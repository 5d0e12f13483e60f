--------------------------- MODULE FlowTableProofs ---------------------------
(* Proofs about FlowTable for every set of flows and workers, every        *)
(* max_flows and every timeout.                                            *)
EXTENDS FlowTable, FiniteSetTheorems, TLAPS

(* The variables start with their types.                                   *)
LEMMA TypeCorrectInit == Init => TypeOK
<1> USE BoundsAssumption DEF TypeOK, AgeCap, FlowState, Undecided, Decided
<1>1. 0 \in 0..(MirrorEvery - 1) /\ 0 \in 0..(Timeout + 1)
  OBVIOUS
<1> SUFFICES ASSUME Init PROVE TypeOK
  OBVIOUS
<1>2. sweeping \in BOOLEAN
  BY Zenon DEF Init
<1>3. age \in [Flows -> 0..(Timeout + 1)] /\ packets \in [Flows -> 0..(MirrorEvery - 1)]
  BY <1>1 DEF Init
<1>4. state \in [Flows -> FlowState \cup {"Absent"}]
  BY DEF Init
<1> QED BY <1>2, <1>3, <1>4 DEF Init

(* Every step keeps them.                                                  *)
LEMMA TypeCorrectNext == TypeOK /\ [Next]_vars => TypeOK'
<1> USE BoundsAssumption DEF TypeOK, AgeCap, FlowState, Undecided, Decided
<1> SUFFICES ASSUME TypeOK, [Next]_vars PROVE TypeOK'
  OBVIOUS
<1> USE DEF AgeOf
<1>1. ASSUME NEW w \in Workers, NEW f \in Flows, Hit(w, f) PROVE TypeOK'
  <2>1. (packets[f] + 1) % MirrorEvery \in 0..(MirrorEvery - 1)
    OBVIOUS
  <2>2. \A lag \in 0..MaxLag : AgeOf(lag) \in 0..(Timeout + 1)
    OBVIOUS
  <2> QED BY <1>1, <2>1, <2>2 DEF Hit
<1>2. ASSUME NEW w \in Workers, NEW f \in Flows, Miss(w, f) PROVE TypeOK'
  BY <1>2 DEF Miss
<1>3. ASSUME NEW w \in Workers, AdmitFlow(w) PROVE TypeOK'
  BY <1>3 DEF AdmitFlow
<1>4. ASSUME NEW w \in Workers, RefuseFlow(w) PROVE TypeOK'
  BY <1>4 DEF RefuseFlow
<1>5. ASSUME NEW w \in Workers, InsertFlow(w) PROVE TypeOK'
  <2>1. 1 % MirrorEvery \in 0..(MirrorEvery - 1)
    OBVIOUS
  <2>2. \A lag \in 0..MaxLag : AgeOf(lag) \in 0..(Timeout + 1)
    OBVIOUS
  <2>3. flow[w] \in Flows
    OBVIOUS
  <2> QED BY <1>5, <2>1, <2>2, <2>3 DEF InsertFlow
<1>6. ASSUME NEW w \in Workers, CountFlow(w) PROVE TypeOK'
  BY <1>6 DEF CountFlow
<1>7. ASSUME NEW f \in Flows, NEW d \in Decision, ApplyDecision(f, d) PROVE TypeOK'
  BY <1>7 DEF ApplyDecision, StateFor
<1>8. CASE StartSweep
  BY <1>8 DEF StartSweep
<1>9. ASSUME NEW f \in Flows, RemoveExpired(f) PROVE TypeOK'
  BY <1>9 DEF RemoveExpired
<1>10. ASSUME NEW f \in Flows, RetainFlow(f) PROVE TypeOK'
  BY <1>10 DEF RetainFlow
<1>11. CASE EndSweep
  <2>1. sweeping' \in BOOLEAN
    BY <1>11, Zenon DEF EndSweep
  <2> QED BY <1>11, <2>1 DEF EndSweep
<1>12. CASE Tick
  <2>1. \A f \in Flows : AgeOf(age[f] + 1) \in 0..(Timeout + 1)
    OBVIOUS
  <2>2. age' \in [Flows -> 0..(Timeout + 1)]
    BY <1>12, <2>1 DEF Tick
  <2>3. UNCHANGED <<state, packets, active_count, pc, flow, sweeping, unvisited, removed>>
    BY <1>12 DEF Tick
  <2> QED BY <2>2, <2>3
<1>13. CASE UNCHANGED vars
  BY <1>13 DEF vars
<1> QED BY <1>1, <1>2, <1>3, <1>4, <1>5, <1>6, <1>7, <1>8, <1>9, <1>10,
           <1>11, <1>12, <1>13 DEF Next, Packet, Sweep

(* The variables keep their types.                                         *)
THEOREM TypeCorrect == Spec => []TypeOK
BY TypeCorrectInit, TypeCorrectNext, PTL DEF Spec

-----------------------------------------------------------------------------
(* The sets the invariants count are finite.                               *)
LEMMA FiniteCounts ==
  /\ IsFiniteSet(Present) /\ Cardinality(Present) \in Nat
  /\ \A step : IsFiniteSet(At(step)) /\ Cardinality(At(step)) \in Nat
  /\ Cardinality(Workers) \in Nat \ {0}
<1>1. Present \subseteq Flows
  BY DEF Present
<1>2. \A step : At(step) \subseteq Workers
  BY DEF At
<1> QED BY <1>1, <1>2, FlowsAssumption, WorkersAssumption, FS_Subset,
           FS_CardinalityType, FS_EmptySet

(* The same sets after a step.                                             *)
LEMMA FiniteCountsNext ==
  /\ IsFiniteSet(Present') /\ Cardinality(Present') \in Nat
  /\ \A step : IsFiniteSet(At(step)') /\ Cardinality(At(step)') \in Nat
<1>1. Present' \subseteq Flows
  BY DEF Present
<1>2. \A step : At(step)' \subseteq Workers
  BY DEF At
<1> QED BY <1>1, <1>2, FlowsAssumption, WorkersAssumption, FS_Subset,
           FS_CardinalityType

(* What every step does to the three sets the invariants count.  First the *)
(* steps that leave all three alone.                                       *)
Still ==
  /\ Present' = Present
  /\ At("admitted")' = At("admitted")
  /\ At("inserted")' = At("inserted")

LEMMA StillSteps ==
  ASSUME TypeOK,
         \/ \E w \in Workers, f \in Flows : Hit(w, f) \/ Miss(w, f)
         \/ \E w \in Workers : RefuseFlow(w)
         \/ \E f \in Flows, d \in Decision : ApplyDecision(f, d)
         \/ StartSweep
         \/ \E f \in Flows : RetainFlow(f)
         \/ EndSweep
         \/ Tick
         \/ UNCHANGED vars
  PROVE  Still
<1> USE DEF TypeOK, Still, Present, At
<1>1. ASSUME NEW w \in Workers, NEW f \in Flows, Hit(w, f) PROVE Still
  BY <1>1 DEF Hit
<1>2. ASSUME NEW w \in Workers, NEW f \in Flows, Miss(w, f) PROVE Still
  BY <1>2 DEF Miss
<1>3. ASSUME NEW w \in Workers, RefuseFlow(w) PROVE Still
  BY <1>3 DEF RefuseFlow
<1>4. ASSUME NEW f \in Flows, NEW d \in Decision, ApplyDecision(f, d) PROVE Still
  BY <1>4 DEF ApplyDecision, StateFor
<1>5. CASE StartSweep
  BY <1>5 DEF StartSweep
<1>6. ASSUME NEW f \in Flows, RetainFlow(f) PROVE Still
  BY <1>6 DEF RetainFlow
<1>7. CASE EndSweep
  BY <1>7 DEF EndSweep
<1>8. CASE Tick
  BY <1>8 DEF Tick
<1>9. CASE UNCHANGED vars
  BY <1>9 DEF vars
<1> QED BY <1>1, <1>2, <1>3, <1>4, <1>5, <1>6, <1>7, <1>8, <1>9

(* The steps that move one worker or one flow.                             *)
LEMMA AdmitStep ==
  ASSUME TypeOK, NEW w \in Workers, AdmitFlow(w)
  PROVE  /\ Present' = Present
         /\ At("admitted")' = At("admitted") \cup {w} /\ w \notin At("admitted")
         /\ At("inserted")' = At("inserted") /\ w \notin At("inserted")
BY DEF TypeOK, AdmitFlow, Present, At

LEMMA InsertStep ==
  ASSUME TypeOK, NEW w \in Workers, InsertFlow(w)
  PROVE  /\ Present' = Present \cup {flow[w]}
         /\ At("admitted")' = At("admitted") \ {w} /\ w \in At("admitted")
         /\ At("inserted")' = At("inserted") \cup {w} /\ w \notin At("inserted")
<1>1. flow[w] \in Flows
  BY DEF TypeOK
<1>2. Present' = Present \cup {flow[w]}
  BY <1>1 DEF TypeOK, InsertFlow, Present, Undecided
<1> QED BY <1>2 DEF TypeOK, InsertFlow, At

LEMMA CountStep ==
  ASSUME TypeOK, NEW w \in Workers, CountFlow(w)
  PROVE  /\ Present' = Present
         /\ At("admitted")' = At("admitted")
         /\ At("inserted")' = At("inserted") \ {w} /\ w \in At("inserted")
BY DEF TypeOK, CountFlow, Present, At

LEMMA RemoveStep ==
  ASSUME TypeOK, NEW f \in Flows, RemoveExpired(f)
  PROVE  /\ Present' = Present \ {f} /\ f \in Present
         /\ At("admitted")' = At("admitted")
         /\ At("inserted")' = At("inserted")
BY DEF TypeOK, RemoveExpired, Expired, Present, At

-----------------------------------------------------------------------------
(* Counter and pending removals may move together.                         *)
LEMMA Shift ==
  ASSUME NEW p \in Nat, NEW i \in Nat, NEW r \in Nat, NEW r2 \in Nat,
         NEW a \in Int, NEW a2 \in Int, r2 - a2 = r - a, p + r <= a + i
  PROVE  p + r2 <= a2 + i
OBVIOUS

(* The inductive invariant holds in every reachable state.                 *)
LEMMA InductiveInvariant == Spec => []IInv
<1> USE BoundsAssumption DEF IInv, CountCoversTable
<1>1. Init => IInv
  <2> SUFFICES ASSUME Init PROVE IInv
    OBVIOUS
  <2>1. TypeOK
    BY TypeCorrectInit
  <2>2. Present = {} /\ At("admitted") = {} /\ At("inserted") = {}
    BY DEF Init, Present, At
  <2>3. active_count = 0 /\ removed = 0
    BY DEF Init
  <2>4. Cardinality(Workers) \in Nat \ {0}
    BY FiniteCounts
  <2>5. Cardinality(Present) = 0 /\ Cardinality(At("admitted")) = 0
        /\ Cardinality(At("inserted")) = 0
    BY <2>2, FS_EmptySet
  <2>6. CountCoversTable
    BY <2>3, <2>5
  <2>7. 0 + 0 <= MaxFlows + Cardinality(Workers) - 1
    BY <2>4
  <2> QED BY <2>1, <2>3, <2>5, <2>6, <2>7
<1>2. IInv /\ [Next]_vars => IInv'
  <2> SUFFICES ASSUME IInv, [Next]_vars PROVE IInv'
    OBVIOUS
  <2>1. TypeOK /\ TypeOK'
    BY TypeCorrectNext
  <2> USE <2>1
  <2>2. active_count \in Int /\ removed \in Nat
    BY DEF TypeOK
  <2>3. (~sweeping => removed = 0)'
    BY DEF Next, Packet, Sweep, Hit, Miss, AdmitFlow, RefuseFlow, InsertFlow, CountFlow,
           ApplyDecision, StartSweep, RemoveExpired, RetainFlow, EndSweep, Tick, vars
  <2>4. ASSUME Still, removed' - active_count' = removed - active_count,
               removed' \in Nat, active_count' \in Int
        PROVE  IInv'
    <3>1. /\ Cardinality(Present) \in Nat
          /\ Cardinality(At("inserted")) \in Nat
      BY FiniteCounts
    <3>2. CountCoversTable'
      <4>1. /\ Cardinality(Present') = Cardinality(Present)
            /\ Cardinality(At("inserted")') = Cardinality(At("inserted"))
        BY <2>4 DEF Still
      <4>2. Cardinality(Present) + removed <= active_count + Cardinality(At("inserted"))
        OBVIOUS
      <4>3. Cardinality(Present) + removed' <= active_count' + Cardinality(At("inserted"))
        BY <2>2, <2>4, <3>1, <4>2, Shift
      <4> QED BY <4>1, <4>3
    <3>3. (Cardinality(Present) + Cardinality(At("admitted"))
             <= MaxFlows + Cardinality(Workers) - 1)'
      BY <2>4 DEF Still
    <3> QED BY <2>3, <3>2, <3>3
  <2>5. ASSUME NEW w \in Workers, NEW f \in Flows, Hit(w, f) \/ Miss(w, f) PROVE IInv'
    BY <2>2, <2>4, <2>5, StillSteps DEF Hit, Miss
  <2>6. ASSUME NEW w \in Workers, RefuseFlow(w) PROVE IInv'
    BY <2>2, <2>4, <2>6, StillSteps DEF RefuseFlow
  <2>7. ASSUME NEW w \in Workers, AdmitFlow(w) PROVE IInv'
    <3>1. active_count' = active_count /\ removed' = removed /\ active_count < MaxFlows
      BY <2>2, <2>7 DEF AdmitFlow, Full
    <3>2. Cardinality(At("admitted")') = Cardinality(At("admitted")) + 1
      BY <2>7, AdmitStep, FiniteCounts, FS_AddElement
    <3>3. Cardinality(At("admitted")') + Cardinality(At("inserted")) <= Cardinality(Workers)
      <4>1. At("admitted")' \cup At("inserted") \in SUBSET Workers
        BY DEF At
      <4>2. At("admitted")' \cap At("inserted") = {}
        BY <2>7, AdmitStep DEF At
      <4>3. Cardinality(At("admitted")' \cup At("inserted")) <= Cardinality(Workers)
        BY <4>1, WorkersAssumption, FS_Subset
      <4>4. /\ IsFiniteSet(At("admitted")') /\ Cardinality(At("admitted")') \in Nat
            /\ IsFiniteSet(At("inserted")) /\ Cardinality(At("inserted")) \in Nat
        BY FiniteCounts, FiniteCountsNext
      <4>5. Cardinality(At("admitted")' \cup At("inserted"))
              = Cardinality(At("admitted")') + Cardinality(At("inserted")) - Cardinality({})
        BY <4>2, <4>4, FS_Union
      <4> QED BY <4>3, <4>4, <4>5, FS_EmptySet
    <3>4. Present' = Present /\ At("inserted")' = At("inserted")
      BY <2>7, AdmitStep
    <3> QED BY <2>2, <2>3, <3>1, <3>2, <3>3, <3>4, FiniteCounts
  <2>8. ASSUME NEW w \in Workers, InsertFlow(w) PROVE IInv'
    <3>1. active_count' = active_count /\ removed' = removed
      BY <2>8 DEF InsertFlow
    <3>2. Cardinality(Present') <= Cardinality(Present) + 1
      <4>1. IsFiniteSet(Present) /\ Cardinality(Present) \in Nat
        BY FiniteCounts
      <4>2. Cardinality(Present \cup {flow[w]}) \in {Cardinality(Present), Cardinality(Present) + 1}
        BY <4>1, FS_AddElement
      <4>3. Present' = Present \cup {flow[w]}
        BY <2>8, InsertStep
      <4>4. Cardinality(Present') \in {Cardinality(Present), Cardinality(Present) + 1}
        BY <4>2, <4>3
      <4> QED BY <4>1, <4>4
    <3>3. Cardinality(At("admitted")') = Cardinality(At("admitted")) - 1
      BY <2>8, InsertStep, FiniteCounts, FS_RemoveElement
    <3>4. Cardinality(At("inserted")') = Cardinality(At("inserted")) + 1
      BY <2>8, InsertStep, FiniteCounts, FS_AddElement
    <3> QED BY <2>2, <2>3, <3>1, <3>2, <3>3, <3>4, FiniteCounts, FiniteCountsNext
  <2>9. ASSUME NEW w \in Workers, CountFlow(w) PROVE IInv'
    <3>1. active_count' = active_count + 1 /\ removed' = removed
      BY <2>9 DEF CountFlow
    <3>2. Cardinality(At("inserted")') = Cardinality(At("inserted")) - 1
      BY <2>9, CountStep, FiniteCounts, FS_RemoveElement
    <3>3. Present' = Present /\ At("admitted")' = At("admitted")
      BY <2>9, CountStep
    <3> QED BY <2>2, <2>3, <3>1, <3>2, <3>3, FiniteCounts
  <2>10. ASSUME NEW f \in Flows, NEW d \in Decision, ApplyDecision(f, d) PROVE IInv'
    BY <2>2, <2>4, <2>10, StillSteps DEF ApplyDecision
  <2>11. CASE StartSweep
    BY <2>2, <2>4, <2>11, StillSteps DEF StartSweep
  <2>12. ASSUME NEW f \in Flows, RemoveExpired(f) PROVE IInv'
    <3>1. active_count' = active_count /\ removed' = removed + 1
      BY <2>12 DEF RemoveExpired
    <3>2. Cardinality(Present') = Cardinality(Present) - 1
      BY <2>12, RemoveStep, FiniteCounts, FS_RemoveElement
    <3>3. At("admitted")' = At("admitted") /\ At("inserted")' = At("inserted")
      BY <2>12, RemoveStep
    <3> QED BY <2>2, <2>3, <3>1, <3>2, <3>3, FiniteCounts
  <2>13. ASSUME NEW f \in Flows, RetainFlow(f) PROVE IInv'
    BY <2>2, <2>4, <2>13, StillSteps DEF RetainFlow
  <2>14. CASE EndSweep
    <3>1. removed' = 0 /\ active_count' = active_count - removed
      BY <2>14 DEF EndSweep
    <3>2. Still
      BY <2>14, StillSteps
    <3> QED BY <2>2, <2>4, <3>1, <3>2
  <2>15. CASE Tick
    BY <2>2, <2>4, <2>15, StillSteps DEF Tick
  <2>16. CASE UNCHANGED vars
    BY <2>2, <2>4, <2>16, StillSteps DEF vars
  <2> QED BY <2>5, <2>6, <2>7, <2>8, <2>9, <2>10, <2>11, <2>12, <2>13, <2>14,
             <2>15, <2>16 DEF Next, Packet, Sweep
<1> QED BY <1>1, <1>2, PTL DEF Spec

(* The counter never falls below the table, whatever the interleaving.     *)
THEOREM CounterCoversTable == Spec => []CounterSound
<1>1. IInv => CounterSound
  BY DEF IInv, CounterSound
<1> QED BY <1>1, InductiveInvariant, PTL

(* max_flows is overshot by at most one flow for every other worker.       *)
THEOREM OvershootBounded == Spec => []TableBounded
<1>1. IInv => TableBounded
  BY FiniteCounts, BoundsAssumption DEF IInv, TableBounded
<1> QED BY <1>1, InductiveInvariant, PTL

-----------------------------------------------------------------------------
(* A worker only ever handles flows that reach it.                         *)
OwnFlow == \A w \in Workers : pc[w] # "idle" => flow[w] \in Serves[w]

(* Between its miss and its insertion a worker's flow is still absent.     *)
Claimed == At("missed") \cup At("admitted")
ClaimAbsent == Affinity => \A w \in Claimed : state[flow[w]] = "Absent"

LEMMA OwnFlowNext == TypeOK /\ OwnFlow /\ [Next]_vars => OwnFlow'
<1> SUFFICES ASSUME TypeOK, OwnFlow, [Next]_vars PROVE OwnFlow'
  OBVIOUS
<1> USE DEF TypeOK, OwnFlow
<1>1. ASSUME NEW w \in Workers, NEW f \in Flows, Hit(w, f) PROVE OwnFlow'
  BY <1>1 DEF Hit
<1>2. ASSUME NEW w \in Workers, NEW f \in Flows, Miss(w, f) PROVE OwnFlow'
  BY <1>2 DEF Miss
<1>3. ASSUME NEW w \in Workers, AdmitFlow(w) PROVE OwnFlow'
  BY <1>3 DEF AdmitFlow
<1>4. ASSUME NEW w \in Workers, RefuseFlow(w) PROVE OwnFlow'
  BY <1>4 DEF RefuseFlow
<1>5. ASSUME NEW w \in Workers, InsertFlow(w) PROVE OwnFlow'
  BY <1>5 DEF InsertFlow
<1>6. ASSUME NEW w \in Workers, CountFlow(w) PROVE OwnFlow'
  BY <1>6 DEF CountFlow
<1>7. CASE UNCHANGED <<pc, flow>>
  BY <1>7
<1> QED BY <1>1, <1>2, <1>3, <1>4, <1>5, <1>6, <1>7
        DEF Next, Packet, Sweep, ApplyDecision, StartSweep, RemoveExpired,
            RetainFlow, EndSweep, Tick, vars

LEMMA ClaimAbsentNext ==
  TypeOK /\ OwnFlow /\ ClaimAbsent /\ [Next]_vars => ClaimAbsent'
<1> SUFFICES ASSUME TypeOK, OwnFlow, ClaimAbsent, [Next]_vars, Affinity,
                    NEW v \in Workers, pc'[v] \in {"missed", "admitted"}
             PROVE  state'[flow'[v]] = "Absent"
  BY DEF ClaimAbsent, Claimed, At
<1> USE DEF TypeOK
<1>1. pc[v] \in {"missed", "admitted"} => state[flow[v]] = "Absent"
  BY DEF ClaimAbsent, Claimed, At
<1>2. ASSUME NEW w \in Workers, NEW f \in Flows, Hit(w, f)
      PROVE  state'[flow'[v]] = "Absent"
  BY <1>1, <1>2 DEF Hit
<1>3. ASSUME NEW w \in Workers, NEW f \in Flows, Miss(w, f)
      PROVE  state'[flow'[v]] = "Absent"
  BY <1>1, <1>3 DEF Miss
<1>4. ASSUME NEW w \in Workers, AdmitFlow(w)
      PROVE  state'[flow'[v]] = "Absent"
  BY <1>1, <1>4 DEF AdmitFlow
<1>5. ASSUME NEW w \in Workers, RefuseFlow(w)
      PROVE  state'[flow'[v]] = "Absent"
  BY <1>1, <1>5 DEF RefuseFlow
<1>6. ASSUME NEW w \in Workers, InsertFlow(w)
      PROVE  state'[flow'[v]] = "Absent"
  <2>1. v # w
    BY <1>6 DEF InsertFlow
  <2>2. pc[v] \in {"missed", "admitted"} /\ flow' = flow
    BY <1>6, <2>1 DEF InsertFlow
  <2>3. flow[v] \in Serves[v] /\ flow[w] \in Serves[w]
    BY <1>6, <2>2 DEF OwnFlow, InsertFlow
  <2>4. flow[v] # flow[w]
    BY <2>1, <2>3 DEF Affinity
  <2>5. state'[flow[v]] = state[flow[v]]
    BY <1>6, <2>4 DEF InsertFlow
  <2> QED BY <1>1, <2>2, <2>5
<1>7. ASSUME NEW w \in Workers, CountFlow(w)
      PROVE  state'[flow'[v]] = "Absent"
  BY <1>1, <1>7 DEF CountFlow
<1>8. ASSUME NEW f \in Flows, NEW d \in Decision, ApplyDecision(f, d)
      PROVE  state'[flow'[v]] = "Absent"
  BY <1>1, <1>8 DEF ApplyDecision
<1>9. ASSUME NEW f \in Flows, RemoveExpired(f)
      PROVE  state'[flow'[v]] = "Absent"
  BY <1>1, <1>9 DEF RemoveExpired
<1>10. CASE UNCHANGED <<state, pc, flow>>
  BY <1>1, <1>10
<1> QED BY <1>2, <1>3, <1>4, <1>5, <1>6, <1>7, <1>8, <1>9, <1>10
        DEF Next, Packet, Sweep, StartSweep, RetainFlow, EndSweep, Tick, vars

LEMMA CountExactNext ==
  IInv /\ ClaimAbsent /\ CountExact /\ [Next]_vars => CountExact'
<1> SUFFICES ASSUME IInv, ClaimAbsent, [Next]_vars, Affinity,
                    Cardinality(Present) + removed
                      = active_count + Cardinality(At("inserted"))
             PROVE  Cardinality(Present') + removed'
                      = active_count' + Cardinality(At("inserted")')
  BY DEF CountExact
<1> DEFINE Exact == Cardinality(Present') + removed'
                      = active_count' + Cardinality(At("inserted")')
<1>1. TypeOK /\ (~sweeping => removed = 0)
  BY DEF IInv
<1>2. TypeOK'
  BY <1>1, TypeCorrectNext
<1>3. /\ active_count \in Int /\ removed \in Nat
      /\ active_count' \in Int /\ removed' \in Nat
  BY <1>1, <1>2 DEF TypeOK
<1>4. /\ IsFiniteSet(Present) /\ Cardinality(Present) \in Nat
      /\ IsFiniteSet(At("inserted")) /\ Cardinality(At("inserted")) \in Nat
  BY FiniteCounts
<1> HIDE DEF IInv
<1>5. ASSUME Still, active_count' = active_count, removed' = removed PROVE Exact
  BY <1>5 DEF Still
<1>6. ASSUME NEW w \in Workers, NEW f \in Flows, Hit(w, f) \/ Miss(w, f) PROVE Exact
  BY <1>1, <1>5, <1>6, StillSteps DEF Hit, Miss
<1>7. ASSUME NEW w \in Workers, RefuseFlow(w) PROVE Exact
  BY <1>1, <1>5, <1>7, StillSteps DEF RefuseFlow
<1>8. ASSUME NEW w \in Workers, AdmitFlow(w) PROVE Exact
  BY <1>1, <1>8, AdmitStep DEF AdmitFlow
<1>9. ASSUME NEW w \in Workers, InsertFlow(w) PROVE Exact
  <2>1. active_count' = active_count /\ removed' = removed
    BY <1>9 DEF InsertFlow
  <2>2. flow[w] \notin Present
    BY <1>9 DEF ClaimAbsent, Claimed, At, InsertFlow, Present
  <2>3. Cardinality(Present') = Cardinality(Present) + 1
    <3>1. Cardinality(Present \cup {flow[w]}) = Cardinality(Present) + 1
      BY <1>4, <2>2, FS_AddElement
    <3>2. Present' = Present \cup {flow[w]}
      BY <1>1, <1>9, InsertStep
    <3> QED BY <3>1, <3>2
  <2>4. Cardinality(At("inserted")') = Cardinality(At("inserted")) + 1
    BY <1>1, <1>4, <1>9, InsertStep, FS_AddElement
  <2> QED BY <1>3, <1>4, <2>1, <2>3, <2>4
<1>10. ASSUME NEW w \in Workers, CountFlow(w) PROVE Exact
  <2>1. active_count' = active_count + 1 /\ removed' = removed
    BY <1>10 DEF CountFlow
  <2>2. Cardinality(At("inserted")') = Cardinality(At("inserted")) - 1
    BY <1>1, <1>4, <1>10, CountStep, FS_RemoveElement
  <2>3. Present' = Present
    BY <1>1, <1>10, CountStep
  <2> QED BY <1>3, <1>4, <2>1, <2>2, <2>3
<1>11. ASSUME NEW f \in Flows, NEW d \in Decision, ApplyDecision(f, d) PROVE Exact
  BY <1>1, <1>5, <1>11, StillSteps DEF ApplyDecision
<1>12. CASE StartSweep
  BY <1>1, <1>5, <1>12, StillSteps DEF StartSweep
<1>13. ASSUME NEW f \in Flows, RemoveExpired(f) PROVE Exact
  <2>1. active_count' = active_count /\ removed' = removed + 1
    BY <1>13 DEF RemoveExpired
  <2>2. Cardinality(Present') = Cardinality(Present) - 1
    BY <1>1, <1>4, <1>13, RemoveStep, FS_RemoveElement
  <2>3. At("inserted")' = At("inserted")
    BY <1>1, <1>13, RemoveStep
  <2> QED BY <1>3, <1>4, <2>1, <2>2, <2>3
<1>14. ASSUME NEW f \in Flows, RetainFlow(f) PROVE Exact
  BY <1>1, <1>5, <1>14, StillSteps DEF RetainFlow
<1>15. CASE EndSweep
  <2>1. removed' = 0 /\ active_count' = active_count - removed
    BY <1>15 DEF EndSweep
  <2>2. Still
    BY <1>1, <1>15, StillSteps
  <2>3. Cardinality(Present) + removed' = active_count' + Cardinality(At("inserted"))
    BY <1>3, <1>4, <2>1
  <2> QED BY <2>2, <2>3 DEF Still
<1>16. CASE Tick
  BY <1>1, <1>5, <1>16, StillSteps DEF Tick
<1>17. CASE UNCHANGED vars
  BY <1>1, <1>5, <1>17, StillSteps DEF vars
<1> QED BY <1>6, <1>7, <1>8, <1>9, <1>10, <1>11, <1>12, <1>13, <1>14, <1>15,
           <1>16, <1>17 DEF Next, Packet, Sweep

LEMMA AffineInductive == Spec => [](IInv /\ AffineInv)
<1>1. AffineInv <=> OwnFlow /\ ClaimAbsent /\ CountExact
  BY DEF AffineInv, OwnFlow, ClaimAbsent, Claimed
<1>2. Init => OwnFlow /\ ClaimAbsent
  BY DEF Init, OwnFlow, ClaimAbsent, Claimed, At
<1>3. Init => CountExact
  <2> SUFFICES ASSUME Init PROVE CountExact
    OBVIOUS
  <2>1. Present = {} /\ At("inserted") = {}
    BY DEF Init, Present, At
  <2>2. active_count = 0 /\ removed = 0
    BY DEF Init
  <2> QED BY <2>1, <2>2, FS_EmptySet DEF CountExact
<1>4. IInv /\ OwnFlow /\ ClaimAbsent /\ CountExact /\ [Next]_vars
        => (OwnFlow /\ ClaimAbsent /\ CountExact)'
  BY OwnFlowNext, ClaimAbsentNext, CountExactNext DEF IInv
<1>5. (AffineInv <=> OwnFlow /\ ClaimAbsent /\ CountExact)'
  BY DEF AffineInv, OwnFlow, ClaimAbsent, Claimed
<1>6. Init => AffineInv
  BY <1>1, <1>2, <1>3
<1>7. IInv /\ AffineInv /\ [Next]_vars => AffineInv'
  BY <1>1, <1>4, <1>5
<1> QED BY <1>6, <1>7, InductiveInvariant, PTL DEF Spec

(* When no flow reaches two workers, the counter is exact: no insertion    *)
(* replaces a record that is already counted, so nothing leaks.            *)
THEOREM ExactUnderAffinity == Spec => []CountExact
BY AffineInductive, PTL DEF AffineInv

(* When no flow reaches two workers, no packet takes back a verdict.       *)
THEOREM VerdictKeptUnderAffinity == Spec => VerdictKept
<1> DEFINE Keep == Affinity => \A f \in Flows : state[f] \in Decided => state'[f] \notin Undecided
<1>1. ASSUME IInv, AffineInv, Next, Affinity, NEW f \in Flows, state[f] \in Decided
      PROVE  state'[f] \notin Undecided
  <2> USE DEF TypeOK, Decided, Undecided
  <2>1. TypeOK
    BY <1>1 DEF IInv
  <2>2. ASSUME NEW w \in Workers, InsertFlow(w) PROVE state'[f] \notin Undecided
    <3>1. flow[w] # f
      BY <1>1, <2>2 DEF AffineInv, At, InsertFlow
    <3> QED BY <1>1, <2>1, <2>2, <3>1 DEF InsertFlow
  <2>3. ASSUME NEW g \in Flows, NEW d \in Decision, ApplyDecision(g, d)
        PROVE  state'[f] \notin Undecided
    BY <1>1, <2>1, <2>3 DEF ApplyDecision, StateFor
  <2>4. ASSUME NEW g \in Flows, RemoveExpired(g) PROVE state'[f] \notin Undecided
    BY <1>1, <2>1, <2>4 DEF RemoveExpired
  <2>5. CASE state' = state
    BY <1>1, <2>5
  <2> QED BY <1>1, <2>2, <2>3, <2>4, <2>5
          DEF Next, Packet, Sweep, Hit, Miss, AdmitFlow, RefuseFlow, CountFlow,
              StartSweep, RetainFlow, EndSweep, Tick
<1>2. IInv /\ AffineInv /\ [Next]_vars => [Keep]_vars
  BY <1>1
<1> QED BY <1>2, AffineInductive, PTL DEF Spec, VerdictKept
=============================================================================
