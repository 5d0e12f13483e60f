--------------------------- MODULE LearningProofs ---------------------------
(***************************************************************************)
(* Proofs about Federated, DecisionEngine, MarlTraining and Learners       *)
(* (ml/), for any clients, datasets, flows, requests, agents, scores,      *)
(* feedback and bounds: a round averages what was trained from its own     *)
(* model, a decision is backed by what the brain saw, a trainer keeps the  *)
(* best of what it saw, and what the learners keep is what they saw.       *)
(***************************************************************************)
EXTENDS Federated, DecisionEngine, MarlTraining, Learners, SequenceLemmas

-----------------------------------------------------------------------------
(* Federated.                                                              *)

UpdateType == [client : FedClients, round : Nat, base : Nat, loads : Nat, samples : Nat]
ClientType == [phase : {"idle", "loaded", "posted"}, round : Nat, base : Nat, loads : Nat]

(* What was made of a model that the server has had: x is an update, or    *)
(* what a client remembers of its model.                                   *)
Known(x) ==
  /\ x.loads <= loads
  /\ x.loads = loads => x.round <= round /\ (x.round = round => x.base = model)

PendingIsCurrent == \A u \in pending : u.loads = loads => u.round = round
OnePerClient == \A u, v \in pending : u.client = v.client => u = v
ReadyWhenEnough == ready <=> Cardinality(pending) >= MinClients

AveragedIsSound ==
  averaged.updates # {} =>
    /\ Cardinality({u.client : u \in averaged.updates}) >= MinClients
    /\ \A u \in averaged.updates :
         /\ u.round = averaged.round \/ averaged.loads > u.loads
         /\ u.loads = averaged.loads => u.base = averaged.model

FedTypes ==
  /\ round \in Nat /\ model \in Nat /\ loads \in Nat /\ models \in Nat
  /\ ready \in BOOLEAN
  /\ pending \in SUBSET UpdateType /\ IsFiniteSet(pending)
  /\ wire \in SUBSET UpdateType
  /\ saved \in SUBSET [round : Nat, model : Nat]
  /\ fedClient \in [FedClients -> ClientType]

AllKnown ==
  /\ \A u \in wire \cup pending : Known(u)
  /\ \A c \in FedClients : fedClient[c].phase # "idle" => Known(fedClient[c])

FedInv ==
  FedTypes /\ AllKnown /\ PendingIsCurrent /\ OnePerClient /\ ReadyWhenEnough /\ AveragedIsSound

-----------------------------------------------------------------------------
(* An update replaces the one of its client: as many, or one more.         *)
LEMMA ReplacementCounts ==
  ASSUME NEW P, IsFiniteSet(P), NEW u,
         \A v, w \in P : v.client = w.client => v = w
  PROVE  LET Q == {p \in P : p.client # u.client} \cup {u}
         IN IsFiniteSet(Q) /\ Cardinality(Q) >= Cardinality(P)
<1> DEFINE R == {p \in P : p.client # u.client}
<1>1. IsFiniteSet(R) /\ Cardinality(R) \in Nat /\ Cardinality(P) \in Nat
  BY FS_Subset, FS_CardinalityType
<1>2. u \notin R
  OBVIOUS
<1>3. IsFiniteSet(R \cup {u}) /\ Cardinality(R \cup {u}) = Cardinality(R) + 1
  BY <1>1, <1>2, FS_AddElement
<1>4. Cardinality(P) <= Cardinality(R) + 1
  <2>1. CASE R = P
    BY <1>1, <2>1
  <2>2. CASE R # P
    <3>1. PICK v \in P : v.client = u.client
      BY <2>2
    <3>2. R = P \ {v}
      BY <3>1
    <3> QED
      BY <1>1, <3>1, <3>2, FS_RemoveElement
  <2> QED
    BY <2>1, <2>2
<1> QED
  BY <1>1, <1>3, <1>4

(* As many clients as updates.                                             *)
LEMMA ClientsCount ==
  ASSUME NEW P, IsFiniteSet(P), \A v, w \in P : v.client = w.client => v = w
  PROVE  Cardinality({u.client : u \in P}) = Cardinality(P)
<1> DEFINE C == {u.client : u \in P}
           f == [u \in P |-> u.client]
<1>1. f \in [P -> C]
  OBVIOUS
<1>2. \A x, y \in P : f[x] = f[y] => x = y
  OBVIOUS
<1>3. \A c \in C : \E u \in P : f[u] = c
  OBVIOUS
<1>4. f \in Bijection(P, C)
  <2>1. IsInjective(f)
    BY <1>2 DEF IsInjective
  <2>2. f \in Injection(P, C)
    BY <1>1, <2>1 DEF Injection
  <2>3. f \in Surjection(P, C)
    BY <1>1, <1>3 DEF Surjection
  <2> QED
    BY <2>2, <2>3 DEF Bijection
<1> QED
  BY <1>4, FS_Bijection DEF ExistsBijection

-----------------------------------------------------------------------------
LEMMA FedInitial == FedInit => FedInv
<1> SUFFICES ASSUME FedInit PROVE FedInv
  OBVIOUS
<1> USE DEF FedInit
<1>1. FedTypes
  <2>1. Resting \in ClientType
    BY DEF Resting, ClientType
  <2> QED
    BY <2>1, FS_EmptySet DEF FedTypes
<1>2. AllKnown
  BY DEF AllKnown, Resting
<1>3. ReadyWhenEnough
  BY FS_EmptySet, FedAssumption DEF ReadyWhenEnough
<1> QED
  BY <1>1, <1>2, <1>3 DEF FedInv, PendingIsCurrent, OnePerClient, AveragedIsSound

LEMMA FedInductive == FedInv /\ [FedNext]_fedVars => FedInv'
<1> SUFFICES ASSUME FedInv, [FedNext]_fedVars PROVE FedInv'
  OBVIOUS
<1>a. FedTypes /\ AllKnown /\ PendingIsCurrent /\ OnePerClient /\ ReadyWhenEnough
      /\ AveragedIsSound
  BY DEF FedInv
<1>b. /\ round \in Nat /\ loads \in Nat
      /\ \A u \in wire \cup pending : u.round \in Nat /\ u.loads \in Nat
      /\ \A c \in FedClients : fedClient[c].round \in Nat /\ fedClient[c].loads \in Nat
  BY <1>a DEF FedTypes, UpdateType, ClientType
<1>c. ASSUME UNCHANGED <<round, model, pending, ready, saved, loads, models, averaged>>,
             wire' \in SUBSET UpdateType, fedClient' \in [FedClients -> ClientType],
             \A u \in wire' : Known(u),
             \A c \in FedClients : fedClient'[c].phase # "idle" => Known(fedClient'[c])
      PROVE  FedInv'
  <2>1. FedTypes'
    BY <1>a, <1>c DEF FedTypes
  <2>2. AllKnown'
    BY <1>a, <1>c DEF AllKnown, Known
  <2> QED
    BY <1>a, <1>c, <2>1, <2>2
       DEF FedInv, PendingIsCurrent, OnePerClient, ReadyWhenEnough, AveragedIsSound
<1>1. ASSUME NEW c \in FedClients, FetchModel(c) PROVE FedInv'
  <2> DEFINE x == [phase |-> "loaded", round |-> round, base |-> model, loads |-> loads]
  <2>1. x \in ClientType /\ Known(x)
    BY <1>a, <1>b DEF FedTypes, ClientType, Known
  <2>2. fedClient' = [fedClient EXCEPT ![c] = x] /\ UNCHANGED <<server, wire>>
    BY <1>1 DEF FetchModel
  <2>3. fedClient' \in [FedClients -> ClientType]
        /\ \A d \in FedClients : fedClient'[d].phase # "idle" => Known(fedClient'[d])
    BY <1>a, <2>1, <2>2 DEF FedTypes, AllKnown
  <2> QED
    BY <1>a, <1>c, <2>2, <2>3 DEF FedTypes, AllKnown, server
<1>2. ASSUME NEW c \in FedClients, PostEnds(c) PROVE FedInv'
  <2>1. fedClient' = [fedClient EXCEPT ![c] = Resting] /\ UNCHANGED <<server, wire>>
    BY <1>2 DEF PostEnds
  <2>2. Resting \in ClientType /\ Resting.phase = "idle"
    BY DEF Resting, ClientType
  <2>3. fedClient' \in [FedClients -> ClientType]
        /\ \A d \in FedClients : fedClient'[d].phase # "idle" => Known(fedClient'[d])
    BY <1>a, <2>1, <2>2 DEF FedTypes, AllKnown
  <2> QED
    BY <1>a, <1>c, <2>1, <2>3 DEF FedTypes, AllKnown, server
<1>3. ASSUME NEW c \in FedClients, NEW n \in Datasets, TrainAndPost(c, n) PROVE FedInv'
  <2>1. UNCHANGED server /\ fedClient[c].phase = "loaded" /\ fedClient[c] \in ClientType
        /\ n \in Nat
    BY <1>3, <1>a, FedAssumption DEF TrainAndPost, FedTypes
  <2>2. CASE n = 0
    <3>1. fedClient' = [fedClient EXCEPT ![c] = Resting] /\ UNCHANGED wire
      BY <1>3, <2>2 DEF TrainAndPost
    <3>2. Resting \in ClientType /\ Resting.phase = "idle"
      BY DEF Resting, ClientType
    <3>3. fedClient' \in [FedClients -> ClientType]
          /\ \A d \in FedClients : fedClient'[d].phase # "idle" => Known(fedClient'[d])
      BY <1>a, <3>1, <3>2 DEF FedTypes, AllKnown
    <3> QED
      BY <1>a, <1>c, <2>1, <3>1, <3>3 DEF FedTypes, AllKnown, server
  <2>3. CASE n # 0
    <3> DEFINE x == fedClient[c]
               u == [client |-> c, round |-> x.round, base |-> x.base,
                     loads |-> x.loads, samples |-> n]
               y == [x EXCEPT !.phase = "posted"]
    <3>1. fedClient' = [fedClient EXCEPT ![c] = y] /\ wire' = wire \cup {u}
      BY <1>3, <1>a, <2>3 DEF TrainAndPost, FedTypes
    <3>2. Known(x)
      BY <1>a, <2>1 DEF AllKnown
    <3>3. u \in UpdateType /\ Known(u)
      BY <2>1, <3>2 DEF UpdateType, ClientType, Known
    <3>4. y \in ClientType /\ Known(y)
      BY <2>1, <3>2 DEF ClientType, Known
    <3>5. fedClient' \in [FedClients -> ClientType]
          /\ \A d \in FedClients : fedClient'[d].phase # "idle" => Known(fedClient'[d])
      BY <1>a, <3>1, <3>4 DEF FedTypes, AllKnown
    <3>6. wire' \in SUBSET UpdateType /\ \A v \in wire' : Known(v)
      BY <1>a, <3>1, <3>3 DEF FedTypes, AllKnown
    <3> QED
      BY <1>c, <2>1, <3>5, <3>6 DEF server
  <2> QED
    BY <2>2, <2>3
<1>4. ASSUME NEW u \in wire, UpdateLost(u) PROVE FedInv'
  <2>1. wire' = wire \ {u} /\ UNCHANGED <<server, fedClient>>
    BY <1>4 DEF UpdateLost
  <2> QED
    BY <1>a, <1>c, <2>1 DEF FedTypes, AllKnown, server
<1>5. ASSUME NEW u \in wire, ReceiveUpdate(u) PROVE FedInv'
  <2>1. /\ wire' = wire \ {u}
        /\ UNCHANGED <<round, model, saved, loads, models, fedClient, averaged>>
    BY <1>5 DEF ReceiveUpdate
  <2>2. CASE ~ForThisRound(u)
    BY <1>5, <1>a, <1>c, <2>1, <2>2 DEF ReceiveUpdate, FedTypes, AllKnown
  <2>3. CASE ForThisRound(u)
    <3> DEFINE Q == {p \in pending : p.client # u.client} \cup {u}
    <3>1. /\ pending' = Q
          /\ ready' = (ready \/ Cardinality(Q) >= MinClients)
      BY <1>5, <2>3 DEF ReceiveUpdate
    <3>2. IsFiniteSet(Q) /\ Cardinality(Q) >= Cardinality(pending)
      BY <1>a, ReplacementCounts DEF FedTypes, OnePerClient
    <3>3. Cardinality(Q) \in Nat /\ Cardinality(pending) \in Nat /\ MinClients \in Nat
      BY <1>a, <3>2, FS_CardinalityType, FedAssumption DEF FedTypes
    <3>4. ReadyWhenEnough'
      <4>1. ready' <=> Cardinality(Q) >= MinClients
        <5>1. ready => Cardinality(Q) >= MinClients
          <6>1. ready => Cardinality(pending) >= MinClients
            BY <1>a DEF ReadyWhenEnough
          <6> QED
            BY <3>2, <3>3, <6>1
        <5> HIDE DEF Q
        <5> QED
          BY <3>1, <5>1, Zenon
      <4> QED
        BY <3>1, <4>1 DEF ReadyWhenEnough
    <3>5. FedTypes'
      <4>1. Q \in SUBSET UpdateType
        BY <1>a DEF FedTypes
      <4>2. ready' \in BOOLEAN
        BY <3>1, Zenon
      <4> QED
        BY <1>a, <2>1, <3>1, <3>2, <4>1, <4>2 DEF FedTypes
    <3>6. AllKnown'
      BY <1>a, <2>1, <3>1 DEF AllKnown, Known
    <3>7. PendingIsCurrent' /\ OnePerClient'
      BY <1>a, <2>1, <2>3, <3>1 DEF PendingIsCurrent, OnePerClient, ForThisRound
    <3> QED
      BY <1>a, <2>1, <3>4, <3>5, <3>6, <3>7 DEF FedInv, AveragedIsSound
  <2> QED
    BY <2>2, <2>3
<1>6. CASE BeginAggregate \/ AggregateTimesOut
  BY <1>6, <1>a, <1>c DEF BeginAggregate, AggregateTimesOut, FedTypes, AllKnown
<1>7. CASE Aggregate
  <2>1. /\ pending' = {} /\ ready' = FALSE /\ ready
        /\ UNCHANGED <<saved, loads, fedClient, wire>>
    BY <1>7 DEF Aggregate
  <2>2. CASE UNCHANGED <<round, model, models, averaged>>
    <3>1. FedTypes'
      BY <1>a, <2>1, <2>2, FS_EmptySet DEF FedTypes
    <3>2. AllKnown'
      BY <1>a, <2>1, <2>2 DEF AllKnown, Known
    <3>3. ReadyWhenEnough'
      BY <2>1, FS_EmptySet, FedAssumption DEF ReadyWhenEnough
    <3> QED
      BY <1>a, <2>1, <2>2, <3>1, <3>2, <3>3
         DEF FedInv, PendingIsCurrent, OnePerClient, AveragedIsSound
  <2>3. CASE /\ round' = round + 1
             /\ models' = models + 1
             /\ model' = models'
             /\ averaged' = [updates |-> pending, round |-> round, model |-> model,
                             loads |-> loads]
    <3>1. FedTypes'
      <4>1. round' \in Nat /\ model' \in Nat /\ models' \in Nat
        BY <1>a, <2>3 DEF FedTypes
      <4> QED
        BY <1>a, <2>1, <4>1, FS_EmptySet DEF FedTypes
    <3>2. AllKnown'
      <4>1. ASSUME NEW x, Known(x), x.round \in Nat
            PROVE  x.loads <= loads' /\ (x.loads = loads' => x.round < round')
        BY <1>b, <2>1, <2>3, <4>1 DEF Known
      <4>2. ASSUME NEW u \in wire PROVE Known(u)'
        BY <1>a, <1>b, <2>1, <2>3, <4>1 DEF AllKnown, Known
      <4>3. ASSUME NEW c \in FedClients, fedClient[c].phase # "idle"
            PROVE  Known(fedClient[c])'
        <5>1. Known(fedClient[c]) /\ fedClient[c].round \in Nat
          BY <1>a, <1>b, <4>3 DEF AllKnown
        <5> QED
          BY <1>b, <2>1, <2>3, <4>1, <5>1 DEF Known
      <4> QED
        BY <2>1, <4>2, <4>3 DEF AllKnown
    <3>3. ReadyWhenEnough'
      BY <2>1, FS_EmptySet, FedAssumption DEF ReadyWhenEnough
    <3>4. AveragedIsSound'
      <4>1. Cardinality({u.client : u \in pending}) >= MinClients
        BY <1>a, <2>1, ClientsCount DEF ReadyWhenEnough, OnePerClient, FedTypes
      <4>2. \A u \in pending : /\ u.round = round \/ loads > u.loads
                               /\ u.loads = loads => u.base = model
        BY <1>a, <1>b DEF AllKnown, Known, PendingIsCurrent
      <4> QED
        BY <2>3, <4>1, <4>2 DEF AveragedIsSound
    <3> QED
      BY <2>1, <3>1, <3>2, <3>3, <3>4 DEF FedInv, PendingIsCurrent, OnePerClient
  <2> QED
    BY <1>7, <2>2, <2>3 DEF Aggregate
<1>8. CASE SaveCheckpoint
  <2>1. saved' = {[round |-> round, model |-> model]}
        /\ UNCHANGED <<round, model, pending, ready, loads, models, fedClient, wire, averaged>>
    BY <1>8 DEF SaveCheckpoint
  <2>2. FedTypes'
    BY <1>a, <2>1 DEF FedTypes
  <2>3. AllKnown'
    BY <1>a, <2>1 DEF AllKnown, Known
  <2> QED
    BY <1>a, <2>1, <2>2, <2>3
       DEF FedInv, PendingIsCurrent, OnePerClient, ReadyWhenEnough, AveragedIsSound
<1>9. ASSUME NEW restart \in BOOLEAN, LoadCheckpoint(restart) PROVE FedInv'
  <2>1. /\ \E s \in saved : round' = s.round /\ model' = s.model
        /\ loads' = loads + 1
        /\ UNCHANGED <<saved, models, fedClient, wire, averaged>>
    BY <1>9 DEF LoadCheckpoint
  <2>2. (pending' = {} /\ ready' = FALSE) \/ UNCHANGED <<pending, ready>>
    BY <1>9 DEF LoadCheckpoint
  <2>3. FedTypes'
    <3>1. round' \in Nat /\ model' \in Nat /\ loads' \in Nat
      BY <1>a, <2>1 DEF FedTypes
    <3>2. ready' \in BOOLEAN /\ pending' \in SUBSET UpdateType /\ IsFiniteSet(pending')
      BY <1>a, <2>2, FS_EmptySet DEF FedTypes
    <3> QED
      BY <1>a, <2>1, <3>1, <3>2 DEF FedTypes
  <2>4. pending' \subseteq pending
    BY <2>2
  <2>5. \A u \in wire \cup pending : u.loads < loads'
    BY <1>a, <1>b, <2>1 DEF AllKnown, Known
  <2>6. ASSUME NEW c \in FedClients, fedClient[c].phase # "idle"
        PROVE  fedClient[c].loads < loads'
    <3>1. fedClient[c].loads <= loads
      BY <1>a, <2>6 DEF AllKnown, Known
    <3> QED
      BY <1>b, <2>1, <3>1
  <2>7. loads' \in Nat
    BY <2>3 DEF FedTypes
  <2>8. AllKnown'
    <3>1. ASSUME NEW u \in wire \cup pending PROVE Known(u)'
      BY <1>b, <2>1, <2>5, <2>7 DEF Known
    <3>2. ASSUME NEW c \in FedClients, fedClient[c].phase # "idle"
          PROVE  Known(fedClient[c])'
      <4>1. fedClient[c].loads \in Nat /\ fedClient[c].loads < loads' /\ fedClient' = fedClient
        BY <1>b, <2>1, <2>6, <3>2
      <4> QED
        BY <2>7, <4>1 DEF Known
    <3> QED
      BY <2>1, <2>4, <3>1, <3>2 DEF AllKnown
  <2>9. PendingIsCurrent'
    BY <1>b, <2>4, <2>5, <2>7 DEF PendingIsCurrent
  <2>10. ReadyWhenEnough'
    BY <1>a, <2>2, FS_EmptySet, FedAssumption DEF ReadyWhenEnough
  <2> QED
    BY <1>a, <2>1, <2>3, <2>4, <2>8, <2>9, <2>10 DEF FedInv, OnePerClient, AveragedIsSound
<1>10. CASE UNCHANGED fedVars
  BY <1>10, <1>a, <1>c DEF fedVars, FedTypes, AllKnown
<1> QED
  BY <1>1, <1>2, <1>3, <1>4, <1>5, <1>6, <1>7, <1>8, <1>9, <1>10 DEF FedNext

LEMMA FedInvIsSound == FedInv => RoundsAreSound
  BY DEF FedInv, RoundsAreSound, OnePerClient, ReadyWhenEnough, AveragedIsSound

(* There were as many rounds as models at most: a checkpoint brings back   *)
(* one there has been.                                                     *)
FedBounds ==
  /\ waiting \in BOOLEAN
  /\ models \in 0..MaxRounds /\ round \in 0..models /\ model \in 0..models
  /\ \A s \in saved : s.round \in 0..models /\ s.model \in 0..models

LEMMA FedBounded == FedSpec => []FedBounds
<1>1. FedInit => FedBounds
  <2> SUFFICES ASSUME FedInit PROVE FedBounds
    OBVIOUS
  <2>1. models = 0 /\ round = 0 /\ model = 0 /\ saved = {}
    BY DEF FedInit
  <2>2. waiting \in BOOLEAN
    BY DEF FedInit
  <2>3. 0 \in 0..MaxRounds /\ 0 \in 0..0
    BY FedAssumption
  <2> QED
    BY <2>1, <2>2, <2>3 DEF FedBounds
<1>2. FedBounds /\ [FedNext]_fedVars => FedBounds'
  <2> SUFFICES ASSUME FedBounds, [FedNext]_fedVars
               PROVE  FedBounds'
    OBVIOUS
  <2>1. CASE UNCHANGED <<round, model, models, saved>> /\ waiting' \in BOOLEAN
    BY <2>1 DEF FedBounds
  <2>2. CASE Aggregate
    <3>1. UNCHANGED saved /\ waiting' = FALSE /\ models < MaxRounds
      BY <2>2 DEF Aggregate
    <3>2. CASE UNCHANGED <<round, model, models>>
      BY <3>1, <3>2 DEF FedBounds
    <3>3. CASE round' = round + 1 /\ models' = models + 1 /\ model' = models'
      <4>1. /\ models' \in 0..MaxRounds /\ round' \in 0..models' /\ model' \in 0..models'
            /\ \A n \in 0..models : n \in 0..models'
        BY <3>1, <3>3, FedAssumption DEF FedBounds
      <4> QED
        BY <3>1, <4>1 DEF FedBounds
    <3> QED
      BY <2>2, <3>2, <3>3 DEF Aggregate
  <2>3. CASE SaveCheckpoint
    <3>1. /\ saved' = {[round |-> round, model |-> model]}
          /\ UNCHANGED <<round, model, models, waiting>>
      BY <2>3 DEF SaveCheckpoint
    <3> QED
      BY <3>1 DEF FedBounds
  <2>4. ASSUME NEW restart \in BOOLEAN, LoadCheckpoint(restart)
        PROVE  FedBounds'
    BY <2>4 DEF LoadCheckpoint, FedBounds
  <2>5. ASSUME NEW c \in FedClients, FetchModel(c) \/ PostEnds(c)
        PROVE  FedBounds'
    BY <2>1, <2>5 DEF FetchModel, PostEnds, server, FedBounds
  <2>6. ASSUME NEW c \in FedClients, NEW n \in Datasets, TrainAndPost(c, n)
        PROVE  FedBounds'
    BY <2>1, <2>6 DEF TrainAndPost, server, FedBounds
  <2>7. ASSUME NEW u \in wire, UpdateLost(u) \/ ReceiveUpdate(u)
        PROVE  FedBounds'
    BY <2>1, <2>7 DEF UpdateLost, ReceiveUpdate, server, FedBounds
  <2>8. CASE BeginAggregate \/ AggregateTimesOut
    BY <2>1, <2>8 DEF BeginAggregate, AggregateTimesOut
  <2>9. CASE UNCHANGED fedVars
    BY <2>1, <2>9 DEF fedVars, FedBounds
  <2> QED
    BY <2>2, <2>3, <2>4, <2>5, <2>6, <2>7, <2>8, <2>9 DEF FedNext
<1> QED
  BY <1>1, <1>2, PTL DEF FedSpec

LEMMA FedTyped == FedInv /\ FedBounds => FedTypeOK
<1> SUFFICES ASSUME FedInv, FedBounds PROVE FedTypeOK
  OBVIOUS
<1>1. round \in 0..MaxRounds
  BY FedAssumption DEF FedBounds
<1>2. ready \in BOOLEAN /\ \A c \in FedClients : fedClient[c].phase \in {"idle", "loaded", "posted"}
  BY DEF FedInv, FedTypes, ClientType
<1> QED
  BY <1>1, <1>2 DEF FedTypeOK, FedBounds

(* However late, lost or overtaken updates are, a round averages one       *)
(* update of each of enough clients, trained from the model it is added to *)
(* (receive_update, aggregate_round of fed_learning.py).                   *)
THEOREM RoundsAverageTheirOwn == FedSpec => []FederationSound
<1>1. RoundsAreSound /\ FedTypeOK => FederationSound
  BY DEF FederationSound
<1> QED
  BY <1>1, FedInvIsSound, FedTyped, FedBounded, FedInitial, FedInductive, PTL DEF FedSpec

-----------------------------------------------------------------------------
(* DecisionEngine.  A chain is worth more the more is known of it.         *)
BrainChains ==
  {ch \in [src : {Src(f) : f \in FlowIds}, last : Int, stages : SUBSET (0..8),
           targets : SUBSET {Dst(f) : f \in FlowIds}, events : Seq(Int)] :
     IsFiniteSet(ch.targets)}

LEMMA LeastOfTwo ==
  ASSUME NEW a \in Int, NEW b \in Int
  PROVE  Min({a, b}) = (IF a <= b THEN a ELSE b)
BY DEF Min

LEMMA GreatestStage ==
  ASSUME NEW S \in SUBSET (0..8), S # {}
  PROVE  Max(S) \in S /\ \A x \in S : Max(S) >= x
<1> DEFINE T == {v \in Nat : \E x \in S : v = 8 - x}
<1>1. PICK y \in T : \A z \in T : y <= z
  <2>1. PICK x \in S : TRUE
    OBVIOUS
  <2>2. 8 - x \in T
    BY <2>1
  <2>3. T \in SUBSET Nat /\ T # {}
    BY <2>2
  <2> QED
    BY <2>3, LeastNatural
<1>2. PICK m \in S : y = 8 - m
  BY <1>1
<1>3. ASSUME NEW x \in S PROVE m >= x
  <2>1. 8 - x \in T
    OBVIOUS
  <2>2. y <= 8 - x
    BY <1>1, <2>1
  <2> QED
    BY <1>2, <2>2
<1> QED
  BY <1>2, <1>3 DEF Max

LEMMA StagesFinite ==
  ASSUME NEW S \in SUBSET (0..8)
  PROVE  IsFiniteSet(S) /\ Cardinality(S) \in Nat
<1>0. 0 \in Int /\ 8 \in Int
  OBVIOUS
<1>1. IsFiniteSet(0..8)
  BY <1>0, FS_Interval
<1> QED
  BY <1>1, FS_Subset, FS_CardinalityType

LEMMA StageScores ==
  ASSUME NEW a \in 0..8, NEW b \in 0..8, a <= b
  PROVE  /\ StageScore[a + 1] \in Nat /\ StageScore[b + 1] \in Nat
         /\ 5 <= StageScore[a + 1] /\ StageScore[a + 1] <= StageScore[b + 1]
<1>1. /\ a \in {0, 1, 2, 3, 4, 5, 6, 7, 8} /\ b \in {0, 1, 2, 3, 4, 5, 6, 7, 8}
  OBVIOUS
<1> QED
  BY <1>1 DEF StageScore

LEMMA ScoreGrows ==
  ASSUME NEW c \in BrainChains, NEW d \in BrainChains,
         c.stages \subseteq d.stages, c.targets \subseteq d.targets
  PROVE  ChainScore(c) \in Int /\ ChainScore(d) \in Int /\ ChainScore(c) <= ChainScore(d)
<1> DEFINE sum(x) == StageScore[Max(x.stages) + 1]
                      + Min({30, Cardinality(x.stages) * 7})
                      + Min({15, (Cardinality(x.targets) - 1) * 3})
<1>1. /\ c.stages \in SUBSET (0..8) /\ d.stages \in SUBSET (0..8)
      /\ IsFiniteSet(c.targets) /\ IsFiniteSet(d.targets)
  BY DEF BrainChains
<1>2. PICK p \in Nat, q \in Nat : /\ p = Cardinality(c.stages) /\ q = Cardinality(d.stages)
                                  /\ p <= q
  BY <1>1, StagesFinite, FS_Subset
<1>3. PICK v \in Nat, w \in Nat : /\ v = Cardinality(c.targets) /\ w = Cardinality(d.targets)
                                  /\ v <= w
  BY <1>1, FS_CardinalityType, FS_Subset
<1>4. /\ Min({30, p * 7}) = (IF 30 <= p * 7 THEN 30 ELSE p * 7)
      /\ Min({30, q * 7}) = (IF 30 <= q * 7 THEN 30 ELSE q * 7)
      /\ Min({15, (v - 1) * 3}) = (IF 15 <= (v - 1) * 3 THEN 15 ELSE (v - 1) * 3)
      /\ Min({15, (w - 1) * 3}) = (IF 15 <= (w - 1) * 3 THEN 15 ELSE (w - 1) * 3)
  <2>1. /\ 30 \in Int /\ 15 \in Int /\ p * 7 \in Int /\ q * 7 \in Int
        /\ (v - 1) * 3 \in Int /\ (w - 1) * 3 \in Int
    OBVIOUS
  <2> QED
    BY <2>1, LeastOfTwo
<1>5. CASE d.stages = {}
  BY <1>5 DEF ChainScore
<1>6. CASE d.stages # {}
  <2>1. PICK b \in 0..8 : b = Max(d.stages) /\ \A x \in d.stages : b >= x
    BY <1>1, <1>6, GreatestStage
  <2>2. PICK t \in Nat : t = StageScore[b + 1] /\ 5 <= t
    BY <2>1, StageScores
  <2>3. /\ sum(d) \in Int /\ sum(d) >= 2
    BY <1>2, <1>3, <1>4, <2>1, <2>2
  <2>4. ChainScore(d) = (IF 100 <= sum(d) THEN 100 ELSE sum(d))
    <3>1. PICK r \in Int : r = sum(d)
      BY <2>3
    <3>2. Min({100, r}) = (IF 100 <= r THEN 100 ELSE r)
      BY LeastOfTwo
    <3>3. ChainScore(d) = Min({100, r})
      BY <1>6, <3>1 DEF ChainScore
    <3> QED
      BY <3>1, <3>2, <3>3
  <2>5. CASE c.stages = {}
    BY <2>3, <2>4, <2>5 DEF ChainScore
  <2>6. CASE c.stages # {}
    <3>1. PICK a \in 0..8 : a = Max(c.stages) /\ a \in c.stages
      BY <1>1, <2>6, GreatestStage
    <3>2. PICK s \in Nat : s = StageScore[a + 1] /\ s <= t
      BY <2>1, <2>2, <3>1, StageScores
    <3>3. sum(c) \in Int /\ sum(c) <= sum(d)
      BY <1>2, <1>3, <1>4, <2>1, <2>2, <3>1, <3>2
    <3>4. ChainScore(c) = (IF 100 <= sum(c) THEN 100 ELSE sum(c))
      <4>1. PICK r \in Int : r = sum(c)
        BY <3>3
      <4>2. Min({100, r}) = (IF 100 <= r THEN 100 ELSE r)
        BY LeastOfTwo
      <4>3. ChainScore(c) = Min({100, r})
        BY <2>6, <4>1 DEF ChainScore
      <4> QED
        BY <4>1, <4>2, <4>3
    <3> QED
      BY <2>3, <2>4, <3>3, <3>4
  <2> QED
    BY <2>5, <2>6
<1> QED
  BY <1>5, <1>6

(* Chains chs, one of a source, explain the hot sources h.                 *)
Explain(chs, h) ==
  /\ chs \in Seq(BrainChains)
  /\ \A j, k \in 1..Len(chs) : chs[j].src = chs[k].src => j = k
  /\ \A s \in h : \E k \in 1..Len(chs) : chs[k].src = s /\ ChainScore(chs[k]) >= 55

(* Forgetting events of chains takes nothing from their scores.            *)
LEMMA StillExplain ==
  ASSUME NEW chs, NEW h, Explain(chs, h), NEW u \in Seq(BrainChains), Len(u) = Len(chs),
         \A k \in 1..Len(chs) : /\ u[k].src = chs[k].src /\ u[k].stages = chs[k].stages
                                /\ u[k].targets = chs[k].targets
  PROVE  Explain(u, h)
<1>1. \A k \in 1..Len(chs) : ChainScore(u[k]) = ChainScore(chs[k])
  BY DEF ChainScore
<1> QED
  BY <1>1 DEF Explain

(* Eviction of chains, and of their sources from the hot ones.             *)
Survive(chs, K, gone) ==
  K \subseteq 1..Len(chs) /\ \A k \in 1..Len(chs) : k \in K <=> chs[k].src \notin gone

Remaining(u, chs, gone) ==
  /\ \A k \in 1..Len(u) : \E j \in 1..Len(chs) : u[k] = chs[j]
  /\ \A j \in 1..Len(chs) : chs[j].src \notin gone => \E k \in 1..Len(u) : u[k] = chs[j]

LEMMA KeptExplain ==
  ASSUME NEW chs, NEW h, NEW gone, Explain(chs, h),
         NEW K, Survive(chs, K, gone), NEW u, u = AtPositions(chs, K)
  PROVE  Explain(u, h \ gone) /\ Remaining(u, chs, gone)
<1>1. chs \in Seq(BrainChains)
  BY DEF Explain
<1>2. PICK l \in Nat : Len(chs) = l /\ DOMAIN chs = 1..l
  BY <1>1, LenProperties
<1>5. /\ u \in Seq(BrainChains)
      /\ \E p \in [1..Len(u) -> K] :
           /\ \A n \in 1..Len(u) : u[n] = chs[p[n]]
           /\ \A m, n \in 1..Len(u) : m < n => p[m] < p[n]
           /\ \A i \in K : \E n \in 1..Len(u) : p[n] = i
  <2>1. K \in SUBSET (1..Len(chs))
    BY DEF Survive
  <2> QED
    BY <1>1, <2>1, PlacesKept
<1>6. PICK N \in Nat : Len(u) = N
  BY <1>5, LenProperties
<1>12. PICK p \in [1..N -> K] :
        /\ \A n \in 1..N : u[n] = chs[p[n]]
        /\ \A m, n \in 1..N : m < n => p[m] < p[n]
        /\ \A i \in K : \E n \in 1..N : p[n] = i
  BY <1>5, <1>6
<1>7. \A k \in 1..N : p[k] \in 1..l /\ u[k] = chs[p[k]] /\ chs[p[k]].src \notin gone
  BY <1>2, <1>12 DEF Survive
<1>8. \A j \in 1..l : chs[j].src \notin gone => \E k \in 1..N : p[k] = j /\ u[k] = chs[j]
  BY <1>2, <1>12 DEF Survive
<1>9. ASSUME NEW j \in 1..N, NEW k \in 1..N, u[j].src = u[k].src
      PROVE  j = k
  <2>1. p[j] = p[k]
    BY <1>2, <1>7, <1>9 DEF Explain
  <2>2. ~(j < k) /\ ~(k < j)
    BY <1>12, <1>7, <2>1
  <2> QED
    BY <1>6, <2>2
<1>10. ASSUME NEW s \in h \ gone
       PROVE  \E k \in 1..N : u[k].src = s /\ ChainScore(u[k]) >= 55
  <2>1. PICK j \in 1..l : chs[j].src = s /\ ChainScore(chs[j]) >= 55
    BY <1>2, <1>10 DEF Explain
  <2> QED
    BY <1>8, <1>10, <2>1
<1>11. Explain(u, h \ gone)
  BY <1>5, <1>6, <1>9, <1>10 DEF Explain
<1> QED
  BY <1>2, <1>6, <1>7, <1>8, <1>11 DEF Remaining

(* The chain of a new source.                                              *)
LEMMA NewChainExplains ==
  ASSUME NEW chs, NEW h, Explain(chs, h), NEW ch \in BrainChains,
         \A k \in 1..Len(chs) : chs[k].src # ch.src
  PROVE  /\ Explain(Append(chs, ch), h)
         /\ Len(Append(chs, ch)) = Len(chs) + 1 /\ Append(chs, ch)[Len(chs) + 1] = ch
<1>1. chs \in Seq(BrainChains)
  BY DEF Explain
<1>2. PICK u : u = Append(chs, ch)
  OBVIOUS
<1>3. PICK l \in Nat : Len(chs) = l
  BY <1>1, LenProperties
<1>4. /\ u \in Seq(BrainChains) /\ Len(u) = l + 1
      /\ \A i \in 1..l : u[i] = chs[i]
      /\ u[l + 1] = ch
  BY <1>1, <1>2, <1>3, AppendProperties
<1>5. \A i \in 1..(l + 1) : i \in 1..l \/ i = l + 1
  OBVIOUS
<1>6. \A i \in 1..l : i \in 1..(l + 1)
  OBVIOUS
<1>7. \A j, k \in 1..(l + 1) : u[j].src = u[k].src => j = k
  BY <1>3, <1>4, <1>5 DEF Explain
<1>8. Explain(u, h)
  BY <1>3, <1>4, <1>6, <1>7 DEF Explain
<1> QED
  BY <1>2, <1>3, <1>4, <1>8

(* A chain that has grown, and its source hot when the chain says so.      *)
LEMMA GrownChainExplains ==
  ASSUME NEW chs, NEW h, Explain(chs, h), NEW i \in 1..Len(chs), NEW ch \in BrainChains,
         ch.src = chs[i].src, chs[i].stages \subseteq ch.stages,
         chs[i].targets \subseteq ch.targets
  PROVE  Explain([chs EXCEPT ![i] = ch],
                 h \cup (IF ChainScore(ch) >= 55 THEN {ch.src} ELSE {}))
<1>1. chs \in Seq(BrainChains)
  BY DEF Explain
<1>2. PICK l \in Nat : Len(chs) = l /\ DOMAIN chs = 1..l
  BY <1>1, LenProperties
<1>3. PICK u : u = [chs EXCEPT ![i] = ch]
  OBVIOUS
<1>4. /\ u \in Seq(BrainChains) /\ Len(u) = l
      /\ \A k \in 1..l : u[k] = IF k = i THEN ch ELSE chs[k]
  BY <1>1, <1>2, <1>3, ExceptSeq
<1>5. chs[i] \in BrainChains
  BY <1>1, ElementOfSeq
<1>6. /\ ChainScore(ch) \in Int /\ ChainScore(chs[i]) \in Int
      /\ ChainScore(chs[i]) <= ChainScore(ch)
  BY <1>5, ScoreGrows
<1>7. \A k \in 1..l : u[k].src = chs[k].src
  BY <1>4
<1>8. \A j, k \in 1..l : u[j].src = u[k].src => j = k
  BY <1>2, <1>7 DEF Explain
<1>9. ASSUME NEW s \in h
      PROVE  \E k \in 1..l : u[k].src = s /\ ChainScore(u[k]) >= 55
  <2>1. PICK k \in 1..l : chs[k].src = s /\ ChainScore(chs[k]) >= 55
    BY <1>2 DEF Explain
  <2>2. CASE k = i
    <3>1. ChainScore(u[k]) >= 55
      BY <1>4, <1>6, <2>1, <2>2
    <3> QED
      BY <1>7, <2>1, <3>1
  <2>3. CASE k # i
    BY <1>4, <2>1, <2>3
  <2> QED
    BY <2>2, <2>3
<1>10. ASSUME ChainScore(ch) >= 55
       PROVE  \E k \in 1..l : u[k].src = ch.src /\ ChainScore(u[k]) >= 55
  BY <1>2, <1>4, <1>10
<1>11. \A s \in h \cup (IF ChainScore(ch) >= 55 THEN {ch.src} ELSE {}) :
         \E k \in 1..l : u[k].src = s /\ ChainScore(u[k]) >= 55
  BY <1>9, <1>10
<1> QED
  BY <1>3, <1>4, <1>8, <1>11 DEF Explain

LEMMA StageInChain ==
  ASSUME NEW sort
  PROVE  Stage(sort) \subseteq 0..8
BY DEF Stage

LEMMA RecordExplains ==
  ASSUME Explain(chains, hot), hot \subseteq {Src(f) : f \in FlowIds}, now \in Int,
         NEW g \in FlowIds, NEW level, NEW sort, Record(g, level, sort)
  PROVE  Explain(chains', hot') /\ hot' \subseteq {Src(f) : f \in FlowIds}
<1> DEFINE s == Src(g)
           gone == IF ChainsOf(s) = {} /\ Len(chains) >= MaxChains THEN Evicted ELSE {}
           kept == AtPositions(chains, {k \in DOMAIN chains : chains[k].src \notin gone})
           new == [src |-> s, last |-> now, stages |-> {}, targets |-> {}, events |-> <<>>]
           known == IF ChainsOf(s) # {} THEN kept ELSE Append(kept, new)
           i == CHOOSE k \in DOMAIN known : known[k].src = s
           ch == [src |-> s, last |-> now, stages |-> known[i].stages \cup Stage(sort),
                  targets |-> known[i].targets \cup {Dst(g)},
                  events |-> Append(known[i].events, now)]
<1>1. CASE level < 1
  BY <1>1 DEF Record
<1>2. CASE ~(level < 1)
  <2>1. /\ chains' = [known EXCEPT ![i] = ch]
        /\ hot' = (hot \ gone) \cup (IF ChainScore(ch) >= 55 THEN {s} ELSE {})
    BY <1>2 DEF Record
  <2>2. PICK K : K = kept
    OBVIOUS
  <2>3. /\ Explain(K, hot \ gone)
        /\ \A k \in 1..Len(K) : \E j \in 1..Len(chains) : K[k] = chains[j]
        /\ \A j \in 1..Len(chains) : chains[j].src \notin gone =>
             \E k \in 1..Len(K) : K[k] = chains[j]
    <3>1. PICK G, C, H : G = gone /\ C = chains /\ H = hot
      OBVIOUS
    <3>4. PICK P : P = {k \in DOMAIN C : C[k].src \notin G}
      OBVIOUS
    <3>2. Explain(C, H) /\ K = AtPositions(C, P)
      BY <2>2, <3>1, <3>4
    <3>3. Explain(K, H \ G) /\ Remaining(K, C, G)
      <4>1. Survive(C, P, G)
        BY <3>2, <3>4, LenProperties DEF Explain, Survive
      <4> QED
        BY <3>2, <4>1, KeptExplain
    <3>5. /\ \A k \in 1..Len(K) : \E j \in 1..Len(C) : K[k] = C[j]
          /\ \A j \in 1..Len(C) : C[j].src \notin G => \E k \in 1..Len(K) : K[k] = C[j]
      BY <3>3 DEF Remaining
    <3> HIDE DEF gone, kept
    <3> QED
      BY <3>1, <3>3, <3>5
  <2>4. new \in BrainChains
    <3>1. IsFiniteSet({})
      BY FS_EmptySet
    <3>6. now \in Int /\ <<>> \in Seq(Int)
      OBVIOUS
    <3> HIDE DEF gone, kept, known, i, ch
    <3> QED
      BY <3>1, <3>6 DEF BrainChains
  <2>5. PICK A : A = known
    OBVIOUS
  <2>6. /\ Explain(A, hot \ gone)
        /\ \E k \in 1..Len(A) : A[k].src = s
    <3>1. CASE ChainsOf(s) # {}
      <4>1. A = K /\ gone = {}
        BY <2>2, <2>5, <3>1
      <4>2. PICK j \in 1..Len(chains) : chains[j].src = s
        BY <3>1 DEF ChainsOf
      <4> QED
        BY <2>3, <4>1, <4>2
    <3>2. CASE ChainsOf(s) = {}
      <4>1. A = Append(K, new)
        BY <2>2, <2>5, <3>2
      <4>2. \A k \in 1..Len(K) : K[k].src # new.src
        BY <2>3, <3>2 DEF ChainsOf
      <4>3. /\ Explain(Append(K, new), hot \ gone)
            /\ Len(Append(K, new)) = Len(K) + 1 /\ Append(K, new)[Len(K) + 1] = new
        <5> HIDE DEF gone, new
        <5> QED
          BY <2>3, <2>4, <4>2, NewChainExplains
      <4>4. PICK m \in Nat : m = Len(K)
        BY <2>3, LenProperties DEF Explain
      <4>5. m + 1 \in 1..(m + 1)
        OBVIOUS
      <4> QED
        BY <4>1, <4>3, <4>4, <4>5
    <3> QED
      BY <3>1, <3>2
  <2>7. PICK j : j = i
    OBVIOUS
  <2>8. A \in Seq(BrainChains) /\ DOMAIN A = 1..Len(A)
    BY <2>6, LenProperties DEF Explain
  <2>9. j \in 1..Len(A) /\ A[j].src = s
    <3>1. j = CHOOSE k \in DOMAIN A : A[k].src = s
      BY <2>5, <2>7
    <3> QED
      BY <2>6, <2>8, <3>1
  <2>10. A[j] \in BrainChains
    BY <2>8, <2>9, ElementOfSeq
  <2>11. PICK c : c = [src |-> s, last |-> now, stages |-> A[j].stages \cup Stage(sort),
                       targets |-> A[j].targets \cup {Dst(g)}, events |-> Append(A[j].events, now)]
    OBVIOUS
  <2>12. c \in BrainChains
    <3>1. IsFiniteSet(A[j].targets \cup {Dst(g)})
      BY <2>10, FS_AddElement DEF BrainChains
    <3>2. Append(A[j].events, now) \in Seq(Int)
      BY <2>10, AppendProperties DEF BrainChains
    <3>3. A[j].stages \cup Stage(sort) \in SUBSET (0..8)
      BY <2>10, StageInChain DEF BrainChains
    <3>4. A[j].targets \cup {Dst(g)} \in SUBSET {Dst(f) : f \in FlowIds}
      BY <2>10 DEF BrainChains
    <3> QED
      BY <2>11, <3>1, <3>2, <3>3, <3>4 DEF BrainChains
  <2>13. Explain([A EXCEPT ![j] = c],
                 (hot \ gone) \cup (IF ChainScore(c) >= 55 THEN {c.src} ELSE {}))
    <3>1. /\ c.src = A[j].src /\ A[j].stages \subseteq c.stages
          /\ A[j].targets \subseteq c.targets
      BY <2>9, <2>11
    <3> HIDE DEF gone
    <3> QED
      BY <2>6, <2>9, <2>12, <3>1, GrownChainExplains
  <2>14. /\ chains' = [A EXCEPT ![j] = c] /\ c.src = s
         /\ hot' = (hot \ gone) \cup (IF ChainScore(c) >= 55 THEN {c.src} ELSE {})
    BY <2>1, <2>5, <2>7, <2>11
  <2> QED
    BY <2>13, <2>14
<1> QED
  BY <1>1, <1>2

(* What the scores of decide() and its verdicts may be.                    *)
LEMMA LogOddsClipped ==
  ASSUME NEW p
  PROVE  LogOdds(p) \in Impossible..Certain
BY DEF LogOdds, Impossible, Certain

LEMMA CorrelationClipped ==
  ASSUME NEW s
  PROVE  CorrelationRisk(s) \in Impossible..Certain
<1>1. Impossible \in Impossible..Certain
  BY DEF Impossible, Certain
<1> QED
  BY <1>1, LogOddsClipped DEF CorrelationRisk

LEMMA LevelsOfRisk ==
  ASSUME NEW fused \in Int
  PROVE  Level(fused) \in 0..4 /\ (Level(fused) > 0 => fused >= -138)
<1> DEFINE T == {t \in {220, 95, -20, -138} : fused >= t}
<1>1. /\ IsFiniteSet({220}) /\ Cardinality({220}) = 1
  BY FS_Singleton
<1>2. /\ IsFiniteSet({220, 95}) /\ Cardinality({220, 95}) = 2
  <2>1. {220, 95} = {220} \cup {95} /\ 95 \notin {220}
    OBVIOUS
  <2> QED
    BY <1>1, <2>1, FS_AddElement
<1>3. /\ IsFiniteSet({220, 95, -20}) /\ Cardinality({220, 95, -20}) = 3
  <2>1. {220, 95, -20} = {220, 95} \cup {-20} /\ -20 \notin {220, 95}
    OBVIOUS
  <2> QED
    BY <1>2, <2>1, FS_AddElement
<1>4. /\ IsFiniteSet({220, 95, -20, -138}) /\ Cardinality({220, 95, -20, -138}) = 4
  <2>1. {220, 95, -20, -138} = {220, 95, -20} \cup {-138} /\ -138 \notin {220, 95, -20}
    OBVIOUS
  <2> QED
    BY <1>3, <2>1, FS_AddElement
<1>5. IsFiniteSet(T) /\ Cardinality(T) \in Nat /\ Cardinality(T) <= 4
  <2>1. T \in SUBSET {220, 95, -20, -138}
    OBVIOUS
  <2>2. IsFiniteSet(T) /\ Cardinality(T) <= Cardinality({220, 95, -20, -138})
    <3> HIDE DEF T
    <3> QED
      BY <1>4, <2>1, FS_Subset
  <2> QED
    BY <1>4, <2>2, FS_CardinalityType
<1>6. ASSUME fused < -138
      PROVE  Cardinality(T) = 0
  <2>1. T = {}
    BY <1>6
  <2> QED
    BY <2>1, FS_EmptySet
<1> QED
  BY <1>5, <1>6 DEF Level

LEMMA SilenceWeighsMost ==
  ASSUME NEW a \in Int, NEW b \in Int, NEW c \in Int, NEW d \in Int, NEW r,
         r = <<a, b, c, d>>, Level(FinalRisk(r)) > 0, Impossible \in ToSet(r)
  PROVE  \E x \in ToSet(r) : x > 41
<1>1. FinalRisk(r) = a * 15 + b * 12 + c * 10 + d * 8
  BY DEF FinalRisk
<1>2. a * 15 + b * 12 + c * 10 + d * 8 >= -138
  BY <1>1, LevelsOfRisk
<1>3. ToSet(r) = {a, b, c, d}
  <2>1. DOMAIN r = 1..4
    OBVIOUS
  <2>2. ToSet(r) = {r[i] : i \in 1..4}
    BY <2>1 DEF ToSet
  <2>3. 1..4 = {1, 2, 3, 4}
    OBVIOUS
  <2>4. {r[i] : i \in 1..4} = {r[1], r[2], r[3], r[4]}
    BY <2>3
  <2>5. r[1] = a /\ r[2] = b /\ r[3] = c /\ r[4] = d
    OBVIOUS
  <2> QED
    BY <2>2, <2>4, <2>5
<1>4. a = -207 \/ b = -207 \/ c = -207 \/ d = -207
  BY <1>3 DEF Impossible
<1>5. a > 41 \/ b > 41 \/ c > 41 \/ d > 41
  BY <1>2, <1>4
<1> QED
  BY <1>3, <1>5

-----------------------------------------------------------------------------
(* Calls of decide() and cached verdicts.                                  *)
BrainCalls ==
  [phase : {"none", "cached", "gather", "scored", "explain", "decided"},
   flow : FlowIds \cup {"none"}, explain : BOOLEAN,
   risks : {<<>>} \cup (Int \X Int \X Int \X Int), level : 0..4,
   kind : {"none", "zero-day", "anomaly"} \cup {Pattern(f) : f \in FlowIds}, age : Int]

Ttl(level) == IF level >= 3 THEN TtlThreat ELSE TtlClean

CallsInv ==
  /\ call \in [Calls -> BrainCalls]
  /\ \A c \in Calls :
       /\ call[c].phase \in {"gather", "scored", "explain"} => call[c].flow \in FlowIds
       /\ call[c].phase = "scored" => call[c].risks \in Int \X Int \X Int \X Int
       /\ call[c].phase = "cached" => call[c].age <= Ttl(call[c].level)

(* A cached verdict is of one flow and lives as long as its level says.    *)
Kept(entries) ==
  /\ entries \subseteq [flow : FlowIds, level : 0..4, put : Int, expires : Int]
  /\ \A e \in entries : e.expires = e.put + Ttl(e.level)
  /\ \A d, e \in entries : d.flow = e.flow => d = e

BrainInv ==
  /\ now \in 0..HorizonOf
  /\ window \in 0..WindowSize
  /\ CallsInv
  /\ Kept(cache)
  /\ hot \subseteq {Src(f) : f \in FlowIds}
  /\ Explain(chains, hot)

LEMMA TypedBrainCall ==
  ASSUME CallsInv, NEW c \in Calls, NEW v \in BrainCalls,
         v.phase \in {"gather", "scored", "explain"} => v.flow \in FlowIds,
         v.phase = "scored" => v.risks \in Int \X Int \X Int \X Int,
         v.phase = "cached" => v.age <= Ttl(v.level),
         call' = [call EXCEPT ![c] = v]
  PROVE  CallsInv'
BY DEF CallsInv, Ttl

LEMMA CachePutKeeps ==
  ASSUME Kept(cache), now \in Int, NEW f \in FlowIds, NEW level \in 0..4, CachePut(f, level)
  PROVE  Kept(cache')
<1> DEFINE e == [flow |-> f, level |-> level, put |-> now,
                 expires |-> now + (IF level >= 3 THEN TtlThreat ELSE TtlClean)]
<1>1. cache' = (cache \ Entries(f)) \cup {e}
  BY DEF CachePut
<1>2. e \in [flow : FlowIds, level : 0..4, put : Int, expires : Int]
  BY BrainAssumption
<1>3. e.flow = f /\ e.expires = e.put + Ttl(e.level)
  BY DEF Ttl
<1>4. \A d \in cache \ Entries(f) : d \in cache /\ d.flow # f
  BY DEF Entries
<1> HIDE DEF e
<1> QED
  BY <1>1, <1>2, <1>3, <1>4 DEF Kept

LEMMA ThreatTypes ==
  ASSUME NEW f \in FlowIds, NEW r
  PROVE  ThreatType(f, r) \in {"none", "zero-day", "anomaly"} \cup {Pattern(g) : g \in FlowIds}
BY DEF ThreatType

LEMMA NewBrainCall == NoCall \in BrainCalls /\ NoCall.phase = "none"
BY DEF NoCall, BrainCalls

LEMMA BrainStarts == BrainInit => BrainInv
<1> SUFFICES ASSUME BrainInit PROVE BrainInv
  OBVIOUS
<1>1. CallsInv
  BY NewBrainCall DEF BrainInit, CallsInv
<1>2. Kept(cache)
  BY DEF BrainInit, Kept
<1>3. Explain(chains, hot)
  <2>1. <<>> \in Seq(BrainChains) /\ Len(<<>>) = 0
    OBVIOUS
  <2> QED
    BY <2>1 DEF BrainInit, Explain
<1> QED
  BY <1>1, <1>2, <1>3, BrainAssumption DEF BrainInit, BrainInv

LEMMA DecideKeeps ==
  ASSUME BrainInv, NEW c \in Calls, NEW f \in FlowIds, NEW explain \in BOOLEAN,
         Decide(c, f, explain)
  PROVE  BrainInv'
<1> DEFINE hits == {e \in Entries(f) : ~CacheExpired(e)}
           hit == CHOOSE x \in hits : TRUE
           v == IF hits = {}
                THEN [NoCall EXCEPT !.phase = "gather", !.flow = f, !.explain = explain]
                ELSE [NoCall EXCEPT !.phase = "cached", !.flow = hit.flow,
                                    !.level = hit.level, !.age = now - hit.put]
<1>1. /\ cache' = cache \ {e \in Entries(f) : CacheExpired(e)}
      /\ call' = [call EXCEPT ![c] = v]
      /\ UNCHANGED <<now, profiles, updates, chains, hot, seen, window, forest>>
  BY DEF Decide
<1>2. Kept(cache')
  BY <1>1 DEF BrainInv, Kept
<1>3. CASE hits = {}
  <2>1. v = [NoCall EXCEPT !.phase = "gather", !.flow = f, !.explain = explain]
    BY <1>3
  <2>2. v \in BrainCalls /\ v.phase = "gather" /\ v.flow = f
    BY <2>1, NewBrainCall DEF BrainCalls
  <2>3. PICK w : w = v
    OBVIOUS
  <2>4. CallsInv'
    <3>1. w \in BrainCalls /\ w.phase = "gather" /\ w.flow = f /\ call' = [call EXCEPT ![c] = w]
      BY <1>1, <2>2, <2>3
    <3> QED
      BY <3>1, TypedBrainCall DEF BrainInv
  <2> QED
    BY <1>1, <1>2, <2>4 DEF BrainInv
<1>4. CASE hits # {}
  <2>1. PICK e : e = hit
    OBVIOUS
  <2>2. e \in cache /\ ~(now > e.expires)
    BY <1>4, <2>1 DEF Entries, CacheExpired
  <2>3. v = [NoCall EXCEPT !.phase = "cached", !.flow = e.flow,
                           !.level = e.level, !.age = now - e.put]
    BY <1>4, <2>1
  <2>4. /\ e.flow \in FlowIds /\ e.level \in 0..4 /\ e.put \in Int /\ now \in Int
        /\ e.expires = e.put + Ttl(e.level) /\ Ttl(e.level) \in Int
    BY <2>2, BrainAssumption DEF BrainInv, Kept, Ttl
  <2>5. /\ v \in BrainCalls /\ v.phase = "cached" /\ v.level = e.level /\ v.age = now - e.put
    <3>1. PICK a \in Int, l \in 0..4, g \in FlowIds :
            a = now - e.put /\ l = e.level /\ g = e.flow
      BY <2>4
    <3>2. PICK w : w = v
      OBVIOUS
    <3>3. w = [NoCall EXCEPT !.phase = "cached", !.flow = g, !.level = l, !.age = a]
      BY <2>3, <3>1, <3>2
    <3>4. w \in BrainCalls /\ w.phase = "cached" /\ w.level = l /\ w.age = a
      BY <3>3, NewBrainCall DEF BrainCalls
    <3> QED
      BY <3>1, <3>2, <3>4
  <2>6. now - e.put <= Ttl(e.level)
    BY <2>2, <2>4
  <2>7. PICK w : w = v
    OBVIOUS
  <2>8. CallsInv'
    <3>1. /\ w \in BrainCalls /\ w.phase = "cached" /\ w.age <= Ttl(w.level)
          /\ call' = [call EXCEPT ![c] = w]
      BY <1>1, <2>5, <2>6, <2>7
    <3> QED
      BY <3>1, TypedBrainCall DEF BrainInv
  <2> QED
    BY <1>1, <1>2, <2>8 DEF BrainInv
<1> QED
  BY <1>3, <1>4

LEMMA ScoreKeeps ==
  ASSUME BrainInv, NEW c \in Calls, Score(c)
  PROVE  BrainInv'
<1> DEFINE f == call[c].flow
           s == Src(f)
<1>1. /\ call[c].phase = "gather" /\ call[c] \in BrainCalls /\ f \in FlowIds
  BY DEF Score, BrainInv, CallsInv
<1>2. PICK m \in MarlScores(f), b \in BehaviorScores(s), z \in ZeroDayScores :
        call' = [call EXCEPT ![c].phase = "scored",
                             ![c].risks = <<m, b, CorrelationRisk(s), z>>]
  BY DEF Score
<1>3. m \in Int /\ b \in Int /\ z \in Int /\ CorrelationRisk(s) \in Int
  <2>1. \A p : LogOdds(p) \in Int
    BY LogOddsClipped DEF Impossible, Certain
  <2>2. m \in Int
    BY <2>1, BrainAssumption DEF MarlScores
  <2>3. b \in Int /\ z \in Int
    BY BrainAssumption DEF BehaviorScores, ZeroDayScores, Impossible
  <2>4. CorrelationRisk(s) \in Int
    BY CorrelationClipped DEF Impossible, Certain
  <2> QED
    BY <2>2, <2>3, <2>4
<1>4. PICK v : v = [call[c] EXCEPT !.phase = "scored", !.risks = <<m, b, CorrelationRisk(s), z>>]
  OBVIOUS
<1>5. call' = [call EXCEPT ![c] = v]
  BY <1>2, <1>4
<1>6. PICK x \in Int : x = CorrelationRisk(s)
  BY <1>3
<1>7. /\ v \in BrainCalls /\ v.phase = "scored" /\ v.flow \in FlowIds
      /\ v.risks \in Int \X Int \X Int \X Int
  BY <1>1, <1>3, <1>4, <1>6 DEF BrainCalls
<1>8. CallsInv'
  BY <1>5, <1>7, TypedBrainCall DEF BrainInv
<1>9. window' \in 0..WindowSize
  <2>1. window + 1 \in Int /\ WindowSize \in Int /\ window \in Nat
    BY BrainAssumption DEF BrainInv
  <2>2. window' = Min({WindowSize, window + 1})
    BY DEF Score, TrainZeroDay
  <2>3. PICK n \in Int, w \in Int : n = window + 1 /\ w = WindowSize /\ w >= 0 /\ n >= 0
    BY <2>1, BrainAssumption
  <2>4. Min({w, n}) = (IF w <= n THEN w ELSE n)
    BY LeastOfTwo
  <2>5. Min({w, n}) \in 0..w
    BY <2>3, <2>4
  <2> QED
    BY <2>2, <2>3, <2>5
<1>10. Explain(chains', hot')
  <2> DEFINE u == [k \in DOMAIN chains |->
                    IF k \in ChainsOf(s) /\ ~HotNow(s)
                    THEN [chains[k] EXCEPT !.events = Recent(chains[k])] ELSE chains[k]]
  <2>1. chains' = u /\ hot' = hot
    BY DEF Score
  <2>2. chains \in Seq(BrainChains) /\ Explain(chains, hot)
    BY DEF BrainInv, Explain
  <2>3. PICK l \in Nat : Len(chains) = l /\ DOMAIN chains = 1..l
    BY <2>2, LenProperties
  <2>4. \A k \in 1..l : chains[k] \in BrainChains
    BY <2>2, <2>3, ElementOfSeq
  <2>5. \A k \in 1..l : Recent(chains[k]) \in Seq(Int)
    <3>1. ASSUME NEW k \in 1..l PROVE Recent(chains[k]) \in Seq(Int)
      <4>1. PICK es : es = chains[k].events /\ es \in Seq(Int)
        BY <2>4 DEF BrainChains
      <4>2. PICK P : P = {i \in DOMAIN es : es[i] >= now - ChainWindow}
        OBVIOUS
      <4>3. P \in SUBSET (1..Len(es))
        BY <4>1, <4>2, LenProperties
      <4>4. AtPositions(es, P) \in Seq(Int)
        BY <4>1, <4>3, PlacesKept
      <4> QED
        BY <4>1, <4>2, <4>4 DEF Recent
    <3> QED
      BY <3>1
  <2>6. ASSUME NEW k \in 1..l
        PROVE  /\ u[k] \in BrainChains /\ u[k].src = chains[k].src
               /\ u[k].stages = chains[k].stages /\ u[k].targets = chains[k].targets
    <3>1. PICK es : es = Recent(chains[k])
      OBVIOUS
    <3>2. u[k] = [chains[k] EXCEPT !.events = es] \/ u[k] = chains[k]
      BY <2>3, <3>1
    <3>3. es \in Seq(Int) /\ chains[k] \in BrainChains
      BY <2>4, <2>5, <3>1
    <3>4. CASE u[k] = chains[k]
      BY <3>3, <3>4
    <3>5. CASE u[k] = [chains[k] EXCEPT !.events = es]
      <4> HIDE DEF u
      <4> QED
        BY <3>3, <3>5 DEF BrainChains
    <3> QED
      BY <3>2, <3>4, <3>5
  <2>7. u \in Seq(BrainChains) /\ Len(u) = l
    <3>1. u = [k \in 1..l |-> u[k]]
      BY <2>3
    <3> HIDE DEF u
    <3> QED
      BY <2>6, <3>1
  <2> HIDE DEF u
  <2> QED
    BY <2>1, <2>2, <2>3, <2>6, <2>7, StillExplain
<1>11. UNCHANGED <<now, cache, hot>>
  BY DEF Score
<1> QED
  BY <1>8, <1>9, <1>10, <1>11 DEF BrainInv

LEMMA ConcludeKeeps ==
  ASSUME BrainInv, NEW c \in Calls, Conclude(c)
  PROVE  BrainInv'
<1>1. PICK x : x = call[c]
  OBVIOUS
<1>2. /\ x.phase = "scored" /\ x \in BrainCalls /\ x.flow \in FlowIds
      /\ x.risks \in Int \X Int \X Int \X Int
  BY <1>1 DEF Conclude, BrainInv, CallsInv
<1>3. FinalRisk(x.risks) \in Int
  <2>1. PICK r \in Int \X Int \X Int \X Int : r = x.risks
    BY <1>2
  <2>2. r[1] \in Int /\ r[2] \in Int /\ r[3] \in Int /\ r[4] \in Int
    OBVIOUS
  <2> QED
    BY <2>1, <2>2 DEF FinalRisk
<1>4. PICK level \in 0..4 : level = Level(FinalRisk(x.risks))
  BY <1>3, LevelsOfRisk
<1>5. PICK sort : sort = ThreatType(x.flow, x.risks)
  OBVIOUS
<1>6. sort \in {"none", "zero-day", "anomaly"} \cup {Pattern(f) : f \in FlowIds}
  BY <1>2, <1>5, ThreatTypes
<1>7. UNCHANGED <<now, profiles, updates, seen, window, forest>>
  BY DEF Conclude
<1>8. CASE x.explain /\ level >= 2
  <2>1. /\ call' = [call EXCEPT ![c].phase = "explain", ![c].level = level, ![c].kind = sort,
                                ![c].risks = <<>>]
        /\ UNCHANGED <<cache, chains, hot>>
    BY <1>1, <1>4, <1>5, <1>8 DEF Conclude
  <2>2. PICK v : v = [x EXCEPT !.phase = "explain", !.level = level, !.kind = sort, !.risks = <<>>]
    OBVIOUS
  <2>3. call' = [call EXCEPT ![c] = v]
    BY <1>1, <2>1, <2>2
  <2>4. v \in BrainCalls /\ v.phase = "explain" /\ v.flow \in FlowIds
    BY <1>2, <1>4, <1>6, <2>2 DEF BrainCalls
  <2>5. CallsInv'
    BY <2>3, <2>4, TypedBrainCall DEF BrainInv
  <2> QED
    BY <1>7, <2>1, <2>5 DEF BrainInv
<1>9. CASE ~(x.explain /\ level >= 2)
  <2>1. /\ call' = [call EXCEPT ![c] = [NoCall EXCEPT !.phase = "decided"]]
        /\ CachePut(x.flow, level)
        /\ Record(x.flow, level, sort)
    BY <1>1, <1>4, <1>5, <1>9 DEF Conclude
  <2>2. PICK v : v = [NoCall EXCEPT !.phase = "decided"]
    OBVIOUS
  <2>3. v \in BrainCalls /\ v.phase = "decided"
    BY <2>2, NewBrainCall DEF BrainCalls
  <2>4. CallsInv'
    BY <2>1, <2>2, <2>3, TypedBrainCall DEF BrainInv
  <2>5. Kept(cache')
    BY <1>2, <2>1, CachePutKeeps DEF BrainInv
  <2>6. Explain(chains', hot') /\ hot' \subseteq {Src(f) : f \in FlowIds}
    BY <1>2, <2>1, RecordExplains DEF BrainInv
  <2> QED
    BY <1>7, <2>4, <2>5, <2>6 DEF BrainInv
<1> QED
  BY <1>8, <1>9

LEMMA ExplainedKeeps ==
  ASSUME BrainInv, NEW c \in Calls, Explained(c)
  PROVE  BrainInv'
<1>1. PICK x : x = call[c]
  OBVIOUS
<1>2. x.phase = "explain" /\ x.flow \in FlowIds /\ x.level \in 0..4
  BY <1>1 DEF Explained, BrainInv, CallsInv, BrainCalls
<1>3. /\ call' = [call EXCEPT ![c] = [NoCall EXCEPT !.phase = "decided"]]
      /\ CachePut(x.flow, x.level)
      /\ Record(x.flow, x.level, x.kind)
      /\ UNCHANGED <<now, profiles, updates, seen, window, forest>>
  BY <1>1 DEF Explained
<1>4. PICK v : v = [NoCall EXCEPT !.phase = "decided"]
  OBVIOUS
<1>5. v \in BrainCalls /\ v.phase = "decided"
  BY <1>4, NewBrainCall DEF BrainCalls
<1>6. CallsInv'
  BY <1>3, <1>4, <1>5, TypedBrainCall DEF BrainInv
<1>7. Kept(cache')
  BY <1>2, <1>3, CachePutKeeps DEF BrainInv
<1>8. Explain(chains', hot') /\ hot' \subseteq {Src(f) : f \in FlowIds}
  BY <1>2, <1>3, RecordExplains DEF BrainInv
<1> QED
  BY <1>3, <1>6, <1>7, <1>8 DEF BrainInv

LEMMA BrainSteps == BrainInv /\ [BrainNext]_brainVars => BrainInv'
<1> SUFFICES ASSUME BrainInv, [BrainNext]_brainVars PROVE BrainInv'
  OBVIOUS
<1>1. CASE TimePasses
  BY <1>1, BrainAssumption DEF TimePasses, BrainInv, CallsInv, Kept, Ttl
<1>2. ASSUME NEW c \in Calls, NEW r \in Requests, Decide(c, r[1], r[2])
      PROVE  BrainInv'
  <2>1. r[1] \in FlowIds /\ r[2] \in BOOLEAN
    BY BrainAssumption
  <2> QED
    BY <1>2, <2>1, DecideKeeps
<1>3. ASSUME NEW c \in Calls, Score(c)
      PROVE  BrainInv'
  BY <1>3, ScoreKeeps
<1>4. ASSUME NEW c \in Calls, Conclude(c)
      PROVE  BrainInv'
  BY <1>4, ConcludeKeeps
<1>5. ASSUME NEW c \in Calls, Explained(c)
      PROVE  BrainInv'
  BY <1>5, ExplainedKeeps
<1>6. CASE UNCHANGED brainVars
  BY <1>6 DEF brainVars, BrainInv, CallsInv, Kept, Ttl
<1> QED
  BY <1>1, <1>2, <1>3, <1>4, <1>5, <1>6 DEF BrainNext

LEMMA BrainInvBacks == BrainInv => DecisionsSound
<1> SUFFICES ASSUME BrainInv PROVE DecisionsSound
  OBVIOUS
<1>1. BrainTypeOK
  BY DEF BrainInv, BrainTypeOK, CallsInv, BrainCalls
<1>2. ServedFresh
  BY DEF BrainInv, ServedFresh, CallsInv, Kept, Ttl
<1>3. HotHasChain
  <2>1. DOMAIN chains = 1..Len(chains)
    BY LenProperties DEF BrainInv, Explain
  <2> QED
    BY <2>1 DEF BrainInv, Explain, HotHasChain, ChainsOf
<1>4. SilenceOutvotes
  <2> SUFFICES ASSUME NEW c \in Calls, call[c].phase = "scored",
                      Level(FinalRisk(call[c].risks)) > 0, Impossible \in ToSet(call[c].risks)
               PROVE  \E x \in ToSet(call[c].risks) : x > 41
    BY DEF SilenceOutvotes
  <2>1. PICK r \in Int \X Int \X Int \X Int : r = call[c].risks
    BY DEF BrainInv, CallsInv
  <2>2. PICK a \in Int, b \in Int, d \in Int, e \in Int : r = <<a, b, d, e>>
    OBVIOUS
  <2> QED
    BY <2>1, <2>2, SilenceWeighsMost
<1> QED
  BY <1>1, <1>2, <1>3, <1>4 DEF DecisionsSound, VerdictsBacked

(* An answer of decide() from the cache is of its flow and fresh, whatever *)
(* calls overlap; a source is hot because of its one chain; and an engine  *)
(* that knows nothing outvotes all others but near certainty               *)
(* (decision_engine.py, threat_correlator.py).                             *)
THEOREM DecisionsAreAlwaysSound == BrainSpec => []DecisionsSound
<1>1. BrainSpec => []BrainInv
  BY BrainStarts, BrainSteps, PTL DEF BrainSpec
<1> QED
  BY <1>1, BrainInvBacks, PTL

-----------------------------------------------------------------------------
(* The trainers.                                                           *)
EnvRecord ==
  [step : 0..MaxSteps, shown : BOOLEAN, tp : Nat, tn : Nat, fp : Nat, fn : Nat, done : BOOLEAN]

TransitionRecord ==
  [who : Agents, shown : BOOLEAN, judged : BOOLEAN, good : BOOLEAN, reward : Int, done : BOOLEAN]

(* Types, and what makes the bounds of MarlTypeOK hold.                    *)
MarlTyped ==
  /\ kind \in {"thor", "flow", "ray"}
  /\ trainPhase \in {"pretrain", "rl"}
  /\ trainPhase = "pretrain" => kind = "thor"
  /\ kind = "flow" => weights = 0
  /\ envs \in [Agents -> EnvRecord]
  /\ \A a \in Agents : ~envs[a].done => envs[a].step < MaxSteps
  /\ buffer \in Seq(TransitionRecord)
  /\ Len(buffer) <= BatchSize + MaxLate
  /\ totalSteps \in Nat /\ collected \in Nat
  /\ weights \in 0..MaxWeights
  /\ history \in Seq(Scores) /\ Len(history) = weights
  /\ bestWeights \in [score : Int, weights : Nat]

(* What each step of an environment leaves in the buffer.                  *)
StepsAreCounted ==
  /\ kind = "flow" => \A t \in 1..Len(buffer) : buffer[t].judged = buffer[t].shown
  /\ kind = "thor" => \A t \in 1..Len(buffer) : buffer[t].good <=> buffer[t].reward > 0
  /\ kind = "thor" => \A a \in Agents :
       envs[a].tp + envs[a].tn + envs[a].fp + envs[a].fn = envs[a].step
  /\ \A t \in 1..Len(buffer) : buffer[t].who \in Crew
  /\ totalSteps * BatchSize <= collected

(* No network has scored above the one that is kept.                       *)
TopsHistory == \A w \in 1..Len(history) : history[w] <= bestWeights.score

(* All before it have scored less.                                         *)
FirstOfBest ==
  /\ bestWeights.weights <= weights
  /\ history[bestWeights.weights] = bestWeights.score
  /\ \A w \in 1..(bestWeights.weights - 1) : history[w] < bestWeights.score

BestIsKept ==
  /\ kind = "ray" \/ trainPhase = "pretrain" => TopsHistory
  /\ bestWeights.weights = 0 => bestWeights.score = IF kind = "ray" THEN -1 ELSE 0
  /\ bestWeights.weights > 0 => FirstOfBest
  /\ kind = "thor" /\ trainPhase = "rl" /\ bestWeights.weights > 0 => begun = bestWeights.weights

MarlInv == MarlTyped /\ StepsAreCounted /\ BestIsKept

(* Min(Agents) is an agent: Agents is a non-empty set of naturals.         *)
LEMMA CrewIsOfAgents == Crew \subseteq Agents
<1>1. PICK x \in Agents : \A y \in Agents : x <= y
  BY LeastNatural, MarlAssumption
<1>2. Min(Agents) \in Agents
  BY <1>1 DEF Min
<1> QED
  BY <1>2 DEF Crew

-----------------------------------------------------------------------------
(* An advantage reaches the transitions that all those from t to it flow   *)
(* on to.                                                                  *)
Reached(b, t) == {u \in t..Len(b) : \A v \in t..(u - 1) : FlowsOn(b, v)}

LEMMA ReachedAtLast ==
  ASSUME NEW b, Len(b) \in Nat, NEW t \in 1..Len(b), ~FlowsOn(b, t)
  PROVE  Reached(b, t) = {t}
BY DEF Reached

LEMMA ReachedGoesOn ==
  ASSUME NEW b, Len(b) \in Nat, NEW t \in 1..Len(b), FlowsOn(b, t)
  PROVE  t + 1 \in 1..Len(b) /\ Reached(b, t) = {t} \cup Reached(b, t + 1)
<1>1. t + 1 \in 1..Len(b)
  BY DEF FlowsOn
<1>2. ASSUME NEW u \in Reached(b, t) PROVE u \in {t} \cup Reached(b, t + 1)
  BY <1>1, <1>2 DEF Reached
<1>3. t \in Reached(b, t)
  BY DEF Reached
<1>4. ASSUME NEW u \in Reached(b, t + 1) PROVE u \in Reached(b, t)
  <2>1. u \in t..Len(b) /\ \A v \in (t + 1)..(u - 1) : FlowsOn(b, v)
    BY <1>1, <1>4 DEF Reached
  <2>2. \A v \in t..(u - 1) : v = t \/ v \in (t + 1)..(u - 1)
    BY <2>1
  <2> QED
    BY <2>1, <2>2 DEF Reached
<1> QED
  BY <1>1, <1>2, <1>3, <1>4

(* The closed form satisfies the recursion, so Reach does.                 *)
LEMMA ReachExists ==
  ASSUME NEW b, Len(b) \in Nat
  PROVE  Reach(b) = [t \in 1..Len(b) |-> {t} \cup IF FlowsOn(b, t) THEN Reach(b)[t + 1] ELSE {}]
<1> DEFINE g == [t \in 1..Len(b) |-> Reached(b, t)]
<1> DEFINE turn(r) == [t \in 1..Len(b) |-> {t} \cup IF FlowsOn(b, t) THEN r[t + 1] ELSE {}]
<1>1. ASSUME NEW t \in 1..Len(b)
      PROVE  Reached(b, t) = {t} \cup IF FlowsOn(b, t) THEN g[t + 1] ELSE {}
  <2>1. CASE FlowsOn(b, t)
    BY <2>1, ReachedGoesOn
  <2>2. CASE ~FlowsOn(b, t)
    BY <2>2, ReachedAtLast
  <2> QED
    BY <2>1, <2>2
<1>2. g = turn(g)
  BY <1>1
<1>3. Reach(b) = CHOOSE r : r = turn(r)
  BY DEF Reach
<1> HIDE DEF g, turn
<1>4. Reach(b) = turn(Reach(b))
  BY <1>2, <1>3
<1> QED
  BY <1>4 DEF turn

(* ... and nothing else does: of the positions where they differ, the last *)
(* one could not differ.                                                   *)
LEMMA ReachIsReached ==
  ASSUME NEW b, Len(b) \in Nat, NEW t \in 1..Len(b)
  PROVE  Reach(b)[t] = Reached(b, t)
<1> DEFINE Bad == {n \in Nat : n < Len(b) /\ Reach(b)[Len(b) - n] # Reached(b, Len(b) - n)}
<1>1. SUFFICES ASSUME Bad # {} PROVE FALSE
  <2>1. Len(b) - t \in Nat /\ Len(b) - t < Len(b) /\ Len(b) - (Len(b) - t) = t
    OBVIOUS
  <2> QED
    BY <2>1
<1>2. PICK n \in Bad : \A m \in Bad : n <= m
  BY <1>1, LeastNatural
<1> DEFINE p == Len(b) - n
<1>3. p \in 1..Len(b) /\ Reach(b)[p] # Reached(b, p)
  BY <1>2
<1>4. Reach(b)[p] = {p} \cup IF FlowsOn(b, p) THEN Reach(b)[p + 1] ELSE {}
  BY <1>3, ReachExists
<1>5. CASE ~FlowsOn(b, p)
  BY <1>3, <1>4, <1>5, ReachedAtLast
<1>6. CASE FlowsOn(b, p)
  <2>1. p + 1 \in 1..Len(b) /\ Reached(b, p) = {p} \cup Reached(b, p + 1)
    BY <1>3, <1>6, ReachedGoesOn
  <2>2. n - 1 \in Nat /\ n - 1 < Len(b) /\ n - 1 < n /\ Len(b) - (n - 1) = p + 1
    BY <2>1, <1>2
  <2>3. n - 1 \notin Bad
    BY <1>2, <2>2
  <2>4. Reach(b)[p + 1] = Reached(b, p + 1)
    BY <2>2, <2>3
  <2> QED
    BY <1>3, <1>4, <1>6, <2>1, <2>4
<1> QED
  BY <1>5, <1>6

(* So an advantage stays in its episode, whatever the buffer.              *)
LEMMA AdvantagesStay ==
  ASSUME MarlInv
  PROVE  AdvantagesStayInEpisode
<1>0. buffer \in Seq(TransitionRecord) /\ Len(buffer) \in Nat
  BY DEF MarlInv, MarlTyped
<1> SUFFICES ASSUME kind # "ray", NEW t \in 1..Len(buffer)
    PROVE  /\ {u \in Reach(buffer)[t] : buffer[u].who = buffer[t].who} \subseteq RestOfEpisode(t)
           /\ Cardinality(Crew) = 1 => Reach(buffer)[t] = RestOfEpisode(t)
  BY DEF AdvantagesStayInEpisode
<1>1. Reach(buffer)[t] = Reached(buffer, t)
  BY <1>0, ReachIsReached
<1>2. \A v \in 1..Len(buffer) : FlowsOn(buffer, v) <=> v < Len(buffer) /\ ~buffer[v].done
  BY DEF FlowsOn
<1>3. ASSUME NEW u \in Reached(buffer, t), buffer[u].who = buffer[t].who
      PROVE  u \in RestOfEpisode(t)
  BY <1>0, <1>2, <1>3 DEF Reached, RestOfEpisode
<1>4. ASSUME Cardinality(Crew) = 1, NEW u \in Reached(buffer, t) PROVE u \in RestOfEpisode(t)
  <2>1. IsFiniteSet(Crew)
    BY CrewIsOfAgents, FS_Subset, MarlAssumption
  <2>2. PICK c : Crew = {c}
    BY <1>4, <2>1, FS_Singleton
  <2>3. \A v \in 1..Len(buffer) : buffer[v].who = c
    BY <2>2 DEF MarlInv, StepsAreCounted
  <2> QED
    BY <1>0, <1>3, <2>3, <1>4 DEF Reached
<1>5. ASSUME Cardinality(Crew) = 1, NEW u \in RestOfEpisode(t) PROVE u \in Reached(buffer, t)
  <2>1. IsFiniteSet(Crew)
    BY CrewIsOfAgents, FS_Subset, MarlAssumption
  <2>2. PICK c : Crew = {c}
    BY <1>5, <2>1, FS_Singleton
  <2>3. \A v \in 1..Len(buffer) : buffer[v].who = c
    BY <2>2 DEF MarlInv, StepsAreCounted
  <2> QED
    BY <1>0, <1>2, <2>3, <1>5 DEF Reached, RestOfEpisode
<1> QED
  BY <1>1, <1>3, <1>4, <1>5

-----------------------------------------------------------------------------
(* The inductive invariant has what the run checks.                        *)
LEMMA MarlInvIsSound == MarlInv => PoliciesSound
<1> SUFFICES ASSUME MarlInv PROVE PoliciesSound
  OBVIOUS
<1>1. MarlTypeOK
  BY DEF MarlInv, MarlTyped, MarlTypeOK, EnvRecord
<1>2. RewardsAreAccounted
  BY CrewIsOfAgents DEF MarlInv, StepsAreCounted, RewardsAreAccounted
<1>3. KeptIsBest
  BY DEF MarlInv, BestIsKept, TopsHistory, FirstOfBest, KeptIsBest
<1> QED
  BY <1>1, <1>2, <1>3, AdvantagesStay DEF PoliciesSound, TrainingIsSound

-----------------------------------------------------------------------------
LEMMA MarlInvInit == MarlInit => MarlInv
<1> SUFFICES ASSUME MarlInit PROVE MarlInv
  OBVIOUS
<1> USE MarlAssumption DEF MarlInit
<1>1. PICK f \in [Agents -> FirstShown(kind)] : envs = [a \in Agents |-> Fresh(f[a])]
  OBVIOUS
<1>2. FirstShown(kind) \subseteq BOOLEAN
  BY DEF FirstShown
<1>3. \A a \in Agents : Fresh(f[a]) \in EnvRecord
  BY <1>1, <1>2 DEF Fresh, EnvRecord
<1>4. /\ envs \in [Agents -> EnvRecord]
      /\ \A a \in Agents : envs[a].step = 0 /\ envs[a].tp = 0 /\ envs[a].tn = 0 /\ envs[a].fp = 0
                            /\ envs[a].fn = 0
  BY <1>1, <1>3 DEF Fresh
<1>5. MarlTyped
  BY <1>4 DEF MarlTyped
<1>6. StepsAreCounted
  BY <1>4 DEF StepsAreCounted
<1>7. BestIsKept
  BY DEF BestIsKept, TopsHistory
<1> QED
  BY <1>5, <1>6, <1>7 DEF MarlInv

(* A step of an environment is counted under its outcome.                  *)
LEMMA SteppedRecord ==
  ASSUME NEW e \in EnvRecord, NEW action, NEW drawn \in BOOLEAN,
         ~e.done, e.step < MaxSteps, MaxSteps \in Nat
  PROVE  LET n == Stepped(e, action, drawn) IN
         /\ n \in EnvRecord
         /\ ~n.done => n.step < MaxSteps
         /\ n.step = e.step + 1
         /\ kind = "thor" => n.tp + n.tn + n.fp + n.fn = e.tp + e.tn + e.fp + e.fn + 1
<1> DEFINE o == Outcome(action, Judged(e, drawn))
           c == Counted(e, o, kind = "thor")
           n == Stepped(e, action, drawn)
<1>1. o \in {"tp", "tn", "fp", "fn"}
  BY DEF Outcome
<1> HIDE DEF o
<1>2. /\ c \in EnvRecord /\ c.step = e.step
      /\ kind = "thor" => c.tp + c.tn + c.fp + c.fn = e.tp + e.tn + e.fp + e.fn + 1
  <2>1. CASE kind = "thor" /\ o = "tp"
    BY <2>1 DEF Counted, EnvRecord
  <2>2. CASE kind = "thor" /\ o = "tn"
    BY <2>2 DEF Counted, EnvRecord
  <2>3. CASE kind = "thor" /\ o = "fp"
    BY <2>3 DEF Counted, EnvRecord
  <2>4. CASE kind = "thor" /\ o = "fn"
    BY <2>4 DEF Counted, EnvRecord
  <2>5. CASE kind # "thor"
    BY <2>5 DEF Counted, EnvRecord
  <2> QED
    BY <1>1, <2>1, <2>2, <2>3, <2>4, <2>5
<1> DEFINE d == e.step + 1 >= MaxSteps
<1>3. n = [c EXCEPT !.step = @ + 1, !.shown = drawn, !.done = d]
  BY DEF Stepped, o
<1>4. d \in BOOLEAN /\ e.step + 1 \in 0..MaxSteps /\ (~d => e.step + 1 < MaxSteps)
  BY DEF EnvRecord
<1> HIDE DEF c, n, d
<1>5. n \in EnvRecord
  BY <1>2, <1>3, <1>4 DEF EnvRecord
<1>6. n.step = e.step + 1 /\ n.done = d /\ n.tp = c.tp /\ n.tn = c.tn /\ n.fp = c.fp /\ n.fn = c.fn
  BY <1>2, <1>3 DEF EnvRecord
<1> QED
  BY <1>2, <1>4, <1>5, <1>6 DEF n

(* What a transition records.                                              *)
LEMMA TransitionRecorded ==
  ASSUME MarlInv, NEW a \in Agents, NEW action, NEW drawn \in BOOLEAN
  PROVE  LET n == Transition(a, action, drawn) IN
         /\ n \in TransitionRecord /\ n.who = a
         /\ kind = "flow" => n.judged = n.shown
         /\ kind = "thor" => (n.good <=> n.reward > 0)
<1> DEFINE j == Judged(envs[a], drawn)
           n == Transition(a, action, drawn)
<1>1. envs[a] \in EnvRecord /\ kind \in {"thor", "flow", "ray"}
  BY DEF MarlInv, MarlTyped
<1>2. envs[a].shown \in BOOLEAN
  BY <1>1 DEF EnvRecord
<1>3. j \in BOOLEAN /\ (kind = "flow" => j = envs[a].shown)
  BY <1>2 DEF Judged
<1>4. Reward(action, j) \in Int
  BY <1>1, <1>3 DEF Reward, ThorReward, FlowReward, RayReward
<1>5. kind = "thor" => (Outcome(action, j) \in {"tp", "tn"} <=> Reward(action, j) > 0)
  BY <1>3 DEF Reward, ThorReward, Outcome, Blocked
<1> DEFINE g == Outcome(action, j) \in {"tp", "tn"}
           r == Reward(action, j)
           d == envs[a].step + 1 >= MaxSteps
<1>6. n = [who |-> a, shown |-> envs[a].shown, judged |-> j, good |-> g, reward |-> r, done |-> d]
  BY DEF Transition
<1>7. g \in BOOLEAN /\ d \in BOOLEAN /\ r \in Int /\ (kind = "thor" => (g <=> r > 0))
  BY <1>4, <1>5
<1> HIDE DEF j, g, r, d
<1>8. n \in TransitionRecord
  BY <1>2, <1>3, <1>6, <1>7 DEF TransitionRecord
<1>9. n.who = a /\ n.judged = j /\ n.shown = envs[a].shown /\ n.good = g /\ n.reward = r
  BY <1>6
<1> QED
  BY <1>3, <1>7, <1>8, <1>9

LEMMA ActKeepsMarl ==
  ASSUME MarlInv, NEW a \in Crew, NEW action, NEW drawn \in BOOLEAN, Act(a, action, drawn)
  PROVE  MarlInv'
<1> DEFINE n == Transition(a, action, drawn)
           m == Stepped(envs[a], action, drawn)
<1>1. a \in Agents
  BY CrewIsOfAgents
<1>2. envs \in [Agents -> EnvRecord] /\ envs[a] \in EnvRecord /\ ~envs[a].done
      /\ envs[a].step < MaxSteps /\ buffer \in Seq(TransitionRecord)
  BY <1>1 DEF MarlInv, MarlTyped, Act
<1>3. /\ m \in EnvRecord
      /\ ~m.done => m.step < MaxSteps
      /\ m.step = envs[a].step + 1
      /\ kind = "thor" => m.tp + m.tn + m.fp + m.fn = envs[a].tp + envs[a].tn + envs[a].fp + envs[a].fn + 1
  BY <1>2, SteppedRecord, MarlAssumption
<1>4. /\ n \in TransitionRecord /\ n.who = a
      /\ kind = "flow" => n.judged = n.shown
      /\ kind = "thor" => (n.good <=> n.reward > 0)
  BY <1>1, TransitionRecorded
<1>5. buffer' = Append(buffer, n) /\ envs' = [envs EXCEPT ![a] = m]
  BY DEF Act
<1> HIDE DEF n, m
<1>6. /\ buffer' \in Seq(TransitionRecord) /\ Len(buffer') = Len(buffer) + 1
      /\ buffer'[Len(buffer) + 1] = n
      /\ \A t \in 1..Len(buffer) : buffer'[t] = buffer[t]
  BY <1>2, <1>4, <1>5, AppendProperties
<1>7. /\ UNCHANGED <<kind, trainPhase, totalSteps, collected, weights, bestWeights, history, begun>>
      /\ Len(buffer) < BatchSize + MaxLate
  BY DEF Act, networks
<1>8. envs' \in [Agents -> EnvRecord] /\ envs'[a] = m
      /\ \A x \in Agents \ {a} : envs'[x] = envs[x]
  BY <1>1, <1>2, <1>3, <1>5
<1>9. Len(buffer) \in Nat /\ BatchSize \in Nat /\ MaxLate \in Nat
  BY <1>2, MarlAssumption
<1>10. Len(buffer)' <= BatchSize + MaxLate
  BY <1>6, <1>7, <1>9
<1>11. \A x \in Agents : ~envs'[x].done => envs'[x].step < MaxSteps
  BY <1>3, <1>8 DEF MarlInv, MarlTyped
<1>12. MarlTyped'
  BY <1>6, <1>7, <1>8, <1>10, <1>11 DEF MarlInv, MarlTyped
<1>13. \A t \in 1..Len(buffer') : t \in 1..Len(buffer) \/ t = Len(buffer) + 1
  BY <1>6, <1>9
<1>14. kind' = "flow" => \A t \in 1..Len(buffer') : buffer'[t].judged = buffer'[t].shown
  BY <1>4, <1>6, <1>7, <1>13 DEF MarlInv, StepsAreCounted
<1>15. kind' = "thor" => \A t \in 1..Len(buffer') : buffer'[t].good <=> buffer'[t].reward > 0
  BY <1>4, <1>6, <1>7, <1>13 DEF MarlInv, StepsAreCounted
<1>16. kind' = "thor" => \A x \in Agents :
         envs'[x].tp + envs'[x].tn + envs'[x].fp + envs'[x].fn = envs'[x].step
  BY <1>3, <1>7, <1>8 DEF MarlInv, StepsAreCounted
<1>17. \A t \in 1..Len(buffer') : buffer'[t].who \in Crew'
  BY <1>4, <1>6, <1>7, <1>13 DEF MarlInv, StepsAreCounted, Crew
<1>18. StepsAreCounted'
  BY <1>7, <1>14, <1>15, <1>16, <1>17 DEF MarlInv, StepsAreCounted
<1>19. BestIsKept'
  BY <1>7 DEF MarlInv, BestIsKept, TopsHistory, FirstOfBest
<1> QED
  BY <1>12, <1>18, <1>19 DEF MarlInv

LEMMA ResetEnvKeepsMarl ==
  ASSUME MarlInv, NEW a \in Crew, NEW attack \in BOOLEAN, ResetEnv(a, attack)
  PROVE  MarlInv'
<1>1. a \in Agents
  BY CrewIsOfAgents
<1>2. Fresh(attack) \in EnvRecord /\ Fresh(attack).step = 0 /\ Fresh(attack).tp = 0
      /\ Fresh(attack).tn = 0 /\ Fresh(attack).fp = 0 /\ Fresh(attack).fn = 0
  BY MarlAssumption DEF Fresh, EnvRecord
<1>3. /\ envs' = [envs EXCEPT ![a] = Fresh(attack)]
      /\ UNCHANGED <<kind, trainPhase, buffer, totalSteps, collected>>
      /\ UNCHANGED <<weights, bestWeights, history, begun>>
  BY DEF ResetEnv, networks
<1>4. envs \in [Agents -> EnvRecord]
  BY DEF MarlInv, MarlTyped
<1>5. envs' \in [Agents -> EnvRecord] /\ envs'[a] = Fresh(attack)
      /\ \A x \in Agents \ {a} : envs'[x] = envs[x]
  BY <1>1, <1>2, <1>3, <1>4
<1>6. \A x \in Agents : ~envs'[x].done => envs'[x].step < MaxSteps
  BY <1>2, <1>5, MarlAssumption DEF MarlInv, MarlTyped
<1>7. MarlTyped'
  BY <1>3, <1>5, <1>6 DEF MarlInv, MarlTyped
<1>8. kind' = "thor" => \A x \in Agents :
        envs'[x].tp + envs'[x].tn + envs'[x].fp + envs'[x].fn = envs'[x].step
  BY <1>2, <1>3, <1>5 DEF MarlInv, StepsAreCounted
<1>9. StepsAreCounted'
  BY <1>3, <1>8 DEF MarlInv, StepsAreCounted, Crew
<1>10. BestIsKept'
  BY <1>3 DEF MarlInv, BestIsKept, TopsHistory, FirstOfBest
<1> QED
  BY <1>7, <1>9, <1>10 DEF MarlInv

(* What of the best state is true once a score is appended.                *)
LEMMA AppendedHistory ==
  ASSUME MarlInv, NEW score \in Scores, history' = Append(history, score), weights' = weights + 1
  PROVE  /\ history' \in Seq(Scores) /\ Len(history') = weights' /\ weights' \in Nat
         /\ weights \in Nat /\ Len(history) = weights
         /\ history'[weights'] = score /\ score \in Nat
         /\ \A w \in 1..weights : history'[w] = history[w] /\ history[w] \in Nat
         /\ bestWeights.score \in Int /\ bestWeights.weights \in Nat
<1>1. history \in Seq(Scores) /\ Len(history) = weights /\ weights \in Nat
  BY DEF MarlInv, MarlTyped
<1>2. \A w \in 1..weights : history[w] \in Scores
  BY <1>1, ElementOfSeq
<1>3. /\ history' \in Seq(Scores) /\ Len(history') = Len(history) + 1
      /\ history'[Len(history) + 1] = score
      /\ \A w \in 1..Len(history) : history'[w] = history[w]
  BY <1>1, AppendProperties
<1>4. bestWeights.score \in Int /\ bestWeights.weights \in Nat
  BY DEF MarlInv, MarlTyped
<1>5. \A x \in Scores : x \in Nat
  BY MarlAssumption
<1>6. Len(history) + 1 = weights' /\ weights' \in Nat
  BY <1>1
<1>7. \A w \in 1..weights : history'[w] = history[w] /\ history[w] \in Nat
  BY <1>1, <1>2, <1>3, <1>5
<1>8. history'[weights'] = score
  BY <1>3, <1>6
<1> QED
  BY <1>1, <1>3, <1>4, <1>5, <1>6, <1>7, <1>8

(* The better of the kept network and this one is kept.                    *)
LEMMA BetterKeepsBest ==
  ASSUME MarlInv, NEW score \in Scores, history' = Append(history, score), weights' = weights + 1,
         bestWeights' = Better(score), TopsHistory, kind = "ray" \/ trainPhase = "pretrain",
         trainPhase = "pretrain" => kind = "thor", UNCHANGED <<kind, trainPhase>>
  PROVE  BestIsKept' /\ bestWeights' \in [score : Int, weights : Nat]
<1>1. /\ history' \in Seq(Scores) /\ Len(history') = weights' /\ weights' \in Nat
      /\ weights \in Nat /\ Len(history) = weights
      /\ history'[weights'] = score /\ score \in Nat
      /\ \A w \in 1..weights : history'[w] = history[w] /\ history[w] \in Nat
      /\ bestWeights.score \in Int /\ bestWeights.weights \in Nat
  BY AppendedHistory
<1>2. \A w \in 1..Len(history') : w \in 1..weights \/ w = weights'
  BY <1>1
<1>3. bestWeights' \in [score : Int, weights : Nat]
  BY <1>1 DEF Better, MarlInv, MarlTyped
<1>4. \A w \in 1..weights : history[w] <= bestWeights.score
  BY <1>1 DEF TopsHistory
<1>5. ~(kind' = "thor" /\ trainPhase' = "rl")
  OBVIOUS
<1>6. CASE score > bestWeights.score
  <2>1. bestWeights'.score = score /\ bestWeights'.weights = weights' /\ weights' > 0
    BY <1>1, <1>6 DEF Better
  <2>2. TopsHistory'
    BY <1>1, <1>2, <1>4, <1>6, <2>1 DEF TopsHistory
  <2>3. \A w \in 1..(weights' - 1) : history'[w] < score
    BY <1>1, <1>4, <1>6
  <2>4. FirstOfBest'
    BY <1>1, <2>1, <2>3 DEF FirstOfBest
  <2> QED
    BY <1>3, <1>5, <2>1, <2>2, <2>4 DEF BestIsKept
<1>7. CASE ~(score > bestWeights.score)
  <2>1. bestWeights' = bestWeights
    BY <1>7 DEF Better
  <2>2. TopsHistory'
    BY <1>1, <1>2, <1>4, <1>7, <2>1 DEF TopsHistory
  <2>3. bestWeights'.weights > 0 => FirstOfBest'
    <3> SUFFICES ASSUME bestWeights.weights > 0 PROVE FirstOfBest'
      BY <2>1
    <3>1. FirstOfBest
      BY DEF MarlInv, BestIsKept
    <3>2. bestWeights.weights \in 1..weights
      BY <1>1, <3>1 DEF FirstOfBest
    <3>3. \A w \in 1..(bestWeights.weights - 1) : w \in 1..weights
      BY <1>1, <3>2
    <3> QED
      BY <1>1, <2>1, <3>1, <3>2, <3>3 DEF FirstOfBest
  <2>4. bestWeights'.weights = 0 => bestWeights'.score = IF kind' = "ray" THEN -1 ELSE 0
    BY <2>1 DEF MarlInv, BestIsKept
  <2> QED
    BY <1>3, <1>5, <2>2, <2>3, <2>4 DEF BestIsKept
<1> QED
  BY <1>6, <1>7

LEMMA UpdatePolicyKeepsMarl ==
  ASSUME MarlInv, NEW score \in Scores, UpdatePolicy(score)
  PROVE  MarlInv'
<1>1. /\ trainPhase = "rl" /\ Len(buffer) >= BatchSize /\ weights < MaxWeights
      /\ buffer' = <<>> /\ totalSteps' = totalSteps + 1 /\ collected' = collected + Len(buffer)
      /\ UNCHANGED <<kind, trainPhase, envs, begun>>
  BY DEF UpdatePolicy
<1>2. MarlTyped
  BY DEF MarlInv
<1>3. totalSteps' * BatchSize <= collected'
  <2>1. totalSteps \in Nat /\ collected \in Nat /\ BatchSize \in Nat /\ Len(buffer) \in Nat
        /\ totalSteps * BatchSize <= collected
    BY MarlAssumption DEF MarlInv, MarlTyped, StepsAreCounted
  <2>2. (totalSteps + 1) * BatchSize = totalSteps * BatchSize + BatchSize
        /\ totalSteps * BatchSize \in Nat
    BY <2>1
  <2> DEFINE product == totalSteps * BatchSize
  <2>3. product \in Nat /\ product <= collected /\ totalSteps' * BatchSize = product + BatchSize
    BY <1>1, <2>1, <2>2
  <2> HIDE DEF product
  <2> QED
    BY <1>1, <2>1, <2>3
<1>4. StepsAreCounted'
  BY <1>1, <1>3 DEF MarlInv, StepsAreCounted, Crew
<1>5. /\ buffer' \in Seq(TransitionRecord) /\ Len(buffer') = 0
      /\ totalSteps' \in Nat /\ collected' \in Nat
  BY <1>1, <1>2 DEF MarlTyped
<1>6. CASE kind = "flow"
  <2>1. UNCHANGED <<weights, history, bestWeights>>
    BY <1>6 DEF UpdatePolicy
  <2>2. MarlTyped'
    BY <1>1, <1>2, <1>5, <2>1, MarlAssumption DEF MarlTyped
  <2>3. BestIsKept'
    BY <1>1, <2>1 DEF MarlInv, BestIsKept, TopsHistory, FirstOfBest
  <2> QED
    BY <1>4, <2>2, <2>3 DEF MarlInv
<1>7. CASE kind # "flow"
  <2>1. /\ weights' = weights + 1 /\ history' = Append(history, score)
        /\ bestWeights' = IF kind = "ray" THEN Better(score) ELSE bestWeights
    BY <1>7 DEF UpdatePolicy
  <2>2. /\ history' \in Seq(Scores) /\ Len(history') = weights' /\ weights' \in Nat
        /\ weights \in Nat /\ Len(history) = weights
        /\ \A w \in 1..weights : history'[w] = history[w]
        /\ bestWeights.weights \in Nat
    BY <2>1, AppendedHistory
  <2>3. BestIsKept' /\ bestWeights' \in [score : Int, weights : Nat]
    <3>1. CASE kind = "ray"
      <4>1. TopsHistory /\ trainPhase # "pretrain"
        BY <1>1, <3>1 DEF MarlInv, BestIsKept
      <4> QED
        BY <1>1, <2>1, <3>1, <4>1, BetterKeepsBest
    <3>2. CASE kind # "ray"
      <4>1. bestWeights' = bestWeights /\ kind' # "ray" /\ trainPhase' = "rl"
        BY <1>1, <2>1, <3>2
      <4>2. bestWeights.weights > 0 => FirstOfBest'
        <5> SUFFICES ASSUME bestWeights.weights > 0 PROVE FirstOfBest'
          OBVIOUS
        <5>1. FirstOfBest
          BY DEF MarlInv, BestIsKept
        <5>2. bestWeights.weights \in 1..weights
          BY <2>2, <5>1 DEF FirstOfBest
        <5>3. \A w \in 1..(bestWeights.weights - 1) : w \in 1..weights
          BY <2>2, <5>2
        <5> QED
          BY <2>1, <2>2, <4>1, <5>1, <5>2, <5>3 DEF FirstOfBest
      <4> QED
        BY <1>1, <1>2, <2>1, <4>1, <4>2 DEF MarlInv, BestIsKept, MarlTyped
    <3> QED
      BY <3>1, <3>2
  <2>4. weights' \in 0..MaxWeights
    BY <1>1, <2>1, <2>2, MarlAssumption
  <2>5. MarlTyped'
    BY <1>1, <1>2, <1>5, <1>7, <2>2, <2>3, <2>4, MarlAssumption DEF MarlTyped
  <2> QED
    BY <1>4, <2>3, <2>5 DEF MarlInv
<1> QED
  BY <1>6, <1>7

LEMMA PretrainKeepsMarl ==
  ASSUME MarlInv, NEW score \in Scores, PretrainEpoch(score)
  PROVE  MarlInv'
<1>1. /\ trainPhase = "pretrain" /\ weights < MaxWeights - 1 /\ weights' = weights + 1
      /\ history' = Append(history, score) /\ bestWeights' = Better(score)
      /\ UNCHANGED <<kind, trainPhase, envs, buffer, totalSteps, collected, begun>>
  BY DEF PretrainEpoch
<1>2. MarlTyped /\ kind = "thor"
  BY <1>1 DEF MarlInv, MarlTyped
<1>3. TopsHistory
  BY <1>1 DEF MarlInv, BestIsKept
<1>4. BestIsKept' /\ bestWeights' \in [score : Int, weights : Nat]
  BY <1>1, <1>2, <1>3, BetterKeepsBest
<1>5. /\ history' \in Seq(Scores) /\ Len(history') = weights' /\ weights' \in Nat /\ weights \in Nat
  BY <1>1, AppendedHistory
<1>6. weights' \in 0..MaxWeights
  BY <1>1, <1>5, MarlAssumption
<1>7. MarlTyped'
  BY <1>1, <1>2, <1>4, <1>5, <1>6 DEF MarlTyped
<1>8. StepsAreCounted'
  BY <1>1 DEF MarlInv, StepsAreCounted, Crew
<1> QED
  BY <1>4, <1>7, <1>8 DEF MarlInv

(* The best state restored is one of the history, which ends with it.      *)
LEMMA EndPretrainKeepsMarl ==
  ASSUME MarlInv, EndPretrain
  PROVE  MarlInv'
<1>1. /\ trainPhase = "pretrain" /\ trainPhase' = "rl"
      /\ weights' = IF bestWeights.weights > 0 THEN bestWeights.weights ELSE weights
      /\ history' = SubSeq(history, 1, weights') /\ begun' = weights'
      /\ UNCHANGED <<kind, envs, buffer, totalSteps, collected, bestWeights>>
  BY DEF EndPretrain
<1>2. MarlTyped /\ kind = "thor"
  BY <1>1 DEF MarlInv, MarlTyped
<1>3. /\ history \in Seq(Scores) /\ Len(history) = weights /\ weights \in 0..MaxWeights
      /\ bestWeights.weights \in Nat
  BY <1>2 DEF MarlTyped
<1>4. weights' \in 0..weights
  BY <1>1, <1>3 DEF MarlInv, BestIsKept, FirstOfBest
<1>5. /\ history' \in Seq(Scores) /\ Len(history') = weights'
      /\ \A w \in 1..weights' : history'[w] = history[w]
  <2> DEFINE n == weights'
  <2>1. n \in 0..Len(history) /\ history' = SubSeq(history, 1, n)
    BY <1>1, <1>3, <1>4
  <2> HIDE DEF n
  <2>2. SubSeq(history, 1, n) \in Seq(Scores) /\ Len(SubSeq(history, 1, n)) = n
        /\ \A w \in 1..n : SubSeq(history, 1, n)[w] = history[w]
    BY <1>3, <2>1, SubSeqProperties, ElementOfSeq
  <2> QED
    BY <2>1, <2>2 DEF n
<1>6. MarlTyped'
  BY <1>1, <1>2, <1>3, <1>4, <1>5, MarlAssumption DEF MarlTyped
<1>7. StepsAreCounted'
  BY <1>1 DEF MarlInv, StepsAreCounted, Crew
<1>8. bestWeights.weights > 0 => FirstOfBest'
  <2> SUFFICES ASSUME bestWeights.weights > 0 PROVE FirstOfBest'
    OBVIOUS
  <2>1. FirstOfBest /\ weights' = bestWeights.weights
    BY <1>1 DEF MarlInv, BestIsKept
  <2>2. \A w \in 1..(bestWeights.weights - 1) : w \in 1..weights'
    BY <1>3, <2>1
  <2> QED
    BY <1>1, <1>3, <1>5, <2>1, <2>2 DEF FirstOfBest
<1>9. BestIsKept'
  BY <1>1, <1>2, <1>8 DEF MarlInv, BestIsKept
<1> QED
  BY <1>6, <1>7, <1>9 DEF MarlInv

(* In ml/marl an advantage is of the rest of its episode alone and every   *)
(* step of an environment is counted once; train_marl_full.py rewards what *)
(* it has shown; pretraining and ray_trainer.py keep the first of the best *)
(* networks, and training goes on from that of pretraining, whatever the   *)
(* batches, scores and episodes.                                           *)
THEOREM PoliciesAreAlwaysSound == MarlSpec => []PoliciesSound
<1>1. MarlInv /\ [MarlNext]_marlVars => MarlInv'
  <2> SUFFICES ASSUME MarlInv, [MarlNext]_marlVars PROVE MarlInv'
    OBVIOUS
  <2>1. ASSUME NEW a \in Crew, NEW attack \in BOOLEAN, NEW action \in Actions, Act(a, action, attack)
        PROVE  MarlInv'
    BY <2>1, ActKeepsMarl
  <2>2. ASSUME NEW a \in Crew, NEW attack \in BOOLEAN, ResetEnv(a, attack)
        PROVE  MarlInv'
    BY <2>2, ResetEnvKeepsMarl
  <2>3. ASSUME NEW score \in Scores, UpdatePolicy(score) \/ PretrainEpoch(score)
        PROVE  MarlInv'
    BY <2>3, UpdatePolicyKeepsMarl, PretrainKeepsMarl
  <2>4. CASE EndPretrain
    BY <2>4, EndPretrainKeepsMarl
  <2>5. CASE UNCHANGED marlVars
    BY <2>5
    DEF marlVars, networks, MarlInv, MarlTyped, StepsAreCounted, BestIsKept, TopsHistory, FirstOfBest,
        Crew
  <2> QED
    BY <2>1, <2>2, <2>3, <2>4, <2>5 DEF MarlNext
<1> QED
  BY MarlInvInit, MarlInvIsSound, <1>1, PTL DEF MarlSpec

-----------------------------------------------------------------------------
(* OnlineLearner.                                                          *)

Graded == [p : Nat, flaw : Flaws]

LearnerTyped ==
  /\ phase \in {"off", "drain", "update", "evaluate", "save", "dead"}
  /\ inbox \in Seq(Feedback) /\ Len(inbox) <= QueueMax
  /\ replay \in Seq(Graded) /\ Len(replay) <= Capacity
  /\ step \in 0..MaxLearnSteps
  /\ best \in Nat /\ runNo \in Nat \ {0} /\ found \subseteq Nat
  /\ disk \in [acc : Nat, run : Nat, whole : BOOLEAN]

(* What is on disk is of this process or of an earlier one; what is about  *)
(* to be saved is the best so far, and not there yet.                      *)
SavedInvariant ==
  /\ disk.run <= runNo
  /\ \A acc \in found : acc <= best
  /\ best > 0 => best \in found
  /\ best > 0 /\ phase \notin {"save", "dead"} => disk = Checkpoint(TRUE)
  /\ phase = "save" => best > 0 /\ disk # Checkpoint(TRUE)
  /\ disk.run = runNo /\ disk.whole => disk.acc \in found

DeadForAReason == phase = "dead" => KilledForAReason

LearnerInv == LearnerTyped /\ SavedInvariant /\ DeadForAReason

(* A priority is a natural number.                                         *)
LEMMA PriorityIsNatural ==
  ASSUME NEW r \in Feedback
  PROVE  Priority(r) \in Nat
<1>1. r.reward \in Int
  BY LearnerAssumption
<1>2. (IF r.reward < 0 THEN -r.reward ELSE r.reward) \in Nat
  BY <1>1
<1>3. \A m \in Nat : m * (IF r.confirmed THEN 3 ELSE 2) * (IF r.threat THEN 2 ELSE 1) \in Nat
  OBVIOUS
<1> QED
  BY <1>2, <1>3 DEF Priority

(* Sorting only puts the records into another order.                       *)
LEMMA SortedOrders ==
  ASSUME NEW s \in Seq(Graded), NEW q \in SortedBy(s)
  PROVE  q \in [1..Len(s) -> 1..Len(s)]
<1> DEFINE P == 1..Len(s)
           R == Ascending(s)
<1>a. Len(s) \in Nat
  BY LenProperties
<1>1. \A i \in P : s[i].p \in Nat
  <2>1. \A i \in 1..Len(s) : s[i] \in Graded
    BY ElementOfSeq
  <2>2. \A g \in Graded : g.p \in Nat
    BY DEF Graded
  <2> QED
    BY <2>1, <2>2
<1>2. IsFiniteSet(P) /\ Cardinality(P) = Len(s)
  BY <1>a, FS_Interval
<1>3. Orders(R, P)
  <2>1. \A x, y \in P : <<x, y>> \in R <=> s[x].p < s[y].p \/ (s[x].p = s[y].p /\ x < y)
    BY DEF Ascending
  <2>2. \A x \in P : x \in Nat /\ s[x].p \in Nat
    BY <1>a, <1>1
  <2> DEFINE v(x) == s[x].p
  <2>a. /\ \A x, y \in P : <<x, y>> \in R <=> v(x) < v(y) \/ (v(x) = v(y) /\ x < y)
        /\ \A x \in P : x \in Nat /\ v(x) \in Nat
    BY <2>1, <2>2
  <2> HIDE DEF P, R, v
  <2>3. \A x \in P : <<x, x>> \notin R
    BY <2>a
  <2>4. \A x, y \in P : x = y \/ <<x, y>> \in R \/ <<y, x>> \in R
    <3> SUFFICES ASSUME NEW x \in P, NEW y \in P PROVE x = y \/ <<x, y>> \in R \/ <<y, x>> \in R
      OBVIOUS
    <3>1. v(x) < v(y) \/ v(y) < v(x) \/ (v(x) = v(y) /\ (x < y \/ y < x \/ x = y))
      BY <2>a
    <3> QED
      BY <3>1, <2>a
  <2>5. \A x, y, z \in P : <<x, y>> \in R /\ <<y, z>> \in R => <<x, z>> \in R
    <3> SUFFICES ASSUME NEW x \in P, NEW y \in P, NEW z \in P, <<x, y>> \in R, <<y, z>> \in R
                 PROVE  <<x, z>> \in R
      OBVIOUS
    <3>1. v(x) < v(z) \/ (v(x) = v(z) /\ x < z)
      <4>1. v(x) < v(y) \/ (v(x) = v(y) /\ x < y)
        BY <2>a
      <4>2. v(y) < v(z) \/ (v(y) = v(z) /\ y < z)
        BY <2>a
      <4>3. x \in Nat /\ y \in Nat /\ z \in Nat /\ v(x) \in Nat /\ v(y) \in Nat /\ v(z) \in Nat
        BY <2>a
      <4> QED
        BY <4>1, <4>2, <4>3
    <3> QED
      BY <3>1, <2>a
  <2> QED
    BY <2>3, <2>4, <2>5 DEF Orders
<1> HIDE DEF P, R
<1>4. Arranged(P, R) \in [1..Len(s) -> P]
  BY <1>2, <1>3, ArrangedInOrder
<1> QED
  BY <1>4 DEF SortedBy, P, R

(* add() keeps the buffer within its capacity.                             *)
LEMMA StoredFits ==
  ASSUME LearnerTyped, NEW record \in Graded, NEW r \in Stored(record)
  PROVE  r \in Seq(Graded) /\ Len(r) <= Capacity
<1> DEFINE all == Append(replay, record)
           low == Len(all) \div DropDivisor
<1>1. all \in Seq(Graded) /\ Len(all) = Len(replay) + 1 /\ Len(replay) \in Nat /\ Len(replay) <= Capacity
  BY DEF LearnerTyped
<1> HIDE DEF all
<1>2. CASE Len(all) <= Capacity
  BY <1>1, <1>2 DEF Stored, all
<1>3. CASE Len(all) > Capacity
  <2>1. Len(all) = Capacity + 1 /\ Capacity \in Nat /\ DropDivisor \in 1..(Capacity + 1)
    BY <1>1, <1>3, LearnerAssumption
  <2>2. low \in Nat /\ low >= 1 /\ low <= Len(all)
    <3> DEFINE n == Capacity + 1
    <3>1. n \in Nat \ {0} /\ DropDivisor \in 1..n /\ Len(all) = n
      BY <2>1
    <3> HIDE DEF n
    <3> DEFINE u == DropDivisor
               q == n \div u
    <3>2. q \in Nat /\ n < (q + 1) * u
      BY <3>1
    <3> HIDE DEF q
    <3>3. q # 0
      BY <3>1, <3>2
    <3>4. q <= n
      <4>1. n <= u * n
        BY <3>1
      <4> QED
        BY <4>1, <3>1, DivBounded DEF q
    <3> QED
      BY <3>1, <3>2, <3>3, <3>4 DEF q
  <2>3. PICK q \in SortedBy(all) : r = [n \in 1..(Len(all) - low) |-> all[q[low + n]]]
    <3>1. r \in {[n \in 1..(Len(all) - low) |-> all[q[low + n]]] : q \in SortedBy(all)}
      <4>1. ~(Len(all) <= Capacity)
        BY <2>1, <1>3
      <4> QED
        BY <4>1 DEF Stored, all, low
    <3> HIDE DEF low
    <3> QED
      BY <3>1
  <2> HIDE DEF low
  <2>4. q \in [1..Len(all) -> 1..Len(all)]
    BY <1>1, SortedOrders
  <2>5. Len(all) - low \in Nat /\ \A n \in 1..(Len(all) - low) : low + n \in 1..Len(all)
    BY <2>1, <2>2
  <2>6. \A n \in 1..(Len(all) - low) : all[q[low + n]] \in Graded
    BY <1>1, <2>4, <2>5
  <2>7. r \in Seq(Graded) /\ Len(r) = Len(all) - low
    BY <2>3, <2>5, <2>6
  <2> QED
    BY <2>1, <2>2, <2>7
<1> QED
  BY <1>1, <1>2, <1>3, LearnerAssumption

(* A sample raises only for a record without a probability or with a flaw. *)
LEMMA RaisesForAReason ==
  ASSUME LearnerTyped, NEW flaws, "none" \notin flaws, SampleRaises(flaws)
  PROVE  \E k \in DOMAIN replay : replay[k].p = 0 \/ replay[k].flaw # "none"
<1> SUFFICES ASSUME \A k \in DOMAIN replay : replay[k].p # 0 /\ replay[k].flaw = "none"
             PROVE  FALSE
  OBVIOUS
<1> DEFINE n == Len(replay)
           m == Min({SampleMax, Len(replay)})
<1>1. replay \in Seq(Graded) /\ n \in Nat /\ DOMAIN replay = 1..n /\ \A k \in 1..n : replay[k].p \in Nat
  <2>1. replay \in Seq(Graded)
    BY DEF LearnerTyped
  <2>2. n \in Nat /\ DOMAIN replay = 1..n /\ \A k \in 1..n : replay[k] \in Graded
    BY <2>1, LenProperties, ElementOfSeq
  <2>3. \A g \in Graded : g.p \in Nat
    BY DEF Graded
  <2> QED
    BY <2>1, <2>2, <2>3
<1>2. {k \in DOMAIN replay : replay[k].p > 0} = 1..n
  BY <1>1
<1>3. m \in 0..n
  <2>1. {SampleMax, Len(replay)} \in SUBSET Nat /\ {SampleMax, Len(replay)} # {}
    BY <1>1, LearnerAssumption
  <2> QED
    BY <2>1, SmallestOf
<1> HIDE DEF m
<1>4. Comparable(replay)
  BY DEF Comparable
<1>5. 1..m \in Draws
  <2>1. Cardinality(1..m) = m
    BY <1>3, FS_Interval
  <2>2. 1..m \in SUBSET (1..n)
    BY <1>1, <1>3
  <2> HIDE DEF n
  <2> QED
    BY <2>1, <2>2, <1>2, <1>4 DEF Draws, m
<1>6. PICK D \in Draws : Has(D, flaws)
  BY <1>5 DEF SampleRaises
<1>7. PICK k \in DOMAIN replay : replay[k].flaw \in flaws
  BY <1>6 DEF Has, Draws
<1> QED
  BY <1>7

LEMMA LearnerInvInit == LearnerInit => LearnerInv
<1> SUFFICES ASSUME LearnerInit PROVE LearnerInv
  OBVIOUS
<1>1. disk \in [acc : Nat, run : {0}, whole : BOOLEAN] /\ disk.run = 0
  <2>1. Accuracies \cup {0} \subseteq Nat
    BY LearnerAssumption
  <2> QED
    BY <2>1 DEF LearnerInit
<1> QED
  BY <1>1, LearnerAssumption DEF LearnerInit, LearnerInv, LearnerTyped, SavedInvariant, DeadForAReason

(* A step that touches neither what is saved nor the buffer.               *)
LEMMA StillLearner ==
  ASSUME LearnerInv, UNCHANGED <<replay, best, disk, found, runNo>>,
         inbox' \in Seq(Feedback), Len(inbox') <= QueueMax, step' \in 0..MaxLearnSteps,
         phase \notin {"save", "dead"}, phase' \in {"off", "drain", "update", "evaluate"}
  PROVE  LearnerInv'
<1>1. Checkpoint(TRUE)' = Checkpoint(TRUE)
  BY DEF Checkpoint
<1> QED
  BY <1>1 DEF LearnerInv, LearnerTyped, SavedInvariant, DeadForAReason

(* An exception for a reason ends the loop.                                *)
LEMMA RaisedKeepsLearner ==
  ASSUME LearnerInv, Raised, KilledForAReason
  PROVE  LearnerInv'
<1>1. Checkpoint(TRUE)' = Checkpoint(TRUE)
  BY DEF Raised, Checkpoint
<1>2. KilledForAReason'
  BY <1>1 DEF Raised, KilledForAReason
<1> QED
  BY <1>1, <1>2 DEF Raised, LearnerInv, LearnerTyped, SavedInvariant, DeadForAReason

(* The records come in and are drained.                                    *)
LEMMA RecordsKeepLearner ==
  ASSUME LearnerInv, RunLearner \/ (\E r \in Feedback : Offer(r)) \/ Drain \/ DrainEnds \/ Stop
  PROVE  LearnerInv'
<1>a. Checkpoint(TRUE)' = Checkpoint(TRUE) <=> best' = best /\ runNo' = runNo
  BY DEF Checkpoint
<1>b. LearnerTyped /\ SavedInvariant /\ DeadForAReason
  BY DEF LearnerInv
<1>1. CASE RunLearner
  <2>1. CASE ~disk.whole /\ Raised
    BY <2>1, RaisedKeepsLearner DEF KilledForAReason
  <2>2. CASE ~(~disk.whole /\ Raised)
    BY <1>1, <2>2, <1>b, StillLearner DEF RunLearner, LearnerTyped
  <2> QED
    BY <2>1, <2>2
<1>2. ASSUME inbox' \in Seq(Feedback), Len(inbox') <= QueueMax,
             UNCHANGED <<phase, replay, step, best, disk, found, runNo>>
      PROVE  LearnerInv'
  <2>1. KilledForAReason' <=> KilledForAReason
    BY <1>2, <1>a DEF KilledForAReason
  <2> QED
    BY <1>2, <2>1, <1>a, <1>b DEF LearnerInv, LearnerTyped, SavedInvariant, DeadForAReason
<1>3. CASE \E r \in Feedback : Offer(r)
  <2> PICK r \in Feedback : Offer(r)
    BY <1>3
  <2>1. inbox' \in Seq(Feedback) /\ Len(inbox') <= QueueMax
    BY <1>b, LearnerAssumption DEF Offer, LearnerTyped
  <2> QED
    BY <2>1, <1>2 DEF Offer
<1>4. CASE Drain
  <2> DEFINE record == [p |-> Priority(Head(inbox)), flaw |-> Head(inbox).flaw]
  <2>1. Head(inbox) \in Feedback /\ Tail(inbox) \in Seq(Feedback) /\ Len(Tail(inbox)) <= QueueMax
    <3>1. inbox \in Seq(Feedback) /\ inbox # <<>> /\ Len(inbox) <= QueueMax
      BY <1>4, <1>b DEF Drain, LearnerTyped
    <3> QED
      BY <3>1, FirstAndRest, LearnerAssumption
  <2>2. record \in Graded
    <3>1. Head(inbox).flaw \in Flaws
      BY <2>1, LearnerAssumption
    <3> QED
      BY <2>1, <3>1, PriorityIsNatural DEF Graded
  <2>3. /\ replay' \in Stored(record) /\ phase = "drain" /\ inbox' = Tail(inbox)
        /\ UNCHANGED <<phase, step, best, disk, found, runNo>>
    BY <1>4 DEF Drain
  <2> HIDE DEF record
  <2>4. replay' \in Seq(Graded) /\ Len(replay') <= Capacity
    BY <1>b, <2>2, <2>3, StoredFits
  <2> QED
    BY <2>1, <2>3, <2>4, <1>a, <1>b DEF LearnerInv, LearnerTyped, SavedInvariant, DeadForAReason
<1>5. CASE DrainEnds
  BY <1>5, <1>b, StillLearner DEF DrainEnds, LearnerTyped
<1>6. CASE Stop
  BY <1>6, <1>2, <1>b DEF Stop, LearnerTyped
<1> QED
  BY <1>1, <1>3, <1>4, <1>5, <1>6

LEMMA UpdateKeepsLearner ==
  ASSUME LearnerInv, Update
  PROVE  LearnerInv'
<1>1. LearnerTyped
  BY DEF LearnerInv
<1>2. CASE SampleRaises({"features", "action"}) /\ Raised
  BY <1>1, <1>2, RaisesForAReason, RaisedKeepsLearner DEF KilledForAReason
<1>3. CASE ~(SampleRaises({"features", "action"}) /\ Raised)
  BY <1>1, <1>3, StillLearner DEF Update, LearnerTyped
<1> QED
  BY <1>2, <1>3

LEMMA EvaluateKeepsLearner ==
  ASSUME LearnerInv, Evaluate
  PROVE  LearnerInv'
<1>1. LearnerTyped /\ SavedInvariant /\ DeadForAReason /\ phase = "evaluate"
  BY DEF LearnerInv, Evaluate
<1>2. CASE SampleRaises({"features"}) /\ Raised
  BY <1>1, <1>2, RaisesForAReason, RaisedKeepsLearner DEF KilledForAReason
<1>3. ASSUME NextTurn, UNCHANGED <<disk, found>>
      PROVE  LearnerInv'
  BY <1>1, <1>3, LearnerAssumption, StillLearner DEF NextTurn, LearnerTyped
<1>4. ASSUME NEW acc \in Accuracies, found' = found \cup {acc}, ~Improved(acc), NextTurn,
             UNCHANGED disk
      PROVE  LearnerInv'
  <2>1. Checkpoint(TRUE)' = Checkpoint(TRUE) /\ acc \in Nat /\ acc <= best
    BY <1>1, <1>4, LearnerAssumption DEF NextTurn, Checkpoint, Improved, LearnerTyped
  <2>2. LearnerTyped'
    BY <1>1, <1>4, <2>1, LearnerAssumption DEF NextTurn, LearnerTyped
  <2> QED
    BY <1>1, <1>4, <2>1, <2>2 DEF NextTurn, LearnerInv, SavedInvariant, DeadForAReason
<1>5. ASSUME NEW acc \in Accuracies, found' = found \cup {acc}, Improved(acc),
             phase' = "save", best' = acc,
             UNCHANGED <<running, inbox, drained, replay, step, disk, runNo>>
      PROVE  LearnerInv'
  <2>1. acc \in Nat /\ best \in Nat /\ acc > best /\ found \subseteq Nat
    BY <1>1, <1>5, LearnerAssumption DEF LearnerTyped, Improved
  <2>2. LearnerTyped'
    BY <1>1, <1>5, <2>1 DEF LearnerTyped
  <2>3. Checkpoint(TRUE)' = [acc |-> acc, run |-> runNo, whole |-> TRUE]
    <3>1. best' = acc /\ runNo' = runNo
      BY <1>5
    <3> QED
      BY <3>1 DEF Checkpoint
  <2>4. disk # Checkpoint(TRUE)'
    <3>1. /\ \A a \in found : a <= best
          /\ disk.run = runNo /\ disk.whole => disk.acc \in found
      BY <1>1 DEF SavedInvariant
    <3>2. acc \notin found
      BY <2>1, <3>1
    <3>3. PICK c : c = Checkpoint(TRUE)'
      OBVIOUS
    <3>4. c = [acc |-> acc, run |-> runNo, whole |-> TRUE]
      BY <2>3, <3>3, Zenon
    <3>5. c.acc = acc /\ c.run = runNo /\ c.whole = TRUE
      BY <3>4
    <3> QED
      BY <3>1, <3>2, <3>3, <3>5
  <2>5. \A a \in found' : a <= best'
    BY <1>1, <1>5, <2>1 DEF SavedInvariant
  <2>6. disk'.run = runNo' /\ disk'.whole => disk'.acc \in found'
    <3>1. disk.run = runNo /\ disk.whole => disk.acc \in found
      BY <1>1 DEF SavedInvariant
    <3> QED
      BY <1>5, <3>1
  <2>7. disk'.run <= runNo' /\ best' > 0 /\ best' \in found'
    BY <1>1, <1>5, <2>1 DEF SavedInvariant
  <2>8. disk' # Checkpoint(TRUE)' /\ phase' = "save"
    BY <1>5, <2>4
  <2>9. SavedInvariant'
    BY <2>5, <2>6, <2>7, <2>8 DEF SavedInvariant
  <2> QED
    BY <2>2, <2>8, <2>9 DEF LearnerInv, DeadForAReason
<1> QED
  BY <1>2, <1>3, <1>4, <1>5 DEF Evaluate

LEMMA SaveKeepsLearner ==
  ASSUME LearnerInv, Save
  PROVE  LearnerInv'
<1>1. LearnerTyped /\ SavedInvariant /\ phase = "save" /\ UNCHANGED found
  BY DEF LearnerInv, Save
<1>2. PICK c, d : c = Checkpoint(TRUE) /\ d = Checkpoint(FALSE)
  OBVIOUS
<1>3. /\ c = [acc |-> best, run |-> runNo, whole |-> TRUE]
      /\ d = [acc |-> best, run |-> runNo, whole |-> FALSE]
      /\ best \in Nat /\ runNo \in Nat
  BY <1>1, <1>2 DEF Checkpoint, LearnerTyped
<1>4. /\ c \in [acc : Nat, run : Nat, whole : BOOLEAN] /\ c.acc = best /\ c.run = runNo
      /\ d \in [acc : Nat, run : Nat, whole : BOOLEAN] /\ d.run = runNo /\ d.whole = FALSE
      /\ c.whole = TRUE
  BY <1>3
<1>5. d # c
  BY <1>4
<1>6. /\ best > 0 /\ best \in found /\ disk # c /\ disk.run <= runNo
      /\ \A acc \in found : acc <= best
      /\ disk.run = runNo /\ disk.whole => disk.acc \in found
  BY <1>1, <1>2 DEF SavedInvariant
<1>7. CASE NextTurn /\ disk' = Checkpoint(TRUE)
  <2>1. Checkpoint(TRUE)' = Checkpoint(TRUE)
    BY <1>7 DEF NextTurn, Checkpoint
  <2>2. disk' = c /\ Checkpoint(TRUE)' = c
    BY <1>2, <1>7, <2>1
  <2>3. LearnerTyped'
    <3>1. disk' \in [acc : Nat, run : Nat, whole : BOOLEAN]
      BY <1>4, <2>2
    <3>2. NextTurn /\ LearnerTyped /\ found' = found
      BY <1>1, <1>7
    <3> QED
      BY <3>1, <3>2, LearnerAssumption DEF NextTurn, LearnerTyped
  <2>4. /\ phase' \notin {"save", "dead"} /\ best' = best /\ runNo' = runNo /\ found' = found
    BY <1>1, <1>7 DEF NextTurn
  <2>5. disk'.run <= runNo' /\ disk'.acc \in found'
    BY <1>3, <1>4, <1>6, <2>2, <2>4
  <2>6. SavedInvariant'
    BY <1>6, <2>2, <2>4, <2>5 DEF SavedInvariant
  <2> QED
    BY <2>3, <2>4, <2>6 DEF LearnerInv, DeadForAReason
<1>8. CASE /\ phase' = "dead" /\ disk' \in {disk, Checkpoint(FALSE)}
           /\ UNCHANGED <<running, inbox, drained, replay, step, best, runNo>>
  <2>1. Checkpoint(TRUE)' = Checkpoint(TRUE)
    BY <1>8 DEF Checkpoint
  <2>2. Checkpoint(TRUE)' = c /\ disk' \in {disk, d}
    BY <1>2, <1>8, <2>1
  <2>3. LearnerTyped'
    BY <1>1, <1>4, <1>8, <2>2 DEF LearnerTyped
  <2>4. disk' # Checkpoint(TRUE)' /\ best' > 0
    BY <1>5, <1>6, <1>8, <2>2
  <2>5. disk'.run <= runNo' /\ (disk'.run = runNo' /\ disk'.whole => disk'.acc \in found')
    <3>1. CASE disk' = disk
      BY <1>1, <1>6, <1>8, <3>1
    <3>2. CASE disk' = d
      BY <1>3, <1>4, <1>8, <3>2
    <3> QED
      BY <2>2, <3>1, <3>2
  <2>6. phase' = "dead" /\ best' = best /\ found' = found
    BY <1>1, <1>8
  <2>7. SavedInvariant'
    BY <1>6, <2>5, <2>6 DEF SavedInvariant
  <2>8. DeadForAReason'
    BY <2>4 DEF DeadForAReason, KilledForAReason
  <2> QED
    BY <2>3, <2>7, <2>8 DEF LearnerInv
<1> QED
  BY <1>7, <1>8 DEF Save

LEMMA RestartKeepsLearner ==
  ASSUME LearnerInv, Restart
  PROVE  LearnerInv'
<1>1. LearnerTyped /\ disk.run <= runNo /\ runNo \in Nat \ {0} /\ best \in Nat
      /\ disk \in [acc : Nat, run : Nat, whole : BOOLEAN]
  BY DEF LearnerInv, LearnerTyped, SavedInvariant
<1>2. PICK d : d = Checkpoint(FALSE)
  OBVIOUS
<1>3. d \in [acc : Nat, run : Nat, whole : BOOLEAN] /\ d.run = runNo
  BY <1>1, <1>2 DEF Checkpoint
<1>4. disk' = disk \/ disk' = d
  BY <1>2 DEF Restart
<1>5. disk' \in [acc : Nat, run : Nat, whole : BOOLEAN] /\ disk'.run <= runNo
  BY <1>1, <1>3, <1>4
<1>6. /\ runNo' = runNo + 1 /\ phase' = "off" /\ best' = 0 /\ found' = {}
      /\ inbox' = <<>> /\ replay' = <<>> /\ step' = 0
  BY DEF Restart
<1>7. disk'.run # runNo' /\ disk'.run <= runNo' /\ runNo' \in Nat \ {0}
  BY <1>1, <1>5, <1>6
<1>8. LearnerTyped'
  BY <1>5, <1>6, <1>7, LearnerAssumption DEF LearnerTyped
<1>9. SavedInvariant' /\ DeadForAReason'
  BY <1>6, <1>7 DEF SavedInvariant, DeadForAReason
<1> QED
  BY <1>8, <1>9 DEF LearnerInv

(* A checkpoint of one process only improves and is the best that was      *)
(* found unless saving it killed the loop, the buffer fits, and the loop   *)
(* is killed only by a record without reward or with a flaw, by a torn     *)
(* file or by a failed save: OnlineLearner of online_learning.py, for any  *)
(* feedback, capacities and frequencies.                                   *)
THEOREM CheckpointAlwaysImproves == LearnerSpec => [](LearnerTypeOK /\ CheckpointImproves)
<1>1. LearnerInv /\ [LearnerNext]_learnerVars => LearnerInv'
  <2> SUFFICES ASSUME LearnerInv, [LearnerNext]_learnerVars PROVE LearnerInv'
    OBVIOUS
  <2>1. CASE LearnerNext
    BY <2>1, RecordsKeepLearner, UpdateKeepsLearner, EvaluateKeepsLearner, SaveKeepsLearner,
       RestartKeepsLearner DEF LearnerNext
  <2>2. CASE UNCHANGED learnerVars
    <3>1. KilledForAReason' <=> KilledForAReason
      BY <2>2 DEF learnerVars, KilledForAReason, Checkpoint
    <3>2. Checkpoint(TRUE)' = Checkpoint(TRUE)
      BY <2>2 DEF learnerVars, Checkpoint
    <3> QED
      BY <2>2, <3>1, <3>2 DEF learnerVars, LearnerInv, LearnerTyped, SavedInvariant, DeadForAReason
  <2> QED
    BY <2>1, <2>2
<1>2. LearnerInv => LearnerTypeOK /\ CheckpointImproves
  BY DEF LearnerInv, LearnerTyped, SavedInvariant, DeadForAReason, LearnerTypeOK, CheckpointImproves
<1> QED
  BY LearnerInvInit, <1>1, <1>2, PTL DEF LearnerSpec

-----------------------------------------------------------------------------
(* FeedbackLoop.                                                           *)

LoopTyped ==
  /\ second \in 0..MaxSeconds /\ samples \in 0..MaxSamples
  /\ feedbackBuffer \in Seq(1..samples)
  /\ jsonl \in [0..MaxSeconds -> Seq(1..samples)]
  /\ reused \in BOOLEAN /\ crashes \in Nat
  /\ fresh \in Nat /\ replayed \in Nat
  /\ updated \in Nat /\ savedAt \in Nat /\ savedAt <= updated
  /\ modelFile \in {"none", "whole", "torn"}
  /\ {trainerUp, infoOn, saveFailed} \subseteq BOOLEAN

(* Every sample is in a file or in the buffer.                             *)
NothingDropped ==
  crashes = 0 /\ ~reused => \A n \in 1..samples : n \in Filed \/ n \in ToSet(feedbackBuffer)

(* Where saving goes well, the steps since the last checkpoint are the     *)
(* entries of the metrics since the last multiple of SaveEvery.            *)
UnsavedAreLast ==
  /\ metrics \in 0..MetricsMax
  /\ ~infoOn /\ ~saveFailed =>
       /\ unsaved \in 0..(SaveEvery - 1)
       /\ \E q \in Nat : metrics = q * SaveEvery + unsaved

(* Where INFO is not logged, a train step clears the new samples; only a   *)
(* torn file keeps the trainer down there.                                 *)
TrainerWorks ==
  /\ ~infoOn => fresh < TrainEvery
  /\ ~trainerUp => modelFile = "torn" \/ infoOn

LoopInv == LoopTyped /\ NothingDropped /\ UnsavedAreLast /\ TrainerWorks

LEMMA ModOfMultiple ==
  ASSUME NEW S \in Nat \ {0}, NEW q \in Nat, NEW u \in 0..(S - 1)
  PROVE  (q * S + u) % S = u
<1> DEFINE a == q * S + u
           d == a \div S
           m == a % S
<1>1. a \in Nat
  OBVIOUS
<1> HIDE DEF a
<1>2. d \in Nat /\ m \in 0..(S - 1) /\ a = S * d + m
  BY <1>1
<1> HIDE DEF d, m
<1>3. q * S + u = S * d + m
  BY <1>2 DEF a
<1>4. ~(d >= q + 1)
  <2> SUFFICES ASSUME d >= q + 1 PROVE FALSE
    OBVIOUS
  <2>1. S * d >= S * (q + 1)
    BY <1>2
  <2> QED
    BY <2>1, <1>2, <1>3
<1>5. ~(q >= d + 1)
  <2> SUFFICES ASSUME q >= d + 1 PROVE FALSE
    OBVIOUS
  <2>1. S * q >= S * (d + 1)
    BY <1>2
  <2> QED
    BY <2>1, <1>2, <1>3
<1>6. d = q
  BY <1>2, <1>4, <1>5
<1> QED
  BY <1>2, <1>3, <1>6 DEF a, m

LEMMA DivideEvenly ==
  ASSUME NEW S \in Nat \ {0}, NEW a \in Nat, a % S = 0
  PROVE  a = (a \div S) * S + 0 /\ a \div S \in Nat
<1> DEFINE d == a \div S
           m == a % S
<1>1. d \in Nat /\ m \in 0..(S - 1) /\ a = S * d + m
  OBVIOUS
<1>2. m = 0
  OBVIOUS
<1> HIDE DEF d, m
<1> QED
  BY <1>1, <1>2 DEF d

LEMMA LoopInvInit == LoopInit => LoopInv
<1> SUFFICES ASSUME LoopInit PROVE LoopInv
  OBVIOUS
<1>1. LoopTyped
  BY LoopAssumption DEF LoopInit, LoopTyped
<1>2. NothingDropped
  BY DEF LoopInit, NothingDropped
<1>3. UnsavedAreLast
  <2>1. 0 = 0 * SaveEvery + 0
    BY LoopAssumption
  <2> QED
    BY <2>1, LoopAssumption DEF LoopInit, UnsavedAreLast
<1>4. TrainerWorks
  BY LoopAssumption DEF LoopInit, TrainerWorks
<1> QED
  BY <1>1, <1>2, <1>3, <1>4 DEF LoopInv

(* What is written is in the files; what was there is, too, unless a file  *)
(* was written over.                                                       *)
LEMMA WriteFiles ==
  ASSUME LoopTyped, NEW m \in 0..MaxSamples, samples <= m, NEW lines \in Seq(1..m), Write(lines)
  PROVE  /\ jsonl' \in [0..MaxSeconds -> Seq(1..m)] /\ reused' \in BOOLEAN
         /\ ToSet(lines) \subseteq Filed'
         /\ ~reused' => ~reused /\ Filed \subseteq Filed'
<1>1. jsonl \in [0..MaxSeconds -> Seq(1..m)] /\ second \in 0..MaxSeconds
  <2>1. 1..samples \subseteq 1..m
    BY DEF LoopTyped
  <2>2. \A t \in Seq(1..samples) : t \in Seq(1..m)
    BY <2>1, WiderSeq
  <2> QED
    BY <2>2 DEF LoopTyped
<1>2. jsonl' = [jsonl EXCEPT ![second] = lines] /\ reused' = (reused \/ jsonl[second] # <<>>)
  BY DEF Write
<1>3. jsonl' \in [0..MaxSeconds -> Seq(1..m)]
  BY <1>1, <1>2
<1>4. jsonl'[second] = lines /\ \A s \in 0..MaxSeconds : s # second => jsonl'[s] = jsonl[s]
  BY <1>1, <1>2
<1>5. DOMAIN jsonl = 0..MaxSeconds /\ DOMAIN jsonl' = 0..MaxSeconds
  BY <1>1, <1>3
<1>6. ToSet(lines) \subseteq Filed'
  BY <1>1, <1>4, <1>5 DEF Filed
<1>7. ASSUME ~reused' PROVE Filed \subseteq Filed'
  <2> SUFFICES ASSUME NEW x \in Filed PROVE x \in Filed'
    OBVIOUS
  <2> PICK s \in 0..MaxSeconds : x \in ToSet(jsonl[s])
    BY <1>5 DEF Filed
  <2>1. s # second
    BY <1>7, <1>2, EmptyHasNone
  <2> QED
    BY <2>1, <1>4, <1>5 DEF Filed
<1> QED
  BY <1>2, <1>3, <1>6, <1>7 DEF LoopTyped

LEMMA AddFeedbackKeepsLoop ==
  ASSUME LoopInv, AddFeedback
  PROVE  LoopInv'
<1> DEFINE m == samples + 1
           grown == Append(feedbackBuffer, m)
<1>1. /\ samples \in Nat /\ m \in 1..MaxSamples /\ m \in 0..MaxSamples /\ samples <= m /\ samples' = m
      /\ feedbackBuffer \in Seq(1..m) /\ m \in 1..m
      /\ UNCHANGED <<second, retrain, trainer, crashes>>
  <2>1. samples \in Nat /\ m \in 1..MaxSamples /\ samples' = m /\ feedbackBuffer \in Seq(1..samples)
    BY LoopAssumption DEF AddFeedback, LoopInv, LoopTyped
  <2>2. 1..samples \subseteq 1..m
    BY <2>1
  <2> QED
    BY <2>1, <2>2, WiderSeq DEF AddFeedback
<1>2. grown \in Seq(1..m) /\ ToSet(grown) = ToSet(feedbackBuffer) \cup {m}
      /\ Len(grown) = Len(feedbackBuffer) + 1
  BY <1>1, ElementsOfAppend
<1>3. UnsavedAreLast' /\ TrainerWorks'
  BY <1>1 DEF LoopInv, UnsavedAreLast, TrainerWorks, trainer, process
<1>4. ASSUME feedbackBuffer' \in Seq(1..m), jsonl' \in [0..MaxSeconds -> Seq(1..m)], reused' \in BOOLEAN,
             ~reused' => /\ ~reused /\ Filed \subseteq Filed'
                         /\ ToSet(grown) \subseteq Filed' \cup ToSet(feedbackBuffer')
      PROVE  LoopInv'
  <2>1. LoopTyped'
    <3>1. samples' = m /\ m \in 0..MaxSamples
      BY <1>1
    <3>2. /\ UNCHANGED <<second, fresh, replayed, updated, savedAt, crashes>>
          /\ UNCHANGED <<modelFile, trainerUp, infoOn, saveFailed>>
      BY <1>1 DEF trainer, process
    <3> HIDE DEF m, grown
    <3>3. feedbackBuffer' \in Seq(1..samples') /\ jsonl' \in [0..MaxSeconds -> Seq(1..samples')]
      BY <3>1, <1>4
    <3> QED
      BY <3>1, <3>2, <3>3, <1>4 DEF LoopInv, LoopTyped
  <2>2. NothingDropped'
    <3> SUFFICES ASSUME crashes' = 0, ~reused', NEW n \in 1..m
                 PROVE  n \in Filed' \/ n \in ToSet(feedbackBuffer')
      BY <1>1 DEF NothingDropped
    <3>1. n = m \/ n \in 1..samples
      BY <1>1
    <3>2. n \in Filed \/ n \in ToSet(grown)
      BY <3>1, <1>1, <1>2, <1>4 DEF LoopInv, NothingDropped
    <3> QED
      BY <3>2, <1>4
  <2> QED
    BY <2>1, <2>2, <1>3 DEF LoopInv
<1>5. CASE Len(grown) < BufferSize
  <2>1. feedbackBuffer' = grown /\ jsonl' = jsonl /\ reused' = reused
    BY <1>5 DEF AddFeedback
  <2>2. jsonl \in [0..MaxSeconds -> Seq(1..m)] /\ reused \in BOOLEAN
    <3>1. 1..samples \subseteq 1..m
      BY <1>1
    <3>2. \A t \in Seq(1..samples) : t \in Seq(1..m)
      BY <3>1, WiderSeq
    <3> QED
      BY <3>2 DEF LoopInv, LoopTyped
  <2>3. Filed' = Filed
    BY <2>1 DEF Filed
  <2> HIDE DEF grown
  <2> QED
    BY <2>1, <2>2, <2>3, <1>2, <1>4
<1>6. CASE ~(Len(grown) < BufferSize)
  <2>1. CASE feedbackBuffer' = <<>> /\ Write(grown)
    <3>1. <<>> \in Seq(1..m)
      OBVIOUS
    <3> HIDE DEF grown, m
    <3>2. /\ jsonl' \in [0..MaxSeconds -> Seq(1..m)] /\ reused' \in BOOLEAN
          /\ ToSet(grown) \subseteq Filed'
          /\ ~reused' => ~reused /\ Filed \subseteq Filed'
      BY <2>1, <1>1, <1>2, WriteFiles DEF LoopInv
    <3> QED
      BY <2>1, <3>1, <3>2, <1>4
  <2>2. CASE feedbackBuffer' = grown /\ \E n \in 0..(Len(grown) - 1) : Write(SubSeq(grown, 1, n))
    <3> PICK n \in 0..(Len(grown) - 1) : Write(SubSeq(grown, 1, n))
      BY <2>2
    <3>1. SubSeq(grown, 1, n) \in Seq(1..m)
      <4> DEFINE T == 1..m
      <4>1. grown \in Seq(T) /\ n \in 0..Len(grown)
        BY <1>2
      <4> HIDE DEF grown, T
      <4>2. \A i \in 1..n : grown[i] \in T
        BY <4>1
      <4>3. SubSeq(grown, 1, n) \in Seq(T)
        BY <4>1, <4>2
      <4> QED
        BY <4>3 DEF T
    <3> HIDE DEF grown, m
    <3>2. /\ jsonl' \in [0..MaxSeconds -> Seq(1..m)] /\ reused' \in BOOLEAN
          /\ ~reused' => ~reused /\ Filed \subseteq Filed'
      BY <3>1, <1>1, WriteFiles DEF LoopInv
    <3> QED
      BY <2>2, <3>2, <1>2, <1>4
  <2> QED
    BY <1>6, <2>1, <2>2 DEF AddFeedback
<1> QED
  BY <1>5, <1>6

(* A train step leaves the files of the collector alone, and, where INFO   *)
(* is not logged, a checkpoint is written at every multiple of SaveEvery,  *)
(* and at every step once the metrics are full.                            *)
LEMMA StepKeepsUnsaved ==
  ASSUME LoopInv, UNCHANGED infoOn, metrics' = Cut(metrics + 1),
         IF ~infoOn /\ Cut(metrics + 1) % SaveEvery = 0 THEN SavesModel
         ELSE unsaved' = unsaved + 1 /\ UNCHANGED <<savedAt, modelFile, saveFailed>>
  PROVE  UnsavedAreLast'
<1> DEFINE entries == Cut(metrics + 1)
           saves == entries % SaveEvery = 0
           S == SaveEvery
<1>1. S \in Nat \ {0} /\ MetricsMax \in Nat /\ metrics \in 0..MetricsMax
  BY LoopAssumption DEF LoopInv, UnsavedAreLast
<1>2. entries \in 0..MetricsMax /\ metrics' = entries
  BY <1>1 DEF Cut
<1> SUFFICES ASSUME ~infoOn', ~saveFailed'
             PROVE  unsaved' \in 0..(S - 1) /\ \E q \in Nat : entries = q * S + unsaved'
  BY <1>2 DEF UnsavedAreLast
<1>3. ~infoOn /\ ~saveFailed /\ unsaved' = IF saves THEN 0 ELSE unsaved + 1
  BY DEF SavesModel, LoopInv, LoopTyped
<1> HIDE DEF entries, saves, S
<1>4. PICK q \in Nat : metrics = q * S + unsaved
  BY <1>3 DEF LoopInv, UnsavedAreLast, S
<1>5. unsaved \in 0..(S - 1)
  BY <1>3 DEF LoopInv, UnsavedAreLast, S
<1>6. CASE metrics + 1 > MetricsMax
  <2>1. entries = MetricsMax
    BY <1>6 DEF entries, Cut
  <2>2. saves
    BY <2>1, LoopAssumption DEF saves
  <2>3. MetricsMax = (MetricsMax \div S) * S + 0 /\ MetricsMax \div S \in Nat
    <3>1. MetricsMax % S = 0
      BY LoopAssumption DEF S
    <3> QED
      BY <3>1, <1>1, DivideEvenly
  <2> QED
    BY <2>1, <2>2, <2>3, <1>1, <1>3
<1>7. CASE metrics + 1 <= MetricsMax
  <2>1. entries = metrics + 1
    BY <1>1, <1>7 DEF entries, Cut
  <2>2. CASE unsaved = S - 1
    <3>1. entries = (q + 1) * S + 0 /\ q + 1 \in Nat /\ 0 \in 0..(S - 1)
      BY <2>1, <2>2, <1>1, <1>4
    <3>2. saves
      BY <3>1, <1>1, ModOfMultiple DEF saves, S
    <3> QED
      BY <3>1, <3>2, <1>3
  <2>3. CASE unsaved # S - 1
    <3>1. entries = q * S + (unsaved + 1) /\ unsaved + 1 \in 0..(S - 1)
      BY <2>1, <2>3, <1>1, <1>4, <1>5
    <3>2. (q * S + (unsaved + 1)) % S = unsaved + 1
      BY <3>1, <1>1, ModOfMultiple
    <3>3. ~saves
      <4>1. entries % S = unsaved + 1
        BY <3>1, <3>2, Zenon
      <4> QED
        BY <4>1, <3>1, <1>1, <1>5 DEF saves, S
    <3> QED
      BY <3>1, <3>3, <1>3
  <2> QED
    BY <2>2, <2>3
<1> QED
  BY <1>1, <1>6, <1>7

LEMMA AddSampleKeepsLoop ==
  ASSUME LoopInv, AddSample
  PROVE  LoopInv'
<1> DEFINE known == Min({MiniBatch, replayed + 1})
           learnt == fresh + 1 + (IF known >= MiniBatch THEN MiniBatch ELSE 0)
<1>1. known \in Nat /\ learnt \in Nat
  <2>1. {MiniBatch, replayed + 1} \in SUBSET Nat /\ {MiniBatch, replayed + 1} # {}
    BY LoopAssumption DEF LoopInv, LoopTyped
  <2>2. known \in Nat
    BY <2>1, SmallestOf
  <2> HIDE DEF known
  <2> QED
    BY <2>2, LoopAssumption DEF LoopInv, LoopTyped
<1>2. /\ replayed' = known
      /\ UNCHANGED <<second, samples, feedbackBuffer, jsonl, reused, trainerUp, infoOn, crashes>>
  BY DEF AddSample, collector, process
<1>3. \/ /\ fresh + 1 < TrainEvery /\ fresh' = fresh + 1
         /\ UNCHANGED <<metrics, updated, savedAt, modelFile, unsaved, saveFailed>>
      \/ TrainStep(known)
  BY DEF AddSample
<1>4. TrainStep(known) =>
        /\ metrics' = Cut(metrics + 1) /\ updated' = updated + learnt
        /\ fresh' = IF infoOn THEN fresh + 1 ELSE 0
        /\ IF ~infoOn /\ Cut(metrics + 1) % SaveEvery = 0 THEN SavesModel
           ELSE unsaved' = unsaved + 1 /\ UNCHANGED <<savedAt, modelFile, saveFailed>>
  BY DEF TrainStep
<1> HIDE DEF known, learnt
<1>5. Filed' = Filed
  BY <1>2 DEF Filed
<1>6. NothingDropped'
  BY <1>2, <1>5 DEF LoopInv, NothingDropped
<1>7. LoopTyped /\ TrainerWorks
  BY DEF LoopInv
<1>8. ASSUME /\ fresh + 1 < TrainEvery /\ fresh' = fresh + 1
             /\ UNCHANGED <<metrics, updated, savedAt, modelFile, unsaved, saveFailed>>
      PROVE  LoopInv'
  <2>1. LoopTyped'
    BY <1>1, <1>2, <1>7, <1>8 DEF LoopTyped
  <2>2. UnsavedAreLast' /\ TrainerWorks'
    BY <1>2, <1>7, <1>8 DEF LoopInv, UnsavedAreLast, TrainerWorks
  <2> QED
    BY <2>1, <2>2, <1>6 DEF LoopInv
<1>9. ASSUME TrainStep(known) PROVE LoopInv'
  <2>1. /\ updated' = updated + learnt /\ fresh' = IF infoOn THEN fresh + 1 ELSE 0
        /\ UnsavedAreLast'
    BY <1>2, <1>4, <1>9, StepKeepsUnsaved
  <2>2. \/ UNCHANGED <<savedAt, modelFile, saveFailed>>
        \/ savedAt' = updated' /\ modelFile' = "whole" /\ UNCHANGED saveFailed
        \/ saveFailed' = TRUE /\ modelFile' \in {modelFile, "torn"} /\ UNCHANGED savedAt
    BY <1>4, <1>9 DEF SavesModel
  <2>3. savedAt' \in Nat /\ savedAt' <= updated' /\ updated' \in Nat /\ fresh' \in Nat
    BY <2>1, <2>2, <1>1, <1>7 DEF LoopTyped
  <2>4. modelFile' \in {"none", "whole", "torn"} /\ saveFailed' \in BOOLEAN
    BY <2>2, <1>7 DEF LoopTyped
  <2>5. LoopTyped'
    BY <2>3, <2>4, <1>1, <1>2, <1>7 DEF LoopTyped
  <2>6. trainerUp'
    BY <1>2 DEF AddSample
  <2>7. TrainerWorks'
    BY <2>1, <2>6, <1>2, LoopAssumption DEF TrainerWorks
  <2> QED
    BY <2>1, <2>5, <2>7, <1>6 DEF LoopInv
<1> QED
  BY <1>3, <1>8, <1>9

LEMMA CrashKeepsLoop ==
  ASSUME LoopInv, CrashAndReload
  PROVE  LoopInv'
<1>1. LoopTyped'
  <2>1. infoOn' \in BOOLEAN /\ saveFailed' = FALSE
    BY DEF CrashAndReload
  <2>2. trainerUp' \in BOOLEAN
    <3>1. trainerUp' = (modelFile = "none" \/ (modelFile = "whole" /\ ~infoOn'))
      BY DEF CrashAndReload
    <3> QED
      BY <3>1
  <2>3. {trainerUp', infoOn', saveFailed'} \subseteq BOOLEAN
    BY <2>1, <2>2
  <2>4. /\ second' \in 0..MaxSeconds /\ samples' \in 0..MaxSamples
        /\ feedbackBuffer' \in Seq(1..samples')
        /\ jsonl' \in [0..MaxSeconds -> Seq(1..samples')]
        /\ reused' \in BOOLEAN
    BY DEF CrashAndReload, LoopInv, LoopTyped
  <2>5. /\ crashes' \in Nat /\ fresh' \in Nat /\ replayed' \in Nat
        /\ updated' \in Nat /\ savedAt' \in Nat /\ savedAt' <= updated'
        /\ modelFile' \in {"none", "whole", "torn"}
    BY DEF CrashAndReload, LoopInv, LoopTyped
  <2> QED
    BY <2>3, <2>4, <2>5 DEF LoopTyped
<1>2. NothingDropped'
  BY DEF CrashAndReload, LoopInv, LoopTyped, NothingDropped
<1>3. UnsavedAreLast'
  <2>1. 0 = 0 * SaveEvery + 0 /\ 0 \in 0..MetricsMax /\ 0 \in 0..(SaveEvery - 1)
    BY LoopAssumption
  <2> QED
    BY <2>1 DEF CrashAndReload, UnsavedAreLast
<1>4. TrainerWorks'
  BY LoopAssumption DEF CrashAndReload, LoopInv, LoopTyped, TrainerWorks
<1> QED
  BY <1>1, <1>2, <1>3, <1>4 DEF LoopInv

(* Feedback is lost by a crash or by a second flush within one second and  *)
(* by nothing else; where INFO is not logged and saving goes well, a crash *)
(* costs less than SaveEvery train steps: FeedbackCollector of             *)
(* feedback_collector.py and IncrementalTrainer of incremental_trainer.py, *)
(* for any sizes and frequencies.                                          *)
THEOREM LittleIsEverLost == LoopSpec => [](LoopTypeOK /\ LittleIsLost)
<1>1. LoopInv /\ [LoopNext]_loopVars => LoopInv'
  <2> SUFFICES ASSUME LoopInv, [LoopNext]_loopVars PROVE LoopInv'
    OBVIOUS
  <2>1. ASSUME UNCHANGED <<samples, feedbackBuffer, jsonl, reused, trainer, crashes>>,
               second' \in 0..MaxSeconds
        PROVE  LoopInv'
    <3>1. Filed' = Filed
      BY <2>1 DEF Filed
    <3>2. UNCHANGED <<fresh, replayed, metrics, updated, savedAt, unsaved, modelFile>>
          /\ UNCHANGED <<trainerUp, infoOn, saveFailed, samples, feedbackBuffer, jsonl, reused, crashes>>
      BY <2>1 DEF trainer, process
    <3>3. LoopTyped'
      BY <2>1, <3>2 DEF LoopInv, LoopTyped
    <3>4. NothingDropped'
      BY <3>1, <3>2 DEF LoopInv, NothingDropped
    <3>5. UnsavedAreLast'
      BY <3>2 DEF LoopInv, UnsavedAreLast
    <3>6. TrainerWorks'
      BY <3>2 DEF LoopInv, TrainerWorks
    <3> QED
      BY <3>3, <3>4, <3>5, <3>6 DEF LoopInv
  <2>2. CASE SecondPasses
    BY <2>1, <2>2, LoopAssumption DEF SecondPasses, LoopInv, LoopTyped, collector
  <2>3. CASE TriggerRetraining \/ UNCHANGED loopVars
    <3>1. /\ UNCHANGED <<samples, feedbackBuffer, jsonl, reused, second, crashes>>
          /\ UNCHANGED trainer
      BY <2>3 DEF TriggerRetraining, loopVars, trainer, process
    <3>2. second' \in 0..MaxSeconds
      BY <3>1 DEF LoopInv, LoopTyped
    <3> QED
      BY <2>1, <3>1, <3>2
  <2> QED
    BY <2>2, <2>3, AddFeedbackKeepsLoop, AddSampleKeepsLoop, CrashKeepsLoop DEF LoopNext
<1>2. LoopInv => LoopTypeOK /\ LittleIsLost
  <2> SUFFICES ASSUME LoopInv PROVE LoopTypeOK /\ LittleIsLost
    OBVIOUS
  <2>1. ToSet(feedbackBuffer) \subseteq 1..samples
    BY ElementsOf DEF LoopInv, LoopTyped
  <2>2. Filed \subseteq 1..samples
    <3> SUFFICES ASSUME NEW s \in 0..MaxSeconds PROVE ToSet(jsonl[s]) \subseteq 1..samples
      BY DEF Filed, LoopInv, LoopTyped
    <3>1. jsonl[s] \in Seq(1..samples)
      BY DEF LoopInv, LoopTyped
    <3> QED
      BY <3>1, ElementsOf
  <2>3. ~infoOn /\ ~saveFailed => unsaved < SaveEvery
    BY LoopAssumption DEF LoopInv, UnsavedAreLast
  <2>4. (~infoOn => fresh < TrainEvery) /\ (~trainerUp => modelFile = "torn" \/ infoOn)
    BY DEF LoopInv, TrainerWorks
  <2> QED
    BY <2>1, <2>2, <2>3, <2>4 DEF LoopInv, LoopTyped, NothingDropped, LoopTypeOK, LittleIsLost
<1> QED
  BY LoopInvInit, <1>1, <1>2, PTL DEF LoopSpec

-----------------------------------------------------------------------------
(* DriftMonitor.  Sizes of buckets are powers of two: the least set with 1 *)
(* and with the double of each of its elements.                            *)
HasDoubles(S) == 1 \in S /\ \A x \in S : 2 * x \in S
Power == {p \in Nat : \A S \in SUBSET Nat : HasDoubles(S) => p \in S}

LEMMA PowersAreLeast == ASSUME NEW S \in SUBSET Nat, HasDoubles(S) PROVE Power \subseteq S
BY DEF Power

LEMMA PowersDouble == HasDoubles(Power) /\ Power \subseteq Nat \ {0}
<1>1. HasDoubles(Power)
  <2>1. 1 \in Power
    BY DEF Power, HasDoubles
  <2>2. ASSUME NEW x \in Power PROVE 2 * x \in Power
    BY DEF Power, HasDoubles
  <2> QED
    BY <2>1, <2>2 DEF HasDoubles
<1>2. Nat \ {0} \in SUBSET Nat /\ HasDoubles(Nat \ {0})
  BY DEF HasDoubles
<1> QED
  BY <1>1, <1>2, PowersAreLeast

(* Each of them but the first is the double of another.                    *)
LEMMA PowersAreDoubles ==
  ASSUME NEW x \in Power, x # 1
  PROVE  \E z \in Power : x = 2 * z
<1> DEFINE S == {1} \cup {2 * z : z \in Power}
<1>1. S \in SUBSET Nat
  BY PowersDouble
<1>2. S \subseteq Power
  BY PowersDouble DEF HasDoubles
<1>3. HasDoubles(S)
  <2>1. ASSUME NEW y \in S PROVE 2 * y \in S
    BY <1>2
  <2> QED
    BY <2>1 DEF HasDoubles
<1> HIDE DEF S
<1>4. x \in S
  BY <1>1, <1>3, PowersAreLeast
<1> QED
  BY <1>4 DEF S

(* So the next one is the double.                                          *)
LEMMA PowersAreFar ==
  ASSUME NEW x \in Power, NEW y \in Power, x < y
  PROVE  2 * x <= y
<1> DEFINE Far(b) == \A a \in Power : (a < b => 2 * a <= b) /\ (b < a => 2 * b <= a)
           S == {b \in Power : Far(b)}
<1>1. \A a \in Power : a \in Nat /\ a >= 1
  BY PowersDouble
<1>2. 1 \in S
  BY <1>1, PowersDouble DEF HasDoubles
<1>3. ASSUME NEW b \in S PROVE 2 * b \in S
  <2>1. b \in Power /\ 2 * b \in Power /\ b \in Nat /\ b >= 1 /\ Far(b)
    BY <1>1, PowersDouble DEF HasDoubles
  <2>2. ASSUME NEW a \in Power, a < 2 * b PROVE 2 * a <= 2 * b
    BY <2>1, <2>2, <1>1
  <2>3. ASSUME NEW a \in Power, 2 * b < a PROVE 2 * (2 * b) <= a
    <3>1. a # 1
      BY <2>1, <2>3, <1>1
    <3>2. PICK z \in Power : a = 2 * z
      BY <3>1, PowersAreDoubles
    <3>3. b < z
      BY <2>1, <2>3, <3>2, <1>1
    <3>4. 2 * b <= z
      BY <2>1, <3>3
    <3> QED
      BY <2>1, <3>2, <3>4, <1>1
  <2> QED
    BY <2>1, <2>2, <2>3
<1>4. S \in SUBSET Nat /\ HasDoubles(S)
  BY <1>1, <1>2, <1>3 DEF HasDoubles
<1> HIDE DEF S
<1>5. y \in S
  BY <1>4, PowersAreLeast
<1> QED
  BY <1>5 DEF S

-----------------------------------------------------------------------------
(* p[k] is the sum of the first k of s.                                    *)
Partials(p, s) ==
  /\ p \in [0..Len(s) -> Int] /\ p[0] = 0
  /\ \A k \in 1..Len(s) : p[k] = p[k - 1] + s[k]

LEMMA SumHasPrefixes ==
  ASSUME NEW s \in Seq(Int)
  PROVE  \E p : Partials(p, s) /\ SumOf(s) = p[Len(s)]
<1> DEFINE n == Len(s)
           A == Int
           F == [w \in (1..n) \X A |-> w[2] + s[w[1]]]
           turn(k) == [t \in SUBSET (1..n) |-> IF t = {} THEN 0 ELSE k[t \ {Max(t)}] + s[Max(t)]]
           k == CHOOSE x : x = turn(x)
<1>0. n \in Nat /\ DOMAIN s = 1..n /\ \A i \in 1..n : s[i] \in Int
  OBVIOUS
<1>1. SumOf(s) = k[1..n]
  BY <1>0 DEF SumOf, FoldLeft, MapThenFoldSet
<1>2. 0 \in A
  OBVIOUS
<1>3. F \in [(1..n) \X A -> A] /\ \A i \in 1..n, acc \in A : F[<<i, acc>>] = acc + s[i]
  BY <1>0
<1> HIDE DEF A, F, n
<1>5. FoldRule(1..n, A, 0, HighestOf(n), F)
  BY <1>0, <1>2, <1>3, PositionRules
<1>6. PICK g : FoldsBy(g, SUBSET (1..n), A, 0, HighestOf(n), F)
  BY <1>5, FoldExists
<1>7. \A t \in SUBSET (1..n) : HighestOf(n)[t] = Max(t)
  BY DEF HighestOf
<1>8. g = turn(g)
  <2>1. g = [t \in SUBSET (1..n) |-> g[t]]
    BY <1>6 DEF FoldsBy
  <2>2. ASSUME NEW t \in SUBSET (1..n), t # {}
        PROVE  g[t] = g[t \ {Max(t)}] + s[Max(t)]
    <3>1. Max(t) \in 1..n /\ g[t \ {Max(t)}] \in A
      BY <1>5, <1>6, <1>7, <2>2 DEF FoldsBy, FoldRule
    <3>2. g[t] = F[<<Max(t), g[t \ {Max(t)}]>>]
      BY <1>6, <1>7, <2>2 DEF FoldsBy
    <3> QED
      BY <1>3, <3>1, <3>2
  <2>3. g[{}] = 0
    BY <1>6 DEF FoldsBy
  <2> QED
    BY <2>1, <2>2, <2>3
<1> HIDE DEF turn
<1>9. k = turn(k)
  BY <1>8
<1> HIDE DEF k
<1>10. SolvesToo(k, 1..n, A, 0, HighestOf(n), F)
  <2>1. k[{}] = 0
    BY <1>9 DEF turn
  <2>2. ASSUME NEW t \in SUBSET (1..n), t # {}, k[t \ {Max(t)}] \in A
        PROVE  k[t] = F[<<Max(t), k[t \ {Max(t)}]>>]
    <3>1. Max(t) \in 1..n
      BY <1>5, <1>7, <2>2 DEF FoldRule
    <3>2. k[t] = k[t \ {Max(t)}] + s[Max(t)]
      BY <1>9, <2>2 DEF turn
    <3> QED
      BY <1>3, <2>2, <3>1, <3>2
  <2> QED
    BY <1>7, <2>1, <2>2 DEF SolvesToo
<1>11. PICK fold : FoldsBy(fold, SUBSET (1..n), A, 0, HighestOf(n), F)
                   /\ \A t \in SUBSET (1..n) : k[t] = fold[t] /\ k[t] \in A
  <2> DEFINE S == 1..n
             C == HighestOf(n)
  <2>1. Folds(k, S, A, 0, C, F)
    BY <1>5, <1>10 DEF Folds
  <2> HIDE DEF S, C
  <2>2. \E x : FoldsBy(x, SUBSET S, A, 0, C, F) /\ \A t \in SUBSET S : k[t] = x[t] /\ k[t] \in A
    BY <2>1, FoldEnds
  <2> QED
    BY <2>2 DEF S, C
<1>12. Climbs(fold, n, A, 0, F)
  BY <1>0, <1>11, LeftFold DEF FoldsLeft
<1> DEFINE p == [i \in 0..n |-> fold[1..i]]
<1>13. \A i \in 0..n : p[i] \in A
  BY <1>12 DEF Climbs
<1>14. p[0] = 0
  BY <1>0, <1>12 DEF Climbs
<1>15. ASSUME NEW i \in 1..n PROVE p[i] = p[i - 1] + s[i]
  <2>1. i - 1 \in 0..n /\ i \in 0..n
    BY <1>0
  <2>2. fold[1..i] = F[<<i, fold[1..(i - 1)]>>] /\ fold[1..(i - 1)] \in A
    BY <1>12, <2>1 DEF Climbs
  <2> QED
    BY <1>3, <2>1, <2>2
<1>16. SumOf(s) = p[n]
  BY <1>0, <1>1, <1>11
<1>17. p \in [0..n -> Int]
  BY <1>13 DEF A
<1> HIDE DEF p
<1>18. Partials(p, s)
  BY <1>14, <1>15, <1>17 DEF Partials, n
<1> QED
  BY <1>16, <1>18 DEF n

(* Whatever adds up like the sum ends with it.                             *)
AddsUp(p, s) == p[0] = 0 /\ \A k \in 1..Len(s) : p[k] = p[k - 1] + s[k]

LEMMA SumIs ==
  ASSUME NEW s \in Seq(Int), NEW p, AddsUp(p, s)
  PROVE  SumOf(s) = p[Len(s)]
<1> DEFINE n == Len(s)
<1>1. n \in Nat
  OBVIOUS
<1>2. PICK q : Partials(q, s) /\ SumOf(s) = q[n]
  BY SumHasPrefixes
<1> DEFINE G == {i \in Nat : i <= n => p[i] = q[i]}
<1> HIDE DEF n
<1>3. 0 \in G
  BY <1>2 DEF AddsUp, Partials
<1>4. ASSUME NEW i \in Nat, i \in G PROVE i + 1 \in G
  <2> SUFFICES ASSUME i + 1 <= n PROVE p[i + 1] = q[i + 1]
    OBVIOUS
  <2>1. i <= n /\ i + 1 \in 1..Len(s) /\ (i + 1) - 1 = i
    BY <1>1 DEF n
  <2>2. p[i] = q[i]
    BY <1>4, <2>1
  <2> QED
    BY <2>1, <2>2, <1>2 DEF AddsUp, Partials
<1>5. n \in G
  <2> HIDE DEF G
  <2> QED
    BY <1>1, <1>3, <1>4, SetOfNaturals
<1> QED
  BY <1>1, <1>2, <1>5 DEF n

-----------------------------------------------------------------------------
Bucket == [n : Nat, total : Int]

(* Sizes fall strictly, and are powers.                                    *)
Tidy(d) ==
  /\ \A k \in 1..Len(d) : d[k].n \in Power
  /\ \A k \in 1..Len(d), j \in 1..Len(d) : j = k + 1 => d[j].n < d[k].n

(* Bucket k of d stands for the values after c[k - 1] up to c[k]; V are    *)
(* the sums of the values, L is how many there are.                        *)
Covers(c, d, V, L) ==
  /\ c \in [0..Len(d) -> 0..L] /\ c[Len(d)] = L
  /\ \A k \in 1..Len(d) : c[k] = c[k - 1] + d[k].n /\ d[k].total = V[c[k]] - V[c[k - 1]]

Sums(V, L) == L \in Nat /\ V \in [0..L -> Int]

(* One more bucket in front of those that are merged: a is where it begins.*)
MergedFrom(d, first, a, V, L) ==
  /\ d \in Seq(Bucket) /\ Len(d) >= 1 /\ Tidy(d)
  /\ d[1].n = first \/ d[1].n = 2 * first
  /\ \E e : Covers(e, d, V, L) /\ e[0] = a

LEMMA TidyTypes ==
  ASSUME NEW d \in Seq(Bucket), Tidy(d), NEW k \in 1..Len(d)
  PROVE  d[k].n \in Nat /\ d[k].n >= 1 /\ d[k].n \in Power /\ d[k].total \in Int
<1>1. d[k].n \in Power
  BY DEF Tidy
<1>2. d[k] \in Bucket
  OBVIOUS
<1> QED
  BY <1>1, <1>2, PowersDouble DEF Bucket

LEMMA Prepended ==
  ASSUME NEW T, NEW x \in T, NEW d \in Seq(T)
  PROVE  LET u == <<x>> \o d
         IN  /\ u \in Seq(T) /\ Len(u) = Len(d) + 1 /\ u[1] = x
             /\ \A k \in 2..(Len(d) + 1) : u[k] = d[k - 1]
<1> DEFINE v == <<x>>
           m == Len(d)
<1>1. v \in Seq(T) /\ Len(v) = 1 /\ v[1] = x /\ m \in Nat
  OBVIOUS
<1> HIDE DEF v
<1>2. /\ v \o d \in Seq(T) /\ Len(v \o d) = Len(v) + Len(d)
      /\ \A k \in 1..(Len(v) + Len(d)) :
           (v \o d)[k] = IF k <= Len(v) THEN v[k] ELSE d[k - Len(v)]
  BY <1>1, ConcatProperties
<1> HIDE DEF m
<1>3. v \o d \in Seq(T) /\ Len(v \o d) = m + 1 /\ \A k \in 1..(1 + m) : (v \o d)[k] = IF k <= 1 THEN v[k] ELSE d[k - 1]
  BY <1>1, <1>2 DEF m
<1>4. (v \o d)[1] = x /\ \A k \in 2..(m + 1) : (v \o d)[k] = d[k - 1]
  BY <1>1, <1>3
<1> QED
  BY <1>1, <1>3, <1>4 DEF v, m

LEMMA JoinEqual ==
  ASSUME NEW V, NEW L, Sums(V, L),
         NEW b \in Bucket, b.n \in Power, NEW a \in 0..L,
         NEW d \in Seq(Bucket), Len(d) >= 1, Tidy(d), d[1].n = b.n,
         NEW e, Covers(e, d, V, L), e[0] = a + b.n, b.total = V[a + b.n] - V[a]
  PROVE  MergedFrom(Joined(b, d), b.n, a, V, L)
<1> DEFINE m == Len(d)
           one == [n |-> b.n + d[1].n, total |-> b.total + d[1].total]
           u == <<one>> \o Tail(d)
           f == [k \in 0..m |-> IF k = 0 THEN a ELSE e[k]]
<1>1. m \in Nat /\ m >= 1 /\ d # <<>> /\ L \in Nat
  BY DEF Sums
<1>2. \A k \in 1..m : d[k] \in Bucket
  OBVIOUS
<1>3. one \in Bucket /\ one.n = b.n + d[1].n /\ one.total = b.total + d[1].total
  BY <1>1, <1>2 DEF Bucket
<1> HIDE DEF one
<1>4. u \in Seq(Bucket) /\ Len(u) = m /\ u[1] = one /\ \A k \in 2..m : u[k] = d[k]
  <2>1. /\ Tail(d) \in Seq(Bucket) /\ Len(Tail(d)) = m - 1
        /\ \A i \in 1..(m - 1) : Tail(d)[i] = d[i + 1]
    BY <1>1
  <2>2. /\ <<one>> \in Seq(Bucket) /\ Len(<<one>>) = 1 /\ <<one>>[1] = one
    BY <1>3
  <2> DEFINE t == Tail(d)
             v == <<one>>
  <2> HIDE DEF t, v, m
  <2>3. v \o t \in Seq(Bucket) /\ Len(v \o t) = m /\ (v \o t)[1] = one
        /\ \A k \in 2..m : (v \o t)[k] = t[k - 1]
    BY <2>1, <2>2, <1>1 DEF t, v
  <2>4. \A k \in 2..m : t[k - 1] = d[k]
    BY <2>1, <1>1 DEF t
  <2> QED
    BY <2>3, <2>4 DEF t, v
<1>5. Joined(b, d) = u
  BY <1>1 DEF Joined, one
<1> HIDE DEF u, m
<1>6. \A k \in 1..m : d[k].n \in Nat /\ d[k].n >= 1 /\ d[k].n \in Power /\ d[k].total \in Int
  BY TidyTypes DEF m
<1>7. b.n \in Nat /\ b.n >= 1 /\ one.n = 2 * b.n /\ one.n \in Power /\ b.total \in Int
  <2>1. b.n \in Nat /\ b.n >= 1 /\ b.total \in Int
    BY PowersDouble DEF Bucket
  <2>2. one.n = 2 * b.n
    BY <2>1, <1>3
  <2>3. 2 * b.n \in Power
    BY PowersDouble DEF HasDoubles
  <2> QED
    BY <2>1, <2>2, <2>3
<1>8. Tidy(u)
  <2>1. ASSUME NEW k \in 1..m PROVE u[k].n \in Power
    <3>1. k = 1 \/ k \in 2..m
      BY <1>1
    <3> QED
      BY <3>1, <1>4, <1>6, <1>7
  <2>2. ASSUME NEW k \in 1..m, NEW j \in 1..m, j = k + 1 PROVE u[j].n < u[k].n
    <3>1. j \in 2..m /\ u[j] = d[j] /\ d[j].n < d[k].n
      BY <2>2, <1>1, <1>4 DEF Tidy, m
    <3>2. CASE k = 1
      BY <3>1, <3>2, <1>4, <1>6, <1>7
    <3>3. CASE k # 1
      <4>1. u[k] = d[k]
        BY <3>3, <1>1, <1>4
      <4> QED
        BY <3>1, <4>1
    <3> QED
      BY <3>2, <3>3
  <2> QED
    BY <1>4, <2>1, <2>2 DEF Tidy
<1>9. /\ e \in [0..m -> 0..L] /\ e[m] = L
      /\ \A k \in 1..m : e[k] = e[k - 1] + d[k].n /\ d[k].total = V[e[k]] - V[e[k - 1]]
  BY DEF Covers, m
<1>10. f \in [0..m -> 0..L] /\ f[m] = L /\ f[0] = a /\ \A k \in 1..m : f[k] = e[k]
  BY <1>1, <1>9
<1> HIDE DEF f
<1>11. ASSUME NEW k \in 1..m
       PROVE  f[k] = f[k - 1] + u[k].n /\ u[k].total = V[f[k]] - V[f[k - 1]]
  <2>1. CASE k = 1
    <3>1. e[1] = a + b.n + d[1].n /\ d[1].total = V[e[1]] - V[a + b.n] /\ f[k - 1] = a /\ f[k] = e[1]
      BY <2>1, <1>1, <1>9, <1>10
    <3>2. a + b.n \in 0..L /\ e[1] \in 0..L
      BY <1>1, <1>9
    <3>3. V[a] \in Int /\ V[a + b.n] \in Int /\ V[e[1]] \in Int
      BY <3>2 DEF Sums
    <3>4. u[k] = one
      BY <2>1, <1>4
    <3>5. f[k] = f[k - 1] + u[k].n
      <4>1. one.n = b.n + b.n /\ d[1].n = b.n
        BY <1>3
      <4> QED
        BY <3>1, <3>4, <4>1, <1>7
    <3>6. V[f[k]] = V[e[1]] /\ V[f[k - 1]] = V[a] /\ u[k].total = b.total + d[1].total
      BY <3>1, <3>4, <1>3
    <3> QED
      BY <3>1, <3>3, <3>5, <3>6
  <2>2. CASE k # 1
    <3>1. u[k] = d[k] /\ f[k] = e[k] /\ f[k - 1] = e[k - 1]
      BY <2>2, <1>1, <1>4, <1>10
    <3> QED
      BY <3>1, <1>9
  <2> QED
    BY <2>1, <2>2
<1>12. Covers(f, u, V, L)
  BY <1>4, <1>10, <1>11 DEF Covers
<1> QED
  BY <1>1, <1>4, <1>5, <1>7, <1>8, <1>10, <1>12 DEF MergedFrom

LEMMA JoinSmaller ==
  ASSUME NEW V, NEW L, Sums(V, L),
         NEW b \in Bucket, b.n \in Power, NEW a \in 0..L,
         NEW d \in Seq(Bucket), Tidy(d), d # <<>> => d[1].n < b.n,
         NEW e, Covers(e, d, V, L), e[0] = a + b.n, b.total = V[a + b.n] - V[a]
  PROVE  MergedFrom(Joined(b, d), b.n, a, V, L)
<1> DEFINE m == Len(d)
           u == <<b>> \o d
           f == [k \in 0..(m + 1) |-> IF k = 0 THEN a ELSE e[k - 1]]
<1>1. m \in Nat /\ L \in Nat /\ (d # <<>> <=> m >= 1)
  BY DEF Sums
<1>2. \A k \in 1..m : d[k] \in Bucket
  OBVIOUS
<1>4. u \in Seq(Bucket) /\ Len(u) = m + 1 /\ u[1] = b /\ \A k \in 2..(m + 1) : u[k] = d[k - 1]
  BY Prepended
<1>6. \A k \in 1..m : d[k].n \in Nat /\ d[k].n >= 1 /\ d[k].n \in Power /\ d[k].total \in Int
  BY TidyTypes
<1>7. b.n \in Nat /\ b.n >= 1 /\ b.total \in Int
  BY PowersDouble DEF Bucket
<1>5. Joined(b, d) = u
  <2>1. ~(d # <<>> /\ d[1].n = b.n)
    BY <1>1, <1>6, <1>7
  <2> QED
    BY <2>1 DEF Joined
<1> HIDE DEF u
<1>8. Tidy(u)
  <2>1. \A k \in 1..(m + 1) : u[k].n \in Power
    <3> SUFFICES ASSUME NEW k \in 1..(m + 1) PROVE u[k].n \in Power
      OBVIOUS
    <3>1. CASE k = 1
      BY <3>1, <1>4
    <3>2. CASE k # 1
      <4>1. k \in 2..(m + 1) /\ k - 1 \in 1..m
        BY <3>2, <1>1
      <4> QED
        BY <4>1, <1>4, <1>6
    <3> QED
      BY <3>1, <3>2
  <2>2. ASSUME NEW k \in 1..(m + 1), NEW j \in 1..(m + 1), j = k + 1 PROVE u[j].n < u[k].n
    <3>1. j \in 2..(m + 1) /\ u[j] = d[k] /\ k \in 1..m
      BY <2>2, <1>1, <1>4
    <3>2. CASE k = 1
      BY <3>1, <3>2, <1>1, <1>4
    <3>3. CASE k # 1
      <4>1. u[k] = d[k - 1] /\ k - 1 \in 1..m /\ k = (k - 1) + 1
        BY <3>1, <3>3, <1>1, <1>4
      <4>2. d[k].n < d[k - 1].n
        BY <3>1, <4>1 DEF Tidy
      <4> QED
        BY <3>1, <4>1, <4>2
    <3> QED
      BY <3>2, <3>3
  <2> QED
    BY <1>4, <2>1, <2>2 DEF Tidy
<1>9. /\ e \in [0..m -> 0..L] /\ e[m] = L
      /\ \A k \in 1..m : e[k] = e[k - 1] + d[k].n /\ d[k].total = V[e[k]] - V[e[k - 1]]
  BY DEF Covers
<1> HIDE DEF m
<1>10. f \in [0..(m + 1) -> 0..L] /\ f[m + 1] = L /\ f[0] = a /\ \A k \in 1..(m + 1) : f[k] = e[k - 1]
  <2>1. \A k \in 1..(m + 1) : k - 1 \in 0..m /\ k # 0
    BY <1>1
  <2>2. \A k \in 0..(m + 1) : k = 0 \/ k \in 1..(m + 1)
    BY <1>1
  <2>3. m + 1 \in 1..(m + 1) /\ (m + 1) - 1 = m /\ 0 \in 0..(m + 1)
    BY <1>1
  <2> QED
    BY <1>9, <2>1, <2>2, <2>3
<1> HIDE DEF f
<1>11. ASSUME NEW k \in 1..(m + 1)
       PROVE  f[k] = f[k - 1] + u[k].n /\ u[k].total = V[f[k]] - V[f[k - 1]]
  <2>1. CASE k = 1
    <3>1. f[k] = e[0] /\ f[k - 1] = a /\ u[k] = b
      BY <2>1, <1>1, <1>4, <1>10
    <3> QED
      BY <3>1
  <2>2. CASE k # 1
    <3>1. k - 1 \in 1..(m + 1) /\ k \in 2..(m + 1) /\ k - 1 \in 1..m
      BY <2>2, <1>1
    <3>2. u[k] = d[k - 1] /\ f[k] = e[k - 1] /\ f[k - 1] = e[(k - 1) - 1]
      BY <3>1, <1>4, <1>10
    <3> QED
      BY <3>1, <3>2, <1>9
  <2> QED
    BY <2>1, <2>2
<1>12. Covers(f, u, V, L)
  BY <1>4, <1>10, <1>11 DEF Covers
<1>13. u \in Seq(Bucket) /\ Len(u) >= 1 /\ u[1].n = b.n
  BY <1>1, <1>4
<1> QED
  BY <1>5, <1>8, <1>10, <1>12, <1>13 DEF MergedFrom

LEMMA JoinedType ==
  ASSUME NEW b \in Bucket, NEW d \in Seq(Bucket)
  PROVE  Joined(b, d) \in Seq(Bucket)
<1>1. CASE d # <<>> /\ d[1].n = b.n
  <2> DEFINE one == [n |-> b.n + d[1].n, total |-> b.total + d[1].total]
  <2>1. d[1] \in Bucket /\ Tail(d) \in Seq(Bucket)
    BY <1>1, FirstAndRest
  <2>2. one \in Bucket
    BY <2>1 DEF Bucket
  <2>3. Joined(b, d) = <<one>> \o Tail(d)
    BY <1>1 DEF Joined
  <2> HIDE DEF one
  <2> QED
    BY <2>1, <2>2, <2>3, Prepended
<1>2. CASE ~(d # <<>> /\ d[1].n = b.n)
  <2>1. Joined(b, d) = <<b>> \o d
    BY <1>2 DEF Joined
  <2> QED
    BY <2>1, Prepended
<1> QED
  BY <1>1, <1>2

(* Merging goes from the newest bucket to the oldest.                      *)
Merges(d, bs) == d[Len(bs) + 1] = <<>> /\ \A k \in 1..Len(bs) : d[k] = Joined(bs[k], d[k + 1])

LEMMA MergedStepwise ==
  ASSUME NEW bs \in Seq(Bucket)
  PROVE  \E d : Merges(d, bs) /\ Merged(bs) = d[1]
<1> DEFINE n == Len(bs)
           A == Seq(Bucket)
           F == [w \in (1..n) \X A |-> Joined(bs[w[1]], w[2])]
           turn(k) == [t \in SUBSET (1..n) |-> IF t = {} THEN <<>> ELSE Joined(bs[Min(t)], k[t \ {Min(t)}])]
           k == CHOOSE x : x = turn(x)
<1>0. n \in Nat /\ DOMAIN bs = 1..n /\ \A i \in 1..n : bs[i] \in Bucket
  OBVIOUS
<1>1. Merged(bs) = k[1..n]
  BY <1>0 DEF Merged, FoldRight, MapThenFoldSet
<1>2. <<>> \in A
  OBVIOUS
<1>3. F \in [(1..n) \X A -> A] /\ \A i \in 1..n, acc \in A : F[<<i, acc>>] = Joined(bs[i], acc)
  <2>1. \A i \in 1..n, acc \in A : Joined(bs[i], acc) \in A
    BY <1>0, JoinedType
  <2> HIDE DEF A, n
  <2> QED
    BY <2>1
<1> HIDE DEF A, F, n
<1>5. FoldRule(1..n, A, <<>>, LowestOf(n), F)
  BY <1>0, <1>2, <1>3, PositionRules
<1>6. PICK g : FoldsBy(g, SUBSET (1..n), A, <<>>, LowestOf(n), F)
  BY <1>5, FoldExists
<1>7. \A t \in SUBSET (1..n) : LowestOf(n)[t] = Min(t)
  BY DEF LowestOf
<1>8. g = turn(g)
  <2>1. g = [t \in SUBSET (1..n) |-> g[t]]
    BY <1>6 DEF FoldsBy
  <2>2. ASSUME NEW t \in SUBSET (1..n), t # {}
        PROVE  g[t] = Joined(bs[Min(t)], g[t \ {Min(t)}])
    <3>1. Min(t) \in 1..n /\ g[t \ {Min(t)}] \in A
      BY <1>5, <1>6, <1>7, <2>2 DEF FoldsBy, FoldRule
    <3>2. g[t] = F[<<Min(t), g[t \ {Min(t)}]>>]
      BY <1>6, <1>7, <2>2 DEF FoldsBy
    <3> QED
      BY <1>3, <3>1, <3>2
  <2>3. g[{}] = <<>>
    BY <1>6 DEF FoldsBy
  <2> QED
    BY <2>1, <2>2, <2>3
<1> HIDE DEF turn
<1>9. k = turn(k)
  BY <1>8
<1> HIDE DEF k
<1>10. SolvesToo(k, 1..n, A, <<>>, LowestOf(n), F)
  <2>1. k[{}] = <<>>
    BY <1>9 DEF turn
  <2>2. ASSUME NEW t \in SUBSET (1..n), t # {}, k[t \ {Min(t)}] \in A
        PROVE  k[t] = F[<<Min(t), k[t \ {Min(t)}]>>]
    <3>1. Min(t) \in 1..n
      BY <1>5, <1>7, <2>2 DEF FoldRule
    <3>2. k[t] = Joined(bs[Min(t)], k[t \ {Min(t)}])
      BY <1>9, <2>2 DEF turn
    <3> QED
      BY <1>3, <2>2, <3>1, <3>2
  <2> QED
    BY <1>7, <2>1, <2>2 DEF SolvesToo
<1>11. PICK fold : FoldsBy(fold, SUBSET (1..n), A, <<>>, LowestOf(n), F)
                   /\ \A t \in SUBSET (1..n) : k[t] = fold[t] /\ k[t] \in A
  <2> DEFINE S == 1..n
             C == LowestOf(n)
  <2>1. Folds(k, S, A, <<>>, C, F)
    BY <1>5, <1>10 DEF Folds
  <2> HIDE DEF S, C
  <2>2. \E x : FoldsBy(x, SUBSET S, A, <<>>, C, F) /\ \A t \in SUBSET S : k[t] = x[t] /\ k[t] \in A
    BY <2>1, FoldEnds
  <2> QED
    BY <2>2 DEF S, C
<1>12. /\ \A i \in 1..(n + 1) : fold[i..n] \in A
       /\ fold[(n + 1)..n] = <<>>
       /\ \A i \in 1..n : fold[i..n] = F[<<i, fold[(i + 1)..n]>>]
  <2>1. FoldsRight(fold, n, A, <<>>, F)
    BY <1>11 DEF FoldsRight
  <2>2. Descends(fold, n, A, <<>>, F)
    BY <1>0, <2>1, RightFold
  <2> QED
    BY <2>2 DEF Descends
<1> DEFINE d == [i \in 1..(n + 1) |-> fold[i..n]]
<1>13. d[n + 1] = <<>>
  <2>1. n + 1 \in 1..(n + 1)
    BY <1>0
  <2> QED
    BY <1>12, <2>1
<1>14. ASSUME NEW i \in 1..n PROVE d[i] = Joined(bs[i], d[i + 1])
  <2>1. i \in 1..(n + 1) /\ i + 1 \in 1..(n + 1)
    BY <1>0
  <2>2. fold[i..n] = F[<<i, fold[(i + 1)..n]>>] /\ fold[(i + 1)..n] \in A
    BY <1>12, <2>1
  <2> QED
    BY <1>3, <2>1, <2>2
<1>15. Merged(bs) = d[1]
  BY <1>0, <1>1, <1>11
<1> HIDE DEF d
<1>16. Merges(d, bs)
  BY <1>13, <1>14 DEF Merges, n
<1> QED
  BY <1>15, <1>16

(* A tidy list with a bucket of one element appended.                      *)
Topped(bs) ==
  /\ bs \in Seq(Bucket) /\ Len(bs) >= 1 /\ bs[Len(bs)].n = 1
  /\ \A k \in 1..Len(bs) : bs[k].n \in Power
  /\ \A k \in 1..(Len(bs) - 1), j \in 1..(Len(bs) - 1) : j = k + 1 => bs[j].n < bs[k].n

(* What the buckets from k on are merged to.                               *)
MergeStage(x, k, bs, c, V, L) ==
  /\ MergedFrom(x, bs[k].n, c[k - 1], V, L)
  /\ k > 1 => x[1].n <= bs[k - 1].n

LEMMA FirstStage ==
  ASSUME NEW V, NEW L, Sums(V, L), NEW bs, Topped(bs), NEW c, Covers(c, bs, V, L)
  PROVE  MergeStage(Joined(bs[Len(bs)], <<>>), Len(bs), bs, c, V, L)
<1> DEFINE l == Len(bs)
           b == bs[l]
           e == [i \in 0..0 |-> L]
<1>1. l \in Nat /\ l >= 1 /\ b \in Bucket /\ b.n = 1 /\ b.n \in Power /\ L \in Nat
  BY DEF Topped, Sums
<1>2. /\ c[l - 1] \in 0..L /\ c[l] = L /\ c[l] = c[l - 1] + b.n /\ b.total = V[c[l]] - V[c[l - 1]]
  <2>1. l - 1 \in 0..l /\ l \in 1..l
    BY <1>1
  <2> QED
    BY <2>1 DEF Covers
<1>3. <<>> \in Seq(Bucket) /\ Tidy(<<>>) /\ Covers(e, <<>>, V, L) /\ e[0] = L
  BY <1>1 DEF Tidy, Covers
<1> HIDE DEF e, b
<1>4. MergedFrom(Joined(b, <<>>), b.n, c[l - 1], V, L)
  <2> DEFINE a == c[l - 1]
  <2>1. a \in 0..L /\ e[0] = a + b.n /\ b.total = V[a + b.n] - V[a]
    BY <1>2, <1>3
  <2> HIDE DEF a
  <2>2. MergedFrom(Joined(b, <<>>), b.n, a, V, L)
    BY <1>1, <1>3, <2>1, JoinSmaller
  <2> QED
    BY <2>2 DEF a
<1>5. Joined(b, <<>>)[1] = b
  BY DEF Joined
<1>6. ASSUME l > 1 PROVE b.n <= bs[l - 1].n
  <2>1. l - 1 \in 1..l
    BY <1>1, <1>6
  <2>2. bs[l - 1].n \in Power
    BY <2>1 DEF Topped
  <2>3. \A q \in Power : q \in Nat /\ 1 <= q
    BY PowersDouble
  <2>4. 1 <= bs[l - 1].n
    BY <2>2, <2>3
  <2> QED
    BY <1>1, <2>4
<1> QED
  BY <1>4, <1>5, <1>6 DEF MergeStage, b

LEMMA NextStage ==
  ASSUME NEW V, NEW L, Sums(V, L), NEW bs, Topped(bs), NEW c, Covers(c, bs, V, L),
         NEW k \in 1..(Len(bs) - 1), NEW x, MergeStage(x, k + 1, bs, c, V, L)
  PROVE  MergeStage(Joined(bs[k], x), k, bs, c, V, L)
<1> DEFINE l == Len(bs)
           b == bs[k]
           a == c[k - 1]
<1>1. l \in Nat /\ k \in 1..l /\ k \in Nat /\ b \in Bucket /\ b.n \in Power /\ L \in Nat
  BY DEF Topped, Sums
<1>2. a \in 0..L /\ c[k] = a + b.n /\ b.total = V[a + b.n] - V[a]
  <2>1. k - 1 \in 0..l /\ k \in 1..l
    BY <1>1
  <2> QED
    BY <2>1 DEF Covers
<1>3. x \in Seq(Bucket) /\ Len(x) >= 1 /\ Tidy(x) /\ x[1].n <= b.n
  BY <1>1 DEF MergeStage, MergedFrom
<1>4. PICK e : Covers(e, x, V, L) /\ e[0] = a + b.n
  <2>1. (k + 1) - 1 = k
    BY <1>1
  <2>2. \E e : Covers(e, x, V, L) /\ e[0] = c[k]
    BY <2>1 DEF MergeStage, MergedFrom
  <2> QED
    BY <1>2, <2>2
<1>5. MergedFrom(Joined(b, x), b.n, a, V, L)
  <2> HIDE DEF a, b
  <2>1. CASE x[1].n = b.n
    BY <1>1, <1>2, <1>3, <1>4, <2>1, JoinEqual
  <2>2. CASE x[1].n # b.n
    <3>1. x[1].n < b.n
      <4>1. x[1].n \in Nat /\ b.n \in Nat
        <5>1. 1 \in 1..Len(x)
          BY <1>3
        <5>2. x[1].n \in Nat
          BY <1>3, <5>1, TidyTypes
        <5> QED
          BY <1>1, <5>2, PowersDouble
      <4> QED
        BY <1>3, <2>2, <4>1
    <3> QED
      BY <1>1, <1>2, <1>3, <1>4, <3>1, JoinSmaller
  <2> QED
    BY <2>1, <2>2
<1>6. ASSUME k > 1 PROVE Joined(b, x)[1].n <= bs[k - 1].n
  <2>1. k - 1 \in 1..(l - 1) /\ k \in 1..(l - 1) /\ k = (k - 1) + 1 /\ k - 1 \in 1..l
    BY <1>1, <1>6
  <2>2. b.n < bs[k - 1].n /\ bs[k - 1].n \in Power
    BY <2>1 DEF Topped
  <2>3. 2 * b.n <= bs[k - 1].n
    BY <1>1, <2>2, PowersAreFar
  <2>4. b.n \in Nat /\ bs[k - 1].n \in Nat
    BY <1>1, <2>2, PowersDouble
  <2> QED
    BY <1>5, <2>3, <2>4 DEF MergedFrom
<1> QED
  BY <1>5, <1>6 DEF MergeStage

(* The merged list is tidy again and stands for the same values.           *)
LEMMA MergedCovers ==
  ASSUME NEW V, NEW L, Sums(V, L), NEW bs, Topped(bs), NEW c, Covers(c, bs, V, L)
  PROVE  /\ Merged(bs) \in Seq(Bucket) /\ Tidy(Merged(bs))
         /\ \E e : Covers(e, Merged(bs), V, L)
<1> DEFINE l == Len(bs)
<1>1. l \in Nat /\ l >= 1 /\ bs \in Seq(Bucket)
  BY DEF Topped
<1>2. PICK d : Merges(d, bs) /\ Merged(bs) = d[1]
  BY <1>1, MergedStepwise
<1> DEFINE G == {i \in Nat : i < l => MergeStage(d[l - i], l - i, bs, c, V, L)}
<1>3. 0 \in G
  <2>1. MergeStage(Joined(bs[Len(bs)], <<>>), Len(bs), bs, c, V, L)
    BY FirstStage
  <2>2. d[l] = Joined(bs[l], <<>>) /\ l - 0 = l
    BY <1>1, <1>2 DEF Merges
  <2> HIDE DEF l
  <2>3. MergeStage(d[l], l, bs, c, V, L)
    BY <2>1, <2>2 DEF l
  <2> QED
    BY <2>2, <2>3
<1>4. ASSUME NEW i \in Nat, i \in G PROVE i + 1 \in G
  <2> SUFFICES ASSUME i + 1 < l PROVE MergeStage(d[l - (i + 1)], l - (i + 1), bs, c, V, L)
    OBVIOUS
  <2> DEFINE k == l - (i + 1)
  <2>1. k \in 1..(l - 1) /\ k + 1 = l - i /\ i < l /\ k \in 1..l
    BY <1>1
  <2>2. MergeStage(d[k + 1], k + 1, bs, c, V, L)
    BY <1>4, <2>1
  <2>3. d[k] = Joined(bs[k], d[k + 1])
    BY <1>2, <2>1 DEF Merges
  <2> HIDE DEF k
  <2>4. MergeStage(Joined(bs[k], d[k + 1]), k, bs, c, V, L)
    BY <2>1, <2>2, NextStage
  <2>5. MergeStage(d[k], k, bs, c, V, L)
    BY <2>3, <2>4
  <2> QED
    BY <2>5 DEF k
<1>5. \A i \in Nat : i \in G
  <2> HIDE DEF G
  <2> QED
    BY <1>3, <1>4, SetOfNaturals
<1>6. MergeStage(d[1], 1, bs, c, V, L)
  <2>1. l - 1 \in Nat /\ l - 1 < l /\ l - (l - 1) = 1
    BY <1>1
  <2>2. l - 1 \in G
    BY <1>5, <2>1
  <2> QED
    BY <2>1, <2>2
<1> QED
  BY <1>2, <1>6 DEF MergeStage, MergedFrom

LEMMA PartOf ==
  ASSUME NEW T, NEW s \in Seq(T), NEW a \in Nat, NEW b \in Nat, a <= b, b <= Len(s)
  PROVE  LET u == SubSeq(s, a + 1, b)
         IN  u \in Seq(T) /\ Len(u) = b - a /\ \A i \in 1..(b - a) : u[i] = s[a + i]
<1>1. Len(s) \in Nat /\ \A i \in 1..Len(s) : s[i] \in T
  OBVIOUS
<1>2. \A i \in (a + 1)..b : s[i] \in T
  BY <1>1
<1>3. SubSeq(s, a + 1, b) = [i \in 1..(b - a) |-> s[a + i]]
  BY <1>1
<1>4. \A i \in 1..(b - a) : s[a + i] \in T
  BY <1>2
<1>5. b - a \in Nat
  OBVIOUS
<1> DEFINE u == SubSeq(s, a + 1, b)
<1>6. u \in [1..(b - a) -> T]
  BY <1>3, <1>4
<1>7. u \in Seq(T) /\ Len(u) = b - a
  <2> HIDE DEF u
  <2> QED
    BY <1>5, <1>6
<1> QED
  BY <1>3, <1>7

LEMMA TrimmedCovers ==
  ASSUME NEW V, NEW L, Sums(V, L), NEW d \in Seq(Bucket), Tidy(d), NEW e, Covers(e, d, V, L)
  PROVE  /\ Trimmed(d) \in Seq(Bucket) /\ Tidy(Trimmed(d))
         /\ \E f : Covers(f, Trimmed(d), V, L)
<1> DEFINE m == Len(d)
           h == m \div 2
           u == SubSeq(d, h + 1, m)
           f == [i \in 0..(m - h) |-> e[h + i]]
<1>1. m \in Nat
  OBVIOUS
<1>2. h \in Nat /\ h <= m
  <2> HIDE DEF m
  <2> QED
    BY <1>1
<1>3. Trimmed(d) = u
  BY DEF Trimmed
<1> HIDE DEF h
<1>4. u \in Seq(Bucket) /\ Len(u) = m - h /\ \A i \in 1..(m - h) : u[i] = d[h + i]
  BY <1>1, <1>2, PartOf
<1> HIDE DEF u
<1>5. /\ e \in [0..m -> 0..L] /\ e[m] = L
      /\ \A k \in 1..m : e[k] = e[k - 1] + d[k].n /\ d[k].total = V[e[k]] - V[e[k - 1]]
  BY DEF Covers
<1>6. Tidy(u)
  <2>1. ASSUME NEW k \in 1..(m - h) PROVE u[k].n \in Power
    <3>1. h + k \in 1..m
      BY <1>1, <1>2
    <3> QED
      BY <3>1, <1>4 DEF Tidy
  <2>2. ASSUME NEW k \in 1..(m - h), NEW j \in 1..(m - h), j = k + 1 PROVE u[j].n < u[k].n
    <3>1. h + k \in 1..m /\ h + j \in 1..m /\ h + j = (h + k) + 1
      BY <2>2, <1>1, <1>2
    <3>2. d[h + j].n < d[h + k].n
      BY <3>1 DEF Tidy
    <3> QED
      BY <3>2, <1>4
  <2> QED
    BY <1>4, <2>1, <2>2 DEF Tidy
<1> HIDE DEF m
<1>7. f \in [0..(m - h) -> 0..L] /\ f[m - h] = L /\ \A i \in 0..(m - h) : f[i] = e[h + i]
  <2>1. \A i \in 0..(m - h) : h + i \in 0..m
    BY <1>1, <1>2
  <2>2. m - h \in 0..(m - h) /\ h + (m - h) = m
    BY <1>1, <1>2
  <2> QED
    BY <1>5, <2>1, <2>2
<1> HIDE DEF f
<1>8. ASSUME NEW k \in 1..(m - h)
      PROVE  f[k] = f[k - 1] + u[k].n /\ u[k].total = V[f[k]] - V[f[k - 1]]
  <2>1. h + k \in 1..m /\ k \in 0..(m - h) /\ k - 1 \in 0..(m - h) /\ h + (k - 1) = (h + k) - 1
    BY <1>1, <1>2
  <2>2. f[k] = e[h + k] /\ f[k - 1] = e[(h + k) - 1] /\ u[k] = d[h + k]
    BY <2>1, <1>4, <1>7
  <2> QED
    BY <2>1, <2>2, <1>5
<1>9. Covers(f, u, V, L)
  BY <1>4, <1>7, <1>8 DEF Covers
<1> QED
  BY <1>3, <1>4, <1>6, <1>9

-----------------------------------------------------------------------------
DriftTyped ==
  /\ values \in Seq(Int) /\ flowsSeen \in 0..MaxFlows
  /\ ddm.n \in Nat /\ ddm.errors \in 0..ddm.n
  /\ alerts \in Seq({"adwin", "ddm"} \X {"drift", "warning"})

(* The buckets stand for the last values, in their order.                  *)
Window(bs, vs) ==
  /\ bs \in Seq(Bucket) /\ Tidy(bs)
  /\ \E V, c : Partials(V, vs) /\ Covers(c, bs, V, Len(vs))

DriftInv == DriftTyped /\ Window(buckets, values)

LEMMA DriftInvInit == DriftInit => DriftInv
<1> SUFFICES ASSUME DriftInit PROVE DriftInv
  OBVIOUS
<1>1. DriftTyped
  BY DriftAssumption DEF DriftInit, DriftTyped
<1> DEFINE z == [i \in 0..0 |-> 0]
<1>2. Partials(z, <<>>) /\ Covers(z, <<>>, z, 0)
  BY DEF Partials, Covers
<1>3. <<>> \in Seq(Bucket) /\ Tidy(<<>>) /\ Len(<<>>) = 0
  BY DEF Tidy
<1> HIDE DEF z
<1>4. Window(<<>>, <<>>)
  BY <1>2, <1>3 DEF Window
<1> QED
  BY <1>1, <1>4 DEF DriftInit, DriftInv

(* A new value comes with a bucket of its own.                             *)
LEMMA AppendedCovers ==
  ASSUME NEW bs, NEW vs \in Seq(Int), Window(bs, vs), NEW risk \in Int
  PROVE  LET new == Append(bs, [n |-> 1, total |-> risk])
             given == Append(vs, risk)
         IN  /\ Topped(new) /\ given \in Seq(Int)
             /\ \E V, c : Partials(V, given) /\ Covers(c, new, V, Len(given))
<1> DEFINE one == [n |-> 1, total |-> risk]
           new == Append(bs, one)
           given == Append(vs, risk)
           m == Len(bs)
           L == Len(vs)
<1>1. bs \in Seq(Bucket) /\ Tidy(bs) /\ m \in Nat /\ L \in Nat
  BY DEF Window
<1>2. one \in Bucket /\ one.n = 1 /\ one.total = risk
  BY DEF Bucket
<1> HIDE DEF one
<1>3. /\ new \in Seq(Bucket) /\ Len(new) = m + 1 /\ new[m + 1] = one
      /\ \A k \in 1..m : new[k] = bs[k]
  BY <1>1, <1>2
<1>4. /\ given \in Seq(Int) /\ Len(given) = L + 1 /\ given[L + 1] = risk
      /\ \A k \in 1..L : given[k] = vs[k]
  OBVIOUS
<1>5. PICK V, c : Partials(V, vs) /\ Covers(c, bs, V, L)
  BY DEF Window
<1> HIDE DEF new, given
<1>6. Topped(new)
  <2>1. ASSUME NEW k \in 1..(m + 1) PROVE new[k].n \in Power
    <3>1. k = m + 1 \/ k \in 1..m
      BY <1>1
    <3>2. one.n \in Power
      BY <1>2, PowersDouble DEF HasDoubles
    <3>3. \A j \in 1..m : bs[j].n \in Power
      BY <1>1 DEF Tidy
    <3> QED
      BY <3>1, <3>2, <3>3, <1>3
  <2>2. \A k \in 1..m, j \in 1..m : j = k + 1 => new[j].n < new[k].n
    <3>1. \A k \in 1..m, j \in 1..m : j = k + 1 => bs[j].n < bs[k].n
      BY <1>1 DEF Tidy
    <3> HIDE DEF m
    <3> QED
      BY <3>1, <1>3
  <2>3. Len(new) >= 1 /\ Len(new) - 1 = m /\ new[Len(new)].n = 1
    BY <1>1, <1>2, <1>3
  <2> QED
    BY <1>3, <2>1, <2>2, <2>3 DEF Topped
<1> HIDE DEF m, L
<1>7. /\ V \in [0..L -> Int] /\ V[0] = 0 /\ \A k \in 1..L : V[k] = V[k - 1] + vs[k]
  BY <1>5 DEF Partials, L
<1>8. /\ c \in [0..m -> 0..L] /\ c[m] = L
      /\ \A k \in 1..m : c[k] = c[k - 1] + bs[k].n /\ bs[k].total = V[c[k]] - V[c[k - 1]]
  BY <1>5 DEF Covers, m
<1> DEFINE V2 == [i \in 0..(L + 1) |-> IF i = L + 1 THEN V[L] + risk ELSE V[i]]
           c2 == [i \in 0..(m + 1) |-> IF i = m + 1 THEN L + 1 ELSE c[i]]
<1>9. /\ V2 \in [0..(L + 1) -> Int] /\ V2[L + 1] = V[L] + risk
      /\ \A i \in 0..L : V2[i] = V[i]
  <2>1. V[L] + risk \in Int /\ \A i \in 0..L : V[i] \in Int /\ i # L + 1
    BY <1>1, <1>7
  <2>2. \A i \in 0..(L + 1) : i = L + 1 \/ i \in 0..L
    BY <1>1
  <2>3. L + 1 \in 0..(L + 1) /\ 0..L \subseteq 0..(L + 1)
    BY <1>1
  <2> QED
    BY <2>1, <2>2, <2>3
<1>10. /\ c2 \in [0..(m + 1) -> 0..(L + 1)] /\ c2[m + 1] = L + 1
       /\ \A i \in 0..m : c2[i] = c[i]
  <2>1. L + 1 \in 0..(L + 1) /\ \A i \in 0..m : c[i] \in 0..L /\ i # m + 1
    BY <1>1, <1>8
  <2>2. \A i \in 0..(m + 1) : i = m + 1 \/ i \in 0..m
    BY <1>1
  <2>3. m + 1 \in 0..(m + 1) /\ 0..m \subseteq 0..(m + 1) /\ 0..L \subseteq 0..(L + 1)
    BY <1>1
  <2> QED
    BY <2>1, <2>2, <2>3
<1> HIDE DEF V2, c2
<1>11. Partials(V2, given)
  <2>1. V2[0] = 0
    BY <1>1, <1>7, <1>9
  <2>2. ASSUME NEW k \in 1..(L + 1) PROVE V2[k] = V2[k - 1] + given[k]
    <3>1. k - 1 \in 0..L
      BY <1>1
    <3>2. CASE k = L + 1
      <4>1. given[k] = risk
        BY <3>2, <1>4 DEF L
      <4>2. V2[k] = V[L] + risk /\ V2[k - 1] = V[L]
        <5>1. k - 1 = L /\ L \in 0..L
          BY <3>2, <1>1
        <5> QED
          BY <3>2, <5>1, <1>9
      <4> QED
        BY <4>1, <4>2
    <3>3. CASE k # L + 1
      <4>1. k \in 1..L /\ k \in 0..L
        BY <3>3, <1>1
      <4>2. given[k] = vs[k]
        BY <4>1, <1>4 DEF L
      <4> QED
        BY <3>1, <4>1, <4>2, <1>7, <1>9
    <3> QED
      BY <3>2, <3>3
  <2>3. Len(given) = L + 1
    BY <1>4 DEF L
  <2> QED
    BY <2>1, <2>2, <2>3, <1>9 DEF Partials
<1>12. ASSUME NEW k \in 1..(m + 1)
       PROVE  c2[k] = c2[k - 1] + new[k].n /\ new[k].total = V2[c2[k]] - V2[c2[k - 1]]
  <2>1. k - 1 \in 0..m
    BY <1>1
  <2>2. CASE k = m + 1
    <3>1. k - 1 = m /\ m \in 0..m /\ L \in 0..L
      BY <2>2, <1>1
    <3>2. c2[k] = L + 1 /\ c2[k - 1] = L /\ new[k] = one
      BY <2>2, <3>1, <1>3, <1>8, <1>10 DEF m
    <3>3. V2[L + 1] = V[L] + risk /\ V2[L] = V[L] /\ V[L] \in Int
      BY <3>1, <1>7, <1>9
    <3> QED
      BY <3>2, <3>3, <1>1, <1>2
  <2>3. CASE k # m + 1
    <3>1. k \in 1..m /\ k \in 0..m
      BY <2>3, <1>1
    <3>2. c2[k] = c[k] /\ c2[k - 1] = c[k - 1] /\ new[k] = bs[k]
      <4>1. \A i \in 1..m : new[i] = bs[i]
        BY <1>3 DEF m
      <4> QED
        BY <2>1, <3>1, <4>1, <1>10
    <3>3. V2[c[k]] = V[c[k]] /\ V2[c[k - 1]] = V[c[k - 1]]
      BY <2>1, <3>1, <1>8, <1>9
    <3> QED
      BY <3>1, <3>2, <3>3, <1>8
  <2> QED
    BY <2>2, <2>3
<1>13. Covers(c2, new, V2, L + 1)
  <2>1. Len(new) = m + 1
    BY <1>3 DEF m
  <2> QED
    BY <2>1, <1>10, <1>12 DEF Covers
<1>14. Len(given) = L + 1
  BY <1>4 DEF L
<1>15. \E W, e : Partials(W, given) /\ Covers(e, new, W, Len(given))
  BY <1>11, <1>13, <1>14
<1> QED
  BY <1>4, <1>6, <1>15 DEF new, given, one

LEMMA ProcessKeepsDrift ==
  ASSUME DriftInv, NEW risk \in RiskValues, NEW isError \in BOOLEAN, NEW infoLogged \in BOOLEAN,
         ProcessFlow(risk, isError, infoLogged)
  PROVE  DriftInv'
<1> DEFINE bs == Append(buckets, [n |-> 1, total |-> risk])
           given == Append(values, risk)
           grown == Merged(bs)
           adwin == Changed(grown)
           d == DdmStep(isError)
<1>1. risk \in Int /\ values \in Seq(Int) /\ Window(buckets, values)
  BY DriftAssumption DEF DriftInv, DriftTyped
<1>2. Topped(bs) /\ given \in Seq(Int) /\ \E V, c : Partials(V, given) /\ Covers(c, bs, V, Len(given))
  BY <1>1, AppendedCovers
<1>3. /\ flowsSeen < MaxFlows /\ flowsSeen' = flowsSeen + 1
      /\ values' = given
      /\ buckets' = IF adwin THEN Trimmed(grown) ELSE grown
      /\ \/ UNCHANGED <<ddm, alerts>>
         \/ /\ ddm' = d.next
            /\ alerts' = IF adwin THEN Append(alerts, <<"adwin", "drift">>)
                         ELSE IF d.status = "stable" THEN alerts
                         ELSE Append(alerts, <<"ddm", d.status>>)
  BY DEF ProcessFlow
<1>4. /\ d.status \in {"stable", "drift", "warning"}
      /\ d.next.n \in Nat /\ d.next.errors \in 0..d.next.n
  <2> DEFINE n == ddm.n + 1
             errors == ddm.errors + (IF isError THEN 1 ELSE 0)
  <2>1. n \in Nat /\ errors \in 0..n
    BY DEF DriftInv, DriftTyped
  <2>2. d.status \in {"stable", "drift", "warning"}
    BY DEF DdmStep
  <2>3. \/ d.next.n = 0 /\ d.next.errors = 0
        \/ d.next.n = n /\ d.next.errors = errors
    <3> DEFINE p == (errors * 1000) \div n
               dev == IF n = 1 THEN 0 ELSE Root((p * (1000 - p)) \div n)
               least == p + dev < ddm.pMin + ddm.sMin
               pMin == IF least THEN p ELSE ddm.pMin
               sMin == IF least THEN dev ELSE ddm.sMin
               status == IF n < DdmMin THEN "stable"
                         ELSE IF p + dev > pMin + 3 * sMin THEN "drift"
                         ELSE IF p + dev > pMin + 2 * sMin THEN "warning" ELSE "stable"
               anew == [n |-> 0, errors |-> 0, pMin |-> Infinite, sMin |-> Infinite]
               on == [n |-> n, errors |-> errors, pMin |-> pMin, sMin |-> sMin]
    <3>1. d = [status |-> status, next |-> IF status = "drift" THEN anew ELSE on]
      BY DEF DdmStep
    <3>2. anew.n = 0 /\ anew.errors = 0 /\ on.n = n /\ on.errors = errors
      OBVIOUS
    <3> HIDE DEF p, dev, least, pMin, sMin, status, anew, on, n, errors, d
    <3>3. d.next = anew \/ d.next = on
      BY <3>1
    <3> QED
      BY <3>2, <3>3
  <2> HIDE DEF n, errors, d
  <2> QED
    BY <2>1, <2>2, <2>3
<1> HIDE DEF bs, given, grown, adwin, d
<1>5. PICK V, c : Partials(V, given) /\ Covers(c, bs, V, Len(given))
  BY <1>2
<1>6. Sums(V, Len(given))
  BY <1>2, <1>5 DEF Sums, Partials
<1>7. grown \in Seq(Bucket) /\ Tidy(grown) /\ \E e : Covers(e, grown, V, Len(given))
  BY <1>2, <1>5, <1>6, MergedCovers DEF grown
<1>8. Trimmed(grown) \in Seq(Bucket) /\ Tidy(Trimmed(grown))
      /\ \E e : Covers(e, Trimmed(grown), V, Len(given))
  BY <1>6, <1>7, TrimmedCovers
<1>9. Window(grown, given) /\ Window(Trimmed(grown), given)
  BY <1>5, <1>7, <1>8 DEF Window
<1>10. Window(buckets', values')
  BY <1>3, <1>9
<1>11. alerts' \in Seq({"adwin", "ddm"} \X {"drift", "warning"})
  <2> DEFINE T == {"adwin", "ddm"} \X {"drift", "warning"}
  <2>1. <<"adwin", "drift">> \in T /\ (d.status # "stable" => <<"ddm", d.status>> \in T)
    BY <1>4
  <2>2. alerts \in Seq(T)
    BY DEF DriftInv, DriftTyped
  <2> HIDE DEF T
  <2>3. \A x \in T : Append(alerts, x) \in Seq(T)
    BY <2>2
  <2>4. \/ alerts' = alerts
        \/ alerts' = Append(alerts, <<"adwin", "drift">>)
        \/ d.status # "stable" /\ alerts' = Append(alerts, <<"ddm", d.status>>)
    BY <1>3
  <2>5. alerts' \in Seq(T)
    BY <2>1, <2>2, <2>3, <2>4, Zenon
  <2> QED
    BY <2>5 DEF T
<1>12. DriftTyped'
  BY <1>2, <1>3, <1>4, <1>11, DriftAssumption DEF DriftInv, DriftTyped
<1> QED
  BY <1>10, <1>12 DEF DriftInv

-----------------------------------------------------------------------------
(* What the first k buckets have, counted.                                 *)
LEMMA ElementsOfPrefix ==
  ASSUME NEW d \in Seq(Bucket), NEW V, NEW L, NEW c, Covers(c, d, V, L), L \in Nat,
         NEW k \in 0..Len(d)
  PROVE  Elements(SubSeq(d, 1, k)) = c[k] - c[0]
<1> DEFINE m == Len(d)
           u == SubSeq(d, 1, k)
           s == [i \in DOMAIN u |-> u[i].n]
           p == [i \in 0..k |-> c[i] - c[0]]
<1>1. m \in Nat /\ k \in Nat /\ k <= m
  OBVIOUS
<1>2. u \in Seq(Bucket) /\ Len(u) = k /\ \A i \in 1..k : u[i] = d[i]
  <2>1. LET w == SubSeq(d, 0 + 1, k)
        IN  w \in Seq(Bucket) /\ Len(w) = k - 0 /\ \A i \in 1..(k - 0) : w[i] = d[0 + i]
    BY <1>1, PartOf
  <2>2. 0 + 1 = 1 /\ k - 0 = k /\ \A i \in 1..k : 0 + i = i
    BY <1>1
  <2> QED
    BY <2>1, <2>2
<1>3. \A i \in 1..m : d[i] \in Bucket
  OBVIOUS
<1>4. /\ c \in [0..m -> 0..L] /\ \A i \in 1..m : c[i] = c[i - 1] + d[i].n
  BY DEF Covers
<1> HIDE DEF u, m
<1>5. DOMAIN u = 1..k
  BY <1>1, <1>2
<1>6. s \in [1..k -> Int] /\ \A i \in 1..k : s[i] = d[i].n
  <2>1. \A i \in 1..k : u[i].n = d[i].n /\ d[i].n \in Int
    BY <1>1, <1>2, <1>3 DEF Bucket
  <2> QED
    BY <1>5, <2>1
<1> HIDE DEF s
<1>7. s \in Seq(Int) /\ Len(s) = k
  BY <1>1, <1>6
<1>8. AddsUp(p, s)
  <2>1. \A i \in 0..k : p[i] = c[i] - c[0] /\ c[i] \in Int
    BY <1>1, <1>4
  <2> HIDE DEF p
  <2>2. p[0] = 0
    BY <1>1, <2>1
  <2>3. ASSUME NEW i \in 1..k PROVE p[i] = p[i - 1] + s[i]
    <3>1. i \in 0..k /\ i - 1 \in 0..k /\ i \in 1..m /\ 0 \in 0..k
      BY <1>1
    <3>2. d[i].n \in Int
      BY <3>1, <1>3 DEF Bucket
    <3>3. /\ p[i] = c[i] - c[0] /\ p[i - 1] = c[i - 1] - c[0]
          /\ c[i] = c[i - 1] + d[i].n /\ s[i] = d[i].n
          /\ c[0] \in Int /\ c[i - 1] \in Int
      BY <3>1, <2>1, <1>4, <1>6
    <3> DEFINE x == c[0]
               y == c[i - 1]
               z == d[i].n
    <3>4. p[i] = (y + z) - x /\ p[i - 1] = y - x /\ s[i] = z /\ x \in Int /\ y \in Int /\ z \in Int
      BY <3>2, <3>3
    <3> HIDE DEF x, y, z
    <3> QED
      BY <3>4
  <2> QED
    BY <2>2, <2>3, <1>7 DEF AddsUp
<1>9. SumOf(s) = p[k]
  BY <1>7, <1>8, SumIs
<1>10. p[k] = c[k] - c[0]
  <2>1. k \in 0..k
    BY <1>1
  <2> QED
    BY <2>1
<1> HIDE DEF p
<1>11. Elements(SubSeq(d, 1, k)) = SumOf(s)
  BY DEF Elements, s, u
<1> QED
  BY <1>9, <1>10, <1>11

(* What the values from a on up to b sum to.                               *)
LEMMA SumOfValues ==
  ASSUME NEW vs \in Seq(Int), NEW V, Partials(V, vs),
         NEW a \in Nat, NEW b \in Nat, a <= b, b <= Len(vs),
         NEW u \in Seq(Int), Len(u) = b - a, \A i \in 1..(b - a) : u[i] = vs[a + i]
  PROVE  SumOf(u) = V[b] - V[a]
<1> DEFINE L == Len(vs)
           n == b - a
           p == [i \in 0..n |-> V[a + i] - V[a]]
<1>1. L \in Nat /\ b <= L /\ n \in Nat /\ a + n = b
  OBVIOUS
<1>2. V \in [0..L -> Int] /\ \A k \in 1..L : V[k] = V[k - 1] + vs[k]
  BY DEF Partials
<1> HIDE DEF L
<1>3. \A i \in 0..n : p[i] = V[a + i] - V[a] /\ V[a + i] \in Int
  BY <1>1, <1>2
<1> HIDE DEF p
<1>4. AddsUp(p, u)
  <2>1. p[0] = 0
    <3>1. 0 \in 0..n /\ a + 0 = a
      BY <1>1
    <3>2. p[0] = V[a + 0] - V[a] /\ V[a + 0] \in Int
      BY <3>1, <1>3
    <3>3. p[0] = V[a] - V[a] /\ V[a] \in Int
      BY <3>1, <3>2
    <3> DEFINE x == V[a]
    <3>4. p[0] = x - x /\ x \in Int
      BY <3>3
    <3> HIDE DEF x
    <3> QED
      BY <3>4
  <2>2. ASSUME NEW i \in 1..n PROVE p[i] = p[i - 1] + u[i]
    <3>1. i \in 0..n /\ i - 1 \in 0..n /\ a + i \in 1..L /\ a + (i - 1) = (a + i) - 1 /\ 0 \in 0..n /\ a + 0 = a
      BY <1>1
    <3>2. p[i] = V[a + i] - V[a] /\ p[i - 1] = V[(a + i) - 1] - V[a] /\ u[i] = vs[a + i]
      BY <3>1, <1>3
    <3>3. V[a + i] = V[(a + i) - 1] + vs[a + i]
      BY <3>1, <1>2
    <3>4. V[a] \in Int /\ V[(a + i) - 1] \in Int /\ vs[a + i] \in Int
      <4>1. V[a] \in Int /\ V[(a + i) - 1] \in Int
        BY <3>1, <1>3
      <4>2. vs[a + i] \in Int
        BY <3>1 DEF L
      <4> QED
        BY <4>1, <4>2
    <3> DEFINE x == V[a]
               y == V[(a + i) - 1]
               z == vs[a + i]
    <3>5. /\ p[i] = (y + z) - x /\ p[i - 1] = y - x /\ u[i] = z
          /\ x \in Int /\ y \in Int /\ z \in Int
      BY <3>2, <3>3, <3>4
    <3> HIDE DEF x, y, z
    <3> QED
      BY <3>5
  <2> QED
    BY <2>1, <2>2 DEF AddsUp
<1>5. SumOf(u) = p[Len(u)]
  BY <1>4, SumIs
<1> QED
  BY <1>1, <1>3, <1>5

LEMMA WindowSound ==
  ASSUME DriftInv
  PROVE  DriftTypeOK /\ WindowIsSuffix
<1> DEFINE m == Len(buckets)
           L == Len(values)
           n == Elements(buckets)
           latest == SubSeq(values, L - n + 1, L)
<1>1. /\ buckets \in Seq(Bucket) /\ Tidy(buckets) /\ values \in Seq(Int) /\ m \in Nat /\ L \in Nat
  BY DEF DriftInv, DriftTyped, Window
<1>2. PICK V, c : Partials(V, values) /\ Covers(c, buckets, V, L)
  BY DEF DriftInv, Window
<1>3. \A k \in 0..m : Elements(SubSeq(buckets, 1, k)) = c[k] - c[0]
  BY <1>1, <1>2, ElementsOfPrefix
<1>4. /\ c \in [0..m -> 0..L] /\ c[m] = L
      /\ \A k \in 1..m : c[k] = c[k - 1] + buckets[k].n
                         /\ buckets[k].total = V[c[k]] - V[c[k - 1]]
  BY <1>2 DEF Covers
<1>5. SubSeq(buckets, 1, m) = buckets
  BY <1>1
<1>6. n = L - c[0] /\ c[0] \in 0..L
  <2>1. 0 \in 0..m /\ m \in 0..m
    BY <1>1
  <2>2. Elements(SubSeq(buckets, 1, m)) = c[m] - c[0]
    BY <2>1, <1>3
  <2> QED
    BY <2>1, <2>2, <1>4, <1>5
<1> HIDE DEF m, n
<1>7. ASSUME NEW k \in 1..m
      PROVE  LET from == Elements(SubSeq(buckets, 1, k - 1))
             IN buckets[k].total = SumOf(SubSeq(latest, from + 1, from + buckets[k].n))
  <2> DEFINE from == Elements(SubSeq(buckets, 1, k - 1))
             to == from + buckets[k].n
             u == SubSeq(latest, from + 1, to)
  <2>1. k - 1 \in 0..m /\ k \in 0..m
    BY <1>1
  <2>2. from = c[k - 1] - c[0]
    BY <2>1, <1>3
  <2>3. buckets[k].n \in Nat
    BY <1>1, TidyTypes DEF m
  <2>4. from \in Nat
    <3>1. \A j \in Nat : j <= m => c[0] <= c[j]
      <4> DEFINE G == {j \in Nat : j <= m => c[0] <= c[j]}
      <4>1. 0 \in G
        BY <1>6
      <4>2. ASSUME NEW j \in Nat, j \in G PROVE j + 1 \in G
        <5> SUFFICES ASSUME j + 1 <= m PROVE c[0] <= c[j + 1]
          OBVIOUS
        <5>1. j + 1 \in 1..m /\ j <= m /\ (j + 1) - 1 = j /\ j \in 0..m
          BY <1>1
        <5>2. c[0] <= c[j] /\ c[j + 1] = c[j] + buckets[j + 1].n
          BY <4>2, <5>1, <1>4
        <5>3. buckets[j + 1].n \in Nat
          BY <5>1, <1>1, TidyTypes DEF m
        <5>4. c[0] \in Nat /\ c[j] \in Nat
          BY <5>1, <1>4, <1>6
        <5> QED
          BY <5>2, <5>3, <5>4
      <4> HIDE DEF G
      <4>3. \A j \in Nat : j \in G
        BY <4>1, <4>2, SetOfNaturals
      <4> QED
        BY <4>3 DEF G
    <3>2. c[0] <= c[k - 1] /\ c[k - 1] \in 0..L
      BY <2>1, <3>1, <1>1, <1>4
    <3> QED
      BY <2>2, <3>2, <1>6
  <2>5. to = c[k] - c[0] /\ c[k] \in 0..L /\ c[k - 1] \in 0..L /\ c[k] = c[k - 1] + buckets[k].n
    <3>1. c[k] \in 0..L /\ c[k - 1] \in 0..L /\ c[k] = c[k - 1] + buckets[k].n
      BY <2>1, <1>4
    <3> HIDE DEF from
    <3> QED
      BY <3>1, <2>2, <2>3, <1>6
  <2> HIDE DEF from
  <2>6. latest \in Seq(Int) /\ Len(latest) = n /\ \A i \in 1..n : latest[i] = values[c[0] + i]
    <3> DEFINE a == c[0]
    <3>1. a \in Nat /\ L \in Nat /\ a <= L /\ L <= Len(values) /\ L - n = a /\ L - a = n
      BY <1>1, <1>6
    <3> HIDE DEF L, a
    <3>2. LET w == SubSeq(values, a + 1, L)
          IN  w \in Seq(Int) /\ Len(w) = L - a /\ \A i \in 1..(L - a) : w[i] = values[a + i]
      BY <3>1, <1>1, PartOf
    <3> QED
      BY <3>1, <3>2 DEF a
  <2>7. to \in Nat /\ from <= to /\ to <= n
    <3> DEFINE x == c[k]
               y == c[0]
               z == buckets[k].n
    <3>1. to = x - y /\ x \in 0..L /\ n = L - y /\ y \in 0..L
      BY <2>5, <1>6
    <3>2. to = from + z /\ z \in Nat
      BY <2>3
    <3>3. L \in Nat
      BY <1>1
    <3> HIDE DEF x, y, z, to, L
    <3> QED
      BY <3>1, <3>2, <3>3, <2>4
  <2> HIDE DEF latest, to
  <2>8. u \in Seq(Int) /\ Len(u) = to - from /\ \A i \in 1..(to - from) : u[i] = latest[from + i]
    <3>1. to <= Len(latest)
      BY <2>6, <2>7
    <3>2. LET w == SubSeq(latest, from + 1, to)
          IN  w \in Seq(Int) /\ Len(w) = to - from /\ \A i \in 1..(to - from) : w[i] = latest[from + i]
      BY <3>1, <2>4, <2>6, <2>7, PartOf
    <3> QED
      BY <3>2
  <2> HIDE DEF u
  <2>9. /\ to - from = c[k] - c[k - 1]
        /\ \A i \in 1..(c[k] - c[k - 1]) : u[i] = values[c[k - 1] + i]
    <3>1. to - from = c[k] - c[k - 1]
      BY <2>2, <2>4, <2>5, <2>7, <1>6
    <3>2. ASSUME NEW i \in 1..(c[k] - c[k - 1]) PROVE u[i] = values[c[k - 1] + i]
      <4>0. c[0] \in Int /\ n \in Int /\ c[k - 1] \in Int /\ i \in Int
        BY <2>5, <1>1, <1>6
      <4>1. i \in 1..(to - from) /\ from + i \in 1..n /\ c[0] + (from + i) = c[k - 1] + i
        <5> DEFINE x == c[0]
                   y == c[k - 1]
        <5>1. i \in 1..(to - from)
          BY <3>1
        <5>2. from = y - x /\ x \in Int /\ y \in Int
          BY <2>2, <4>0
        <5> HIDE DEF x, y
        <5>3. from + i \in 1..n /\ x + (from + i) = y + i
          BY <5>1, <5>2, <4>0, <2>4, <2>7
        <5> QED
          BY <5>1, <5>3 DEF x, y
      <4> QED
        BY <4>1, <2>6, <2>8
    <3> QED
      BY <3>1, <3>2
  <2>10. SumOf(u) = V[c[k]] - V[c[k - 1]]
    <3> DEFINE a == c[k - 1]
               b == c[k]
    <3>1. a \in Nat /\ b \in Nat /\ a <= b /\ b <= Len(values)
      BY <2>3, <2>5, <1>1
    <3>2. Len(u) = b - a /\ \A i \in 1..(b - a) : u[i] = values[a + i]
      BY <2>8, <2>9
    <3> HIDE DEF a, b
    <3>3. SumOf(u) = V[b] - V[a]
      BY <3>1, <3>2, <2>8, <1>1, <1>2, SumOfValues
    <3> QED
      BY <3>3 DEF a, b
  <2> QED
    BY <2>10, <1>4 DEF u, to, from
<1>8. ASSUME NEW k \in 2..m PROVE 2 * buckets[k].n <= buckets[k - 1].n
  <2>1. k \in 1..m /\ k - 1 \in 1..m /\ k = (k - 1) + 1
    BY <1>1
  <2>2. /\ buckets[k].n \in Power /\ buckets[k - 1].n \in Power
        /\ buckets[k].n < buckets[k - 1].n
    BY <2>1, <1>1 DEF Tidy, m
  <2> QED
    BY <2>2, PowersAreFar
<1>9. DOMAIN buckets = 1..m /\ n <= L
  BY <1>1, <1>6 DEF m
<1>10. WindowIsSuffix
  BY <1>7, <1>8, <1>9 DEF WindowIsSuffix, n, m
<1>11. DriftTypeOK
  <2>1. \A k \in DOMAIN alerts : alerts[k] \in {"adwin", "ddm"} \X {"drift", "warning"}
    BY DEF DriftInv, DriftTyped
  <2> QED
    BY <2>1 DEF DriftInv, DriftTyped, DriftTypeOK
<1> QED
  BY <1>10, <1>11

(* The buckets are exactly the last values, and few: ADWINDetector of      *)
(* drift_detector.py, for any values and thresholds.                       *)
THEOREM WindowIsAlwaysSuffix == DriftSpec => [](DriftTypeOK /\ WindowIsSuffix)
<1>1. DriftInv /\ [DriftNext]_driftVars => DriftInv'
  <2> SUFFICES ASSUME DriftInv, [DriftNext]_driftVars PROVE DriftInv'
    OBVIOUS
  <2>1. CASE DriftNext
    BY <2>1, ProcessKeepsDrift DEF DriftNext
  <2>2. CASE UNCHANGED driftVars
    BY <2>2 DEF driftVars, DriftInv, DriftTyped, Window
  <2> QED
    BY <2>1, <2>2
<1> QED
  BY DriftInvInit, <1>1, WindowSound, PTL DEF DriftSpec

(* The properties of the three learners together, for any feedback,        *)
(* accuracies, values and bounds: online_learning.py, drift_detector.py,   *)
(* feedback_collector.py and incremental_trainer.py.                       *)
THEOREM LearnersAreAlwaysSound == LearnersSpec => []LearnersSound
<1>1. LearnerSpec => [](LearnerTypeOK /\ CheckpointImproves)
  BY CheckpointAlwaysImproves
<1>2. DriftSpec => [](DriftTypeOK /\ WindowIsSuffix)
  BY WindowIsAlwaysSuffix
<1>3. LoopSpec => [](LoopTypeOK /\ LittleIsLost)
  BY LittleIsEverLost
<1>4. /\ LearnerTypeOK /\ CheckpointImproves
      /\ DriftTypeOK /\ WindowIsSuffix
      /\ LoopTypeOK /\ LittleIsLost
      => LearnersSound
  BY DEF LearnersSound
<1> QED
  BY <1>1, <1>2, <1>3, <1>4, PTL DEF LearnersSpec
=============================================================================
