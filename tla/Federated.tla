------------------------------ MODULE Federated ------------------------------
(***************************************************************************)
(* Federated learning: FederatedServer, its routes and FederatedClient of  *)
(* ml/federated/fed_learning.py.                                           *)
(*                                                                         *)
(* A client that has stopped waiting for the answer to its POST may start  *)
(* another round while the update is still on its way.  Nothing in the     *)
(* repository calls aggregate_round() or the checkpoint functions: one     *)
(* caller that calls them one after the other is assumed.                  *)
(***************************************************************************)
EXTENDS Naturals, FiniteSets, FiniteSetsExt

CONSTANTS
  FedClients,   \* clients of the federation
  Datasets,     \* sizes of local datasets
  MinClients,   \* FedConfig.min_clients
  MaxRounds,    \* bound of this model: aggregations
  MaxOnWire,    \* bound of this model: updates on their way
  MaxLoads      \* bound of this model: checkpoints loaded

ASSUME FedAssumption ==
  MinClients \in Nat \ {0} /\ Datasets \subseteq Nat /\ MaxRounds \in Nat

VARIABLES
  round,      \* FederatedServer._round
  model,      \* the global model: one number for each one there has been
  pending,    \* _pending_updates: at most one for each client
  ready,      \* _round_ready
  waiting,    \* aggregate_round() waits for the event
  saved,      \* the checkpoint file, or none
  loads,      \* checkpoints loaded so far
  models,     \* global models there have been so far
  fedClient,  \* fedClient[c]: [phase, round, base]
  wire,       \* updates that were posted and have not arrived
  averaged    \* history: of the last aggregation, its updates and its model

fedVars == <<round, model, pending, ready, waiting, saved, loads, models,
             fedClient, wire, averaged>>

-----------------------------------------------------------------------------
Resting == [phase |-> "idle", round |-> 0, base |-> 0, loads |-> 0]

FedInit ==
  /\ round = 0
  /\ model = 0
  /\ pending = {}
  /\ ready = FALSE
  /\ waiting = FALSE
  /\ saved = {}
  /\ loads = 0
  /\ models = 0
  /\ fedClient = [c \in FedClients |-> Resting]
  /\ wire = {}
  /\ averaged = [updates |-> {}, round |-> 0, model |-> 0, loads |-> 0]

server == <<round, model, pending, ready, waiting, saved, loads, models, averaged>>

(* GET /federated/model is answered; the client loads the model.           *)
FetchModel(c) ==
  /\ fedClient[c].phase = "idle"
  /\ fedClient' = [fedClient EXCEPT ![c] =
       [phase |-> "loaded", round |-> round, base |-> model, loads |-> loads]]
  /\ UNCHANGED <<server, wire>>

(* _local_train() makes the deltas, and _send_update() posts them: an      *)
(* empty dataset ends the round.                                           *)
TrainAndPost(c, samples) ==
  LET x == fedClient[c] IN
  /\ x.phase = "loaded"
  /\ IF samples = 0
     THEN fedClient' = [fedClient EXCEPT ![c] = Resting] /\ UNCHANGED wire
     ELSE /\ Cardinality(wire) < MaxOnWire
          /\ fedClient' = [fedClient EXCEPT ![c].phase = "posted"]
          /\ wire' = wire \cup {[client |-> c, round |-> x.round, base |-> x.base,
                                 loads |-> x.loads, samples |-> samples]}
  /\ UNCHANGED server

(* The POST has been answered, or has failed: run_round() returns.         *)
PostEnds(c) ==
  /\ fedClient[c].phase = "posted"
  /\ fedClient' = [fedClient EXCEPT ![c] = Resting]
  /\ UNCHANGED <<server, wire>>

UpdateLost(u) ==
  /\ u \in wire
  /\ wire' = wire \ {u}
  /\ UNCHANGED <<server, fedClient>>

(* Mutant: the server does not compare the rounds.                         *)
AnyRound(u) == TRUE

ForThisRound(u) == u.round = round

(* POST /federated/update: receive_update().                               *)
ReceiveUpdate(u) ==
  /\ u \in wire
  /\ wire' = wire \ {u}
  /\ IF ForThisRound(u)
     THEN /\ pending' = {p \in pending : p.client # u.client} \cup {u}
          /\ ready' = (ready \/ Cardinality(pending') >= MinClients)
     ELSE UNCHANGED <<pending, ready>>
  /\ UNCHANGED <<round, model, waiting, saved, loads, models, fedClient, averaged>>

BeginAggregate ==
  /\ ~waiting
  /\ waiting' = TRUE
  /\ UNCHANGED <<round, model, pending, ready, saved, loads, models, fedClient, wire, averaged>>

(* round_timeout_sec has gone by.                                          *)
AggregateTimesOut ==
  /\ waiting
  /\ Cardinality(pending) < MinClients
  /\ waiting' = FALSE
  /\ UNCHANGED <<round, model, pending, ready, saved, loads, models, fedClient, wire, averaged>>

(* FedAvg, in one piece once the event is set: the deltas, weighted by the *)
(* samples, make the next model.                                           *)
Aggregate ==
  /\ waiting
  /\ ready
  /\ models < MaxRounds
  /\ waiting' = FALSE
  /\ ready' = FALSE
  /\ pending' = {}
  /\ IF MapThenSumSet(LAMBDA u : u.samples, pending) = 0
     THEN UNCHANGED <<round, model, models, averaged>>
     ELSE /\ round' = round + 1
          /\ models' = models + 1
          /\ model' = models'
          /\ averaged' = [updates |-> pending, round |-> round, model |-> model, loads |-> loads]
  /\ UNCHANGED <<saved, loads, fedClient, wire>>

SaveCheckpoint ==
  /\ ~waiting
  /\ saved' = {[round |-> round, model |-> model]}
  /\ UNCHANGED <<round, model, pending, ready, waiting, loads, models, fedClient, wire, averaged>>

(* load_checkpoint() leaves the pending updates alone; a restart of the    *)
(* process that calls it finds none.                                       *)
LoadCheckpoint(restart) ==
  /\ ~waiting
  /\ loads < MaxLoads
  /\ \E s \in saved : round' = s.round /\ model' = s.model
  /\ loads' = loads + 1
  /\ IF restart THEN pending' = {} /\ ready' = FALSE ELSE UNCHANGED <<pending, ready>>
  /\ UNCHANGED <<waiting, saved, models, fedClient, wire, averaged>>

FedNext ==
  \/ \E c \in FedClients :
       FetchModel(c) \/ PostEnds(c) \/ \E n \in Datasets : TrainAndPost(c, n)
  \/ \E u \in wire : UpdateLost(u) \/ ReceiveUpdate(u)
  \/ BeginAggregate \/ AggregateTimesOut \/ Aggregate
  \/ SaveCheckpoint
  \/ \E restart \in BOOLEAN : LoadCheckpoint(restart)

FedSpec == FedInit /\ [][FedNext]_fedVars

-----------------------------------------------------------------------------
(* The variables keep their types.                                         *)
FedTypeOK ==
  /\ round \in 0..MaxRounds /\ model \in 0..models
  /\ ready \in BOOLEAN /\ waiting \in BOOLEAN
  /\ \A c \in FedClients : fedClient[c].phase \in {"idle", "loaded", "posted"}

(* However late, lost or overtaken updates are, a round averages one       *)
(* update of each of at least MinClients clients, and each was trained     *)
(* from the very model it is added to, unless a checkpoint was loaded in   *)
(* between; and the event is set exactly when enough updates are there.    *)
RoundsAreSound ==
  /\ ready <=> Cardinality(pending) >= MinClients
  /\ \A u, v \in pending : u.client = v.client => u = v
  /\ averaged.updates # {} =>
       /\ Cardinality({u.client : u \in averaged.updates}) >= MinClients
       /\ \A u \in averaged.updates :
            /\ u.round = averaged.round \/ averaged.loads > u.loads
            /\ u.loads = averaged.loads => u.base = averaged.model

(* The federation keeps its types and averages what it may: the server's   *)
(* half of fed_learning.py, receive_update(), aggregate_round() and        *)
(* load_checkpoint(), against clients that come late.                      *)
FederationSound == FedTypeOK /\ RoundsAreSound
=============================================================================
