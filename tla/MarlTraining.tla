---------------------------- MODULE MarlTraining ----------------------------
(***************************************************************************)
(* How the agents are trained: ml/marl (agents.py, environment.py,         *)
(* brain/ppo.py, ray_trainer.py), ml/training/train_marl_full.py.          *)
(*                                                                         *)
(* A trainer lets agents act in simulated environments, buffers the        *)
(* transitions and turns them into advantages.  The networks are numbers:  *)
(* one for each step of an optimizer.                                      *)
(***************************************************************************)
EXTENDS Naturals, Integers, Sequences, FiniteSets, FiniteSetsExt

CONSTANTS
  Agents,     \* 1, 2, ...: agents, each with an environment of its own
  Taken,      \* the actions looked at, some of ACTION_SPACE
  Trainers,   \* the trainers looked at: "thor", "flow", "ray"
  MaxSteps,   \* steps of an episode
  BatchSize,  \* transitions of a rollout
  MaxLate,    \* bound of this model: transitions over BatchSize
  Scores,     \* validation accuracies, mean rewards
  MaxWeights  \* bound of this model: optimizer steps

ASSUME MarlAssumption ==
  /\ MaxSteps \in Nat \ {0} /\ BatchSize \in Nat \ {0} /\ MaxLate \in Nat
  /\ Agents \subseteq Nat /\ Agents # {} /\ IsFiniteSet(Agents)
  /\ Trainers \subseteq {"thor", "flow", "ray"}
  /\ Scores \subseteq Nat /\ MaxWeights \in Nat

VARIABLES
  kind,         \* the trainer: "thor" for ml/marl, "flow" for train_marl_full.py,
                \* "ray" for ray_trainer.py
  trainPhase,   \* "pretrain" or "rl"
  envs,         \* envs[a]: [step, shown, tp, tn, fp, fn, done] of an environment
  buffer,       \* the experience buffer: [who, shown, judged, reward, good, done]
  totalSteps,   \* total_steps, in batches
  collected,    \* history: transitions of the batches updated from
  weights,      \* the network
  bestWeights,  \* [score, weights] of the best state or checkpoint
  history,      \* history[w]: the score of the network w
  begun         \* history: the network that "rl" began with

networks == <<weights, bestWeights, history, begun>>
marlVars == <<kind, trainPhase, envs, buffer, totalSteps, collected, networks>>

-----------------------------------------------------------------------------
(* ACTION_SPACE; the last two neither stop a flow nor slow it down.        *)
Actions == Taken \cap {"allow", "block", "throttle", "mirror", "honeypot"}

(* environment.py has one agent.                                           *)
Crew == IF kind = "thor" THEN {Min(Agents)} ELSE Agents

(* RewardFunction.compute: to throttle is to block.                        *)
ThorReward(action, attack) ==
  CASE attack /\ action \in {"block", "throttle"}  -> 10
    [] attack /\ action \notin {"block", "throttle"} -> -20
    [] ~attack /\ action \in {"block", "throttle"} -> -5
    [] OTHER -> 1

(* NetworkFlowEnv._compute_reward, in tenths; "throttle" is its rate limit *)
(* and "mirror" its alert, and the fifth action gets nothing.              *)
FlowReward(action, attack) ==
  CASE action = "allow"    -> IF attack THEN -50 ELSE 10
    [] action = "block"    -> IF attack THEN 30 ELSE -30
    [] action = "throttle" -> IF attack THEN 15 ELSE -5
    [] action = "mirror"   -> IF attack THEN 20 ELSE -2
    [] OTHER               -> 0

(* ThorNetworkEnv._compute_reward (ray): only "block" blocks.              *)
RayReward(action, attack) ==
  IF action = "block" THEN (IF attack THEN 10 ELSE -5) ELSE (IF attack THEN -10 ELSE 1)

Reward(action, attack) ==
  CASE kind = "thor" -> ThorReward(action, attack)
    [] kind = "flow" -> FlowReward(action, attack)
    [] kind = "ray"  -> RayReward(action, attack)

-----------------------------------------------------------------------------
(* reset(): the first observation of ThorNetworkEnv is benign; that of     *)
(* NetworkFlowEnv is of its first flow.                                    *)
Fresh(attack) ==
  [step |-> 0, shown |-> attack, tp |-> 0, tn |-> 0, fp |-> 0, fn |-> 0, done |-> FALSE]

FirstShown(k) == IF k = "flow" THEN BOOLEAN ELSE {FALSE}

MarlInit ==
  /\ kind \in Trainers
  /\ trainPhase = IF kind = "thor" THEN "pretrain" ELSE "rl"
  /\ \E f \in [Agents -> FirstShown(kind)] : envs = [a \in Agents |-> Fresh(f[a])]
  /\ buffer = <<>>
  /\ totalSteps = 0
  /\ collected = 0
  /\ weights = 0
  /\ bestWeights = [score |-> IF kind = "ray" THEN -1 ELSE 0, weights |-> 0]
  /\ history = <<>>
  /\ begun = 0

(* The flow that the action is judged by.  ThorNetworkEnv draws it after   *)
(* the action, whatever the observation has shown; NetworkFlowEnv keeps    *)
(* the one that it has shown.                                              *)
Judged(e, drawn) == IF kind = "flow" THEN e.shown ELSE drawn

Blocked(action) == action \in {"block", "throttle"}
Counted(e, f, yes) == IF yes THEN [e EXCEPT ![f] = @ + 1] ELSE e

Outcome(action, attack) ==
  CASE attack /\ Blocked(action)  -> "tp"
    [] ~attack /\ ~Blocked(action) -> "tn"
    [] ~attack /\ Blocked(action) -> "fp"
    [] OTHER -> "fn"

(* step(): the next observation is of the flow drawn.                      *)
Stepped(e, action, drawn) ==
  [Counted(e, Outcome(action, Judged(e, drawn)), kind = "thor") EXCEPT
     !.step = @ + 1, !.shown = drawn, !.done = e.step + 1 >= MaxSteps]

Transition(a, action, drawn) ==
  LET e == envs[a] IN
  [who |-> a, shown |-> e.shown, judged |-> Judged(e, drawn),
   good |-> Outcome(action, Judged(e, drawn)) \in {"tp", "tn"},
   reward |-> Reward(action, Judged(e, drawn)), done |-> e.step + 1 >= MaxSteps]

(* The agents act in turn, and what they see is stored.  An environment    *)
(* that is done is reset before its next step.                             *)
NextAgent ==
  LET later == {a \in Crew : buffer # <<>> /\ a > buffer[Len(buffer)].who}
  IN IF later = {} THEN Min(Crew) ELSE Min(later)

Act(a, action, drawn) ==
  /\ trainPhase = "rl"
  /\ a = NextAgent
  /\ ~envs[a].done
  /\ Len(buffer) < BatchSize + MaxLate
  /\ buffer' = Append(buffer, Transition(a, action, drawn))
  /\ envs' = [envs EXCEPT ![a] = Stepped(@, action, drawn)]
  /\ UNCHANGED <<kind, trainPhase, totalSteps, collected, networks>>

ResetEnv(a, attack) ==
  /\ envs[a].done
  /\ attack \in FirstShown(kind)
  /\ envs' = [envs EXCEPT ![a] = Fresh(attack)]
  /\ UNCHANGED <<kind, trainPhase, buffer, totalSteps, collected, networks>>

-----------------------------------------------------------------------------
(* Mutant: the end of an episode is not looked at.                         *)
FlowsOnAlways(b, t) == t < Len(b)

(* Generalized advantage estimation, from the last transition to the first *)
(* one: the advantage of t goes on into that of t + 1 unless t is done.    *)
(* Reach(b)[t] is the set of transitions whose reward is in advantage t.   *)
FlowsOn(b, t) == t < Len(b) /\ ~b[t].done

Reach(b) ==
  LET r[t \in 1..Len(b)] == {t} \cup IF FlowsOn(b, t) THEN r[t + 1] ELSE {}
  IN r

(* The network is kept when its score is better than all before.           *)
Better(score) ==
  IF score > bestWeights.score THEN [score |-> score, weights |-> weights + 1] ELSE bestWeights

(* An update from the buffer, which is cleared.  The trainer of            *)
(* train_marl_full.py computes the advantages and does nothing with them.  *)
UpdatePolicy(score) ==
  /\ trainPhase = "rl"
  /\ Len(buffer) >= BatchSize
  /\ weights < MaxWeights
  /\ buffer' = <<>>
  /\ totalSteps' = totalSteps + 1
  /\ collected' = collected + Len(buffer)
  /\ IF kind = "flow" THEN UNCHANGED <<weights, history, bestWeights>>
     ELSE /\ weights' = weights + 1
          /\ history' = Append(history, score)
          /\ bestWeights' = IF kind = "ray" THEN Better(score) ELSE bestWeights
  /\ totalSteps < MaxWeights
  /\ UNCHANGED <<kind, trainPhase, envs, begun>>

(* pretrain_supervised: an epoch and its validation.                       *)
PretrainEpoch(score) ==
  /\ trainPhase = "pretrain"
  /\ weights < MaxWeights - 1
  /\ weights' = weights + 1
  /\ history' = Append(history, score)
  /\ bestWeights' = Better(score)
  /\ UNCHANGED <<kind, trainPhase, envs, buffer, totalSteps, collected, begun>>

(* The best state is restored, if one was ever kept.                       *)
EndPretrain ==
  /\ trainPhase = "pretrain" /\ weights > 0
  /\ trainPhase' = "rl"
  /\ weights' = IF bestWeights.weights > 0 THEN bestWeights.weights ELSE weights
  /\ history' = SubSeq(history, 1, weights')
  /\ begun' = weights'
  /\ UNCHANGED <<kind, envs, buffer, totalSteps, collected, bestWeights>>

MarlNext ==
  \/ \E a \in Crew : \E attack \in BOOLEAN :
       \/ \E action \in Actions : Act(a, action, attack)
       \/ ResetEnv(a, attack)
  \/ \E score \in Scores : UpdatePolicy(score) \/ PretrainEpoch(score)
  \/ EndPretrain

MarlSpec == MarlInit /\ [][MarlNext]_marlVars

-----------------------------------------------------------------------------
(* The variables keep their types.                                         *)
MarlTypeOK ==
  /\ trainPhase \in {"pretrain", "rl"}
  /\ weights \in 0..MaxWeights /\ Len(history) = weights
  /\ \A a \in Agents : envs[a].step \in 0..MaxSteps
  /\ Len(buffer) <= BatchSize + MaxLate

(* The positions of a's own episode from t on, as far as it is buffered.   *)
RestOfEpisode(t) ==
  {u \in t..Len(buffer) : /\ buffer[u].who = buffer[t].who
                          /\ \A v \in t..u - 1 : ~(buffer[v].who = buffer[t].who /\ buffer[v].done)}

(* In ml/marl, where a buffer has the transitions of one agent, the        *)
(* advantage of a transition is made of all rewards that are buffered of   *)
(* the rest of its episode, and of no others.  In train_marl_full.py the   *)
(* agents take turns in one buffer: the rewards of others get in, and the  *)
(* end of an episode of theirs cuts the advantage short; of the agent's    *)
(* own it still has none past the end of its episode.  (The advantages of  *)
(* ray_trainer.py are computed by RLlib.)                                  *)
AdvantagesStayInEpisode ==
  kind # "ray" =>
    \A t \in 1..Len(buffer) :
      LET own == {u \in Reach(buffer)[t] : buffer[u].who = buffer[t].who} IN
      /\ own \subseteq RestOfEpisode(t)
      /\ Cardinality(Crew) = 1 => Reach(buffer)[t] = RestOfEpisode(t)

(* What is learnt from is what was seen: the flow environment rewards the  *)
(* flow it has shown; the one of ml/marl counts every step of an episode   *)
(* once and rewards what it counts as right.                               *)
RewardsAreAccounted ==
  /\ kind = "flow" => \A t \in 1..Len(buffer) : buffer[t].judged = buffer[t].shown
  /\ kind = "thor" => \A t \in 1..Len(buffer) : buffer[t].good <=> buffer[t].reward > 0
  /\ kind = "thor" => \A a \in Crew :
       envs[a].tp + envs[a].tn + envs[a].fp + envs[a].fn = envs[a].step
  /\ totalSteps * BatchSize <= collected

(* pretrain_supervised() and train() of ray_trainer.py: no network has     *)
(* scored above the one that is kept, all before it scored less, and only  *)
(* scores of zero leave none kept in pretraining; what follows pretraining *)
(* begins with the kept one.  (train_marl_full.py keeps none.)             *)
KeptIsBest ==
  LET best == bestWeights.weights IN
  /\ kind = "ray" \/ trainPhase = "pretrain" =>
       \A w \in 1..Len(history) : history[w] <= bestWeights.score
  /\ best = 0 => bestWeights.score = IF kind = "ray" THEN -1 ELSE 0
  /\ best > 0 =>
       /\ best <= weights /\ history[best] = bestWeights.score
       /\ \A w \in 1..(best - 1) : history[w] < bestWeights.score
  /\ kind = "thor" /\ trainPhase = "rl" /\ best > 0 => begun = best

TrainingIsSound == AdvantagesStayInEpisode /\ RewardsAreAccounted /\ KeptIsBest

(* The trainers are well-typed; in ml/marl an advantage stays in its       *)
(* episode and every step is counted once; train_marl_full.py rewards what *)
(* it has shown; pretraining and ray_trainer.py keep the first of the best *)
(* networks, and training goes on from that of pretraining.                *)
PoliciesSound == MarlTypeOK /\ TrainingIsSound
=============================================================================
