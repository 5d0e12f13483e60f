-------------------------- MODULE InferenceServers --------------------------
(***************************************************************************)
(* The two inference servers: ml/serving/inference_server.py, which the    *)
(* agent asks, and ThorInferenceServer of ml/inference_server.py.          *)
(*                                                                         *)
(* A vector is [len, at]: its length and the components that some rule     *)
(* looks at, in tenths.  Risks and probabilities are percentages.          *)
(* ModelCache, the cache of loaded models under ml/, shares no state with  *)
(* them, and both may act at once.                                         *)
(***************************************************************************)
EXTENDS ModelCache, Integers

CONSTANTS
  Vectors,      \* feature vectors of the first server
  AgentLen,     \* features that the agent sends (50)
  BatchSizes,
  Probs,        \* probabilities a network gives to its first choice
  Signals       \* vectors of the second one: [pps, bwd, iat, entropy, win] in percent

(* Vectors have the components that rules look at; the agent's end before  *)
(* the byte and packet rates; signals and probabilities are normalised.    *)
ASSUME ServeAssumption ==
  /\ Vectors \subseteq [len : Nat, at : [{4, 5, 6, 49, 52, 56, 57} -> Int]]
  /\ AgentLen \in 0..56 /\ BatchSizes \subseteq Nat /\ Probs \subseteq 0..100
  /\ Signals \subseteq [pps : 0..100, bwd : Nat, iat : 0..100, entropy : 0..100, win : 0..100]

VARIABLES
  mode,       \* _model_type
  reply,      \* the last answer of the first server
  dqn,        \* ThorInferenceServer: [torch, trained, version]
  dqnReply    \* its last answer

serveVars == <<mode, reply, dqn, dqnReply>>

-----------------------------------------------------------------------------
InputDim == 82
RiskScores == <<2, 75, 85, 60, 70, 65, 90, 95>>
BlockAt == 70

(* Mutant: a short vector is not padded.                                   *)
Unpadded(v) == v.at

(* Vectors are padded with zeros, or cut, to INPUT_DIM.                    *)
Padded(v) == [i \in DOMAIN v.at |-> IF i < v.len /\ i < InputDim THEN v.at[i] ELSE 0]

(* _heuristic_predict(): 49 and 52 are the SYN and ACK flags, 57 and 56    *)
(* packets and bytes per second, 4 the duration, 5 and 6 the packets.      *)
Heuristic(v) ==
  LET f == Padded(v)
  IN CASE f[49] > 5 /\ f[52] < 1 /\ f[57] > 60 -> [class |-> 2, risk |-> 88]
       [] ~(f[49] > 5 /\ f[52] < 1 /\ f[57] > 60)
          /\ f[4] < 15 /\ f[5] < 20 /\ f[6] < 5 -> [class |-> 3, risk |-> 65]
       [] OTHER -> IF f[57] > 70 /\ f[4] < 20 THEN [class |-> 4, risk |-> 72]
                   ELSE IF f[56] > 100 THEN [class |-> 1, risk |-> 80]
                   ELSE [class |-> 0, risk |-> 3]

(* A network: any class, its risk scaled by the probability.               *)
NetAnswers == {[class |-> a, risk |-> (RiskScores[a + 1] * p) \div 100] : a \in 0..7, p \in Probs}

AnswersFor(v) == IF mode \in {"pytorch", "onnx"} THEN NetAnswers ELSE {Heuristic(v)}

ServeInit ==
  /\ mode = "none"
  /\ reply = <<>>
  /\ dqn = [torch |-> FALSE, trained |-> FALSE, version |-> "none"]
  /\ dqnReply = <<>>

(* load_model(): the first file that is there and loads.                   *)
LoadServed ==
  /\ mode = "none"
  /\ mode' \in {"pytorch", "onnx", "heuristic"}
  /\ UNCHANGED <<reply, dqn, dqnReply>>

(* Nothing is left of a request that has been answered.                    *)
Unasked == reply = <<>> /\ dqnReply = <<>>

ReplySent ==
  /\ ~Unasked
  /\ reply' = <<>> /\ dqnReply' = <<>>
  /\ UNCHANGED <<mode, dqn>>

(* A decision of /v1/analyze/batch; missing flow_ids are positions.        *)
V1Decision(i, v, ids, a) ==
  [id |-> IF i <= ids THEN <<"id", i>> ELSE <<"position", i - 1>>, len |-> v.len,
   class |-> a.class, risk |-> a.risk,
   blocked |-> a.class # 0 /\ a.risk >= BlockAt,
   confidence |-> IF a.class = 0 THEN 100 - a.risk ELSE a.risk]

(* v1_analyze_batch(): no flows, no decisions.                             *)
AnalyzeBatch(vs, ids) ==
  /\ mode # "none" /\ Unasked
  /\ \E as \in [DOMAIN vs -> UNION {AnswersFor(vs[i]) : i \in DOMAIN vs}] :
       /\ \A i \in DOMAIN vs : as[i] \in AnswersFor(vs[i])
       /\ reply' = [i \in DOMAIN vs |-> V1Decision(i, vs[i], ids, as[i])]
  /\ UNCHANGED <<mode, dqn, dqnReply>>

(* predict_batch() decides the same without "blocked"; an empty one is an  *)
(* error 400.  The confidence of the heuristics is 1 - risk even for a     *)
(* threat.                                                                 *)
PredictBatch(vs) ==
  /\ mode # "none" /\ Unasked
  /\ vs # <<>>
  /\ \E as \in [DOMAIN vs -> UNION {AnswersFor(vs[i]) : i \in DOMAIN vs}] :
       /\ \A i \in DOMAIN vs : as[i] \in AnswersFor(vs[i])
       /\ reply' = [i \in DOMAIN vs |->
            [id |-> <<"id", i>>, len |-> vs[i].len, class |-> as[i].class, risk |-> as[i].risk,
             blocked |-> FALSE, confidence |-> 100 - as[i].risk]]
  /\ UNCHANGED <<mode, dqn, dqnReply>>

(* ThorInferenceServer(): the weights are loaded, or the network stays as  *)
(* it was initialised; a file that does not fit ends the process.          *)
StartDqn(torch, trained) ==
  /\ dqn.version = "none"
  /\ trained => torch
  /\ dqn' = [torch |-> torch, trained |-> trained,
             version |-> IF trained THEN "trained-v1.0" ELSE "rule-based-v1.0"]
  /\ UNCHANGED <<mode, reply, dqnReply>>

(* Scores in hundredths: 0 to 2.5 for benign flows, from 3 on for others.  *)
ThreatScore(class, raw) ==
  CASE class = "benign" -> (raw * 5) \div 2
    [] class = "syn_flood" -> Min({1000, 300 + raw * 7})
    [] OTHER -> Min({1000, 300 + raw * 6})

(* A SYN flood is blocked from 7.0 on, a scan is only looked at.           *)
Rated(class, score) ==
  [class |-> class, score |-> score,
   action |-> CASE class = "benign" -> "ALLOW"
                [] class = "syn_flood" -> IF score >= 700 THEN "BLOCK" ELSE "THROTTLE"
                [] OTHER -> "INSPECT"]

(* How much the signals speak for a flood, a scan and neither.             *)
SignalScores(s) ==
  [syn |-> (s.pps * 5 + (100 - Min({s.bwd, 100})) * 3 + (100 - s.iat) * 2) \div 10,
   scan |-> (s.entropy * 7 + (100 - s.win) * 3) \div 10,
   normal |-> ((100 - s.pps) * 4 + s.iat * 3 + s.win * 3) \div 10]

(* _rule_based_predict(): the first of the largest scores.                 *)
RuleBased(s) ==
  LET r == SignalScores(s)
      class == IF r.syn >= r.scan /\ r.syn >= r.normal THEN "syn_flood"
               ELSE IF r.scan >= r.normal THEN "port_scan" ELSE "benign"
  IN Rated(class, ThreatScore(class, Max({r.syn, r.scan, r.normal})))

(* _neural_predict(): the action is chosen by another head than the class. *)
NeuralAnswers ==
  {[class |-> c, action |-> a, score |-> IF c = "benign" THEN p * 2 ELSE 300 + p * 7]
     : c \in {"benign", "syn_flood"}, a \in {"ALLOW", "BLOCK"}, p \in Probs}

(* POST /predict: with torch the network answers, trained or not.          *)
DqnPredict(s) ==
  /\ dqn.version # "none" /\ Unasked
  /\ \E a \in (IF dqn.torch THEN NeuralAnswers ELSE {RuleBased(s)}) : dqnReply' = <<a>>
  /\ UNCHANGED <<mode, reply, dqn>>

ServeNext ==
  \/ LoadServed
  \/ ReplySent
  \/ \E n \in BatchSizes : \E vs \in [1..n -> Vectors] :
       PredictBatch(vs) \/ \E ids \in 0..n : AnalyzeBatch(vs, ids)
  \/ \E torch, trained \in BOOLEAN : StartDqn(torch, trained)
  \/ \E s \in Signals : DqnPredict(s)

ServeSpec == ServeInit /\ [][ServeNext]_serveVars

-----------------------------------------------------------------------------
(* The variables keep their types.                                         *)
ServeTypeOK ==
  /\ mode \in {"none", "pytorch", "onnx", "heuristic"}
  /\ \A i \in DOMAIN reply : reply[i].class \in 0..7 /\ reply[i].risk \in 0..100

(* Only a threat is blocked.  Without a model, no flow is blocked that has *)
(* the agent's 50 features: the rules that would look beyond them, where   *)
(* the padding is.  By the rules of the second server, a score tells a     *)
(* threat from a benign flow, and what is blocked is a SYN flood of 7.0 on.*)
BlockedForAReason ==
  /\ \A i \in DOMAIN reply : reply[i].blocked =>
       /\ reply[i].class # 0 /\ reply[i].risk >= BlockAt
       /\ ~(mode = "heuristic" /\ reply[i].len <= AgentLen)
  /\ \A i \in DOMAIN dqnReply :
       /\ dqnReply[i].score \in 0..1000
       /\ dqnReply[i].class = "benign" <=> dqnReply[i].score < 300
       /\ dqnReply[i].action = "BLOCK" /\ ~dqn.torch =>
            dqnReply[i].class = "syn_flood" /\ dqnReply[i].score >= 700
-----------------------------------------------------------------------------
ServingSpec == CacheSpec /\ ServeSpec

(* The served models fit, and only threats are blocked: CacheWithinBounds  *)
(* of ModelCache (model_cache.py), BlockedForAReason (the two              *)
(* inference_server.py).                                                   *)
ServingSound == CacheTypeOK /\ ServeTypeOK /\ CacheWithinBounds /\ BlockedForAReason
=============================================================================
