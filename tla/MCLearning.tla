------------------------------ MODULE MCLearning ------------------------------
(***************************************************************************)
(* Instances of the learning components (ml/) for TLC.  They share no      *)
(* state: `focus` is the one that runs in a behaviour, and the others stay *)
(* as they started.                                                        *)
(***************************************************************************)
EXTENDS DecisionEngine, Federated, InferenceServers, Learners, MarlTraining, TLC

VARIABLE focus

-----------------------------------------------------------------------------
(* DecisionEngine: one flow that looks like C2, one like a scan, one plain.*)
MCCalls == 1..3
MCSrc(f) == f
MCDst(f) == IF f = "f2" THEN "d2" ELSE "d1"
MCPattern(f) == CASE f = "f1" -> "c2-comm" [] f = "f2" -> "port-scan" [] OTHER -> "none"
MCSigns(f) == IF f = "f1" THEN {"risky", "c2port", "entropy", "syn"} ELSE {"scan", "syn", "exfil"}
MCRequests == {<<"f1", TRUE>>, <<"f1", FALSE>>, <<"f2", FALSE>>, <<"f3", FALSE>>}

(* ModelCache: one model in full precision fills the budget of a GPU, and  *)
(* exceeds that of the CPU.                                                *)
MCHashed(p) == p # "hf"
MCSizes(p) == IF p = "hf" THEN {1, 3} ELSE {1}
MCBudget(d) == IF d = "cpu" THEN 1 ELSE 3

(* InferenceServers: vectors as long as the agent's, and as the model's.   *)
AVector(n, bytes, scan, entropy, pps, rst) ==
  [len |-> n, at |-> (4 :> bytes @@ 5 :> scan @@ 6 :> 0 @@ 49 :> entropy @@ 52 :> 0 @@ 56 :> pps
                      @@ 57 :> rst)]
MCVectors == {AVector(50, 10, 30, 10, 110, 80), AVector(82, 10, 30, 10, 110, 80),
              AVector(82, 30, 30, 0, 110, 80), AVector(50, 10, 10, 10, 110, 80)}
MCSignals == [pps : {0, 100}, bwd : {0, 100}, iat : {0, 100}, entropy : {0, 100}, win : {0, 100}]

(* OnlineLearner: one record that earns nothing, and one of each flaw.     *)
ARecord(reward, threat, flaw) ==
  [reward |-> reward, confirmed |-> threat, threat |-> threat, flaw |-> flaw]
MCFeedback ==
  {ARecord(0, FALSE, "none"), ARecord(-1, TRUE, "none"), ARecord(1, TRUE, "action"),
   ARecord(1, FALSE, "features"), ARecord(1, FALSE, "reward")}

-----------------------------------------------------------------------------
ServingVars == <<brainVars, cacheVars, serveVars>>
TrainingVars == <<fedVars, learnerVars, driftVars, loopVars, marlVars>>

Focuses == {"decisions", "models", "answers", "rounds", "learner", "drift", "loop", "trainers"}

(* A component that does not run starts in one state only.                 *)
Init ==
  /\ focus \in Focuses
  /\ BrainInit /\ FedInit /\ CacheInit /\ ServeInit /\ LearnerInit /\ DriftInit /\ LoopInit
  /\ MarlInit
  /\ (focus # "learner" => disk.acc = 0)
  /\ (focus # "loop" => ~infoOn)
  /\ (focus # "trainers" => kind = "thor")

Serves ==
  /\ \/ focus = "decisions" /\ BrainNext /\ UNCHANGED <<cacheVars, serveVars>>
     \/ focus = "models" /\ CacheNext /\ UNCHANGED <<brainVars, serveVars>>
     \/ focus = "answers" /\ ServeNext /\ UNCHANGED <<brainVars, cacheVars>>
  /\ UNCHANGED TrainingVars

Trains ==
  /\ \/ focus = "rounds" /\ FedNext /\ UNCHANGED <<learnerVars, driftVars, loopVars, marlVars>>
     \/ focus = "learner" /\ LearnerNext /\ UNCHANGED <<fedVars, driftVars, loopVars, marlVars>>
     \/ focus = "drift" /\ DriftNext /\ UNCHANGED <<fedVars, learnerVars, loopVars, marlVars>>
     \/ focus = "loop" /\ LoopNext /\ UNCHANGED <<fedVars, learnerVars, driftVars, marlVars>>
     \/ focus = "trainers" /\ MarlNext /\ UNCHANGED <<fedVars, learnerVars, driftVars, loopVars>>
  /\ UNCHANGED ServingVars

Next == (Serves \/ Trains) /\ UNCHANGED focus

Spec == Init /\ [][Next]_<<focus, ServingVars, TrainingVars>>

=============================================================================
