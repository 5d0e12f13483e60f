------------------------------ MODULE Learners ------------------------------
(***************************************************************************)
(* What learns while the system runs, under ml/online/ and ml/training/:   *)
(* the online learner, the drift monitor and the feedback loop, which      *)
(* share no state and may act at once.                                     *)
(***************************************************************************)
EXTENDS OnlineLearner, DriftMonitor, FeedbackLoop

LearnersSpec == LearnerSpec /\ DriftSpec /\ LoopSpec

(* What the learners keep is what they saw: CheckpointImproves of          *)
(* OnlineLearner (online_learning.py), WindowIsSuffix of DriftMonitor      *)
(* (drift_detector.py), LittleIsLost of FeedbackLoop                       *)
(* (feedback_collector.py, incremental_trainer.py).                        *)
LearnersSound ==
  /\ LearnerTypeOK /\ DriftTypeOK /\ LoopTypeOK
  /\ CheckpointImproves /\ WindowIsSuffix /\ LittleIsLost
=============================================================================
