---------------------------- MODULE OnlineLearner ----------------------------
(***************************************************************************)
(* OnlineLearner and PrioritizedReplayBuffer: ml/training/                 *)
(* online_learning.py.  Feedback comes from callers and from the Kafka     *)
(* thread through a bounded queue; run() drains it, updates, evaluates and *)
(* saves.  The checkpoint file outlives the process.                       *)
(***************************************************************************)
EXTENDS Ordering, Integers, SequencesExt, FiniteSetsExt

CONSTANTS
  Feedback,     \* records: [reward, confirmed, threat, flaw]
  QueueMax,     \* maxsize of the queue
  DrainMax,     \* records drained in one turn (1000)
  Capacity,     \* of the replay buffer
  DropDivisor,  \* the share of it that goes when it is full (10)
  MinBuffer, EvalBuffer, SampleMax,
  UpdateFreq, EvalFreq,
  Accuracies,   \* what an evaluation may find
  MaxRestarts, MaxLearnSteps   \* bounds of this model

(* What nobody checks in a record: its features may not be a vector, its   *)
(* action not one of the model's, its reward not a finite number.          *)
Flaws == {"none", "features", "action", "reward"}

ASSUME LearnerAssumption ==
  /\ Feedback \subseteq [reward : Int, confirmed : BOOLEAN, threat : BOOLEAN, flaw : Flaws]
  /\ Accuracies \subseteq Nat
  /\ QueueMax \in Nat \ {0} /\ SampleMax \in Nat /\ MaxLearnSteps \in Nat
  /\ Capacity \in Nat \ {0} /\ DropDivisor \in 1..(Capacity + 1)   \* what is dropped is something

VARIABLES
  phase,     \* run(): "off", "drain", "update", "evaluate", "save", "dead"
  running,   \* _running
  inbox,     \* _q
  drained,   \* records drained in this turn
  replay,    \* the buffer: [p, flaw], the priority of a record and its flaw
  step,      \* _step
  best,      \* _best
  disk,      \* thor_marl_best.pt: [acc, run, whole], its accuracy, the process that
             \* wrote it, and whether it got to the end
  found,     \* history: the accuracies this process has found
  runNo      \* processes so far

learnerVars == <<phase, running, inbox, drained, replay, step, best, disk, found, runNo>>

-----------------------------------------------------------------------------
(* add(): |reward|, times 1.5 if confirmed, times 2 for a threat, in       *)
(* halves; the exponent alpha keeps the order, and the zero.               *)
Priority(r) == (IF r.reward < 0 THEN -r.reward ELSE r.reward)
               * (IF r.confirmed THEN 3 ELSE 2) * (IF r.threat THEN 2 ELSE 1)

LearnerInit ==
  /\ phase = "off"
  /\ running = FALSE
  /\ inbox = <<>>
  /\ drained = 0
  /\ replay = <<>>
  /\ step = 0
  /\ best = 0
  /\ disk \in [acc : Accuracies \cup {0}, run : {0}, whole : {TRUE}]
  /\ found = {}
  /\ runNo = 1

(* Nothing catches an exception: run() ends.                               *)
Raised ==
  /\ phase' = "dead"
  /\ UNCHANGED <<running, inbox, drained, replay, step, best, disk, found, runNo>>

(* run(): the checkpoint is loaded if there is one, but not its accuracy;  *)
(* a torn file cannot be loaded.                                           *)
RunLearner ==
  /\ phase = "off"
  /\ \/ ~disk.whole /\ Raised
     \/ /\ disk.whole
        /\ phase' = "drain"
        /\ running' = TRUE
        /\ UNCHANGED <<inbox, drained, replay, step, best, disk, found, runNo>>

(* add_feedback() and the Kafka thread: a record that finds the queue full *)
(* is dropped.                                                             *)
Offer(r) ==
  /\ inbox' = IF Len(inbox) < QueueMax THEN Append(inbox, r) ELSE inbox
  /\ UNCHANGED <<phase, running, drained, replay, step, best, disk, found, runNo>>

(* Python's stable sort: the places, by priority and then by place.  Among *)
(* priorities that are not numbers it may leave any order.                 *)
Ascending(s) ==
  {w \in (1..Len(s)) \X (1..Len(s)) :
     \/ s[w[1]].p < s[w[2]].p
     \/ s[w[1]].p = s[w[2]].p /\ w[1] < w[2]}
Comparable(s) == \A k \in DOMAIN s : s[k].flaw # "reward"
SortedBy(s) ==
  IF Comparable(s) THEN {Arranged(1..Len(s), Ascending(s))}
  ELSE {q \in [1..Len(s) -> 1..Len(s)] : \A i, j \in 1..Len(s) : i # j => q[i] # q[j]}

(* add(): a full buffer is sorted, and loses its lowest records.           *)
Stored(record) ==
  LET all == Append(replay, record)
      low == Len(all) \div DropDivisor
  IN IF Len(all) <= Capacity THEN {all}
     ELSE {[n \in 1..(Len(all) - low) |-> all[q[low + n]]] : q \in SortedBy(all)}

Drain ==
  /\ phase = "drain"
  /\ inbox # <<>> /\ drained < DrainMax
  /\ inbox' = Tail(inbox)
  /\ replay' \in Stored([p |-> Priority(Head(inbox)), flaw |-> Head(inbox).flaw])
  /\ drained' = drained + 1
  /\ UNCHANGED <<phase, running, step, best, disk, found, runNo>>

DrainEnds ==
  /\ phase = "drain"
  /\ inbox = <<>> \/ drained >= DrainMax
  /\ phase' = "update"
  /\ drained' = 0
  /\ UNCHANGED <<running, inbox, replay, step, best, disk, found, runNo>>

(* sample(): choice() without replacement finds nothing, and raises, when  *)
(* fewer records than asked for have a probability above zero, or one has  *)
(* none; stacking features of other shapes raises, too.                    *)
Draws ==
  {D \in SUBSET {k \in DOMAIN replay : replay[k].p > 0} :
     Comparable(replay) /\ Cardinality(D) = Min({SampleMax, Len(replay)})}
Has(D, flaws) == \E k \in D : replay[k].flaw \in flaws

(* A sample can be taken, and nothing in it makes what follows raise.      *)
Sampled(flaws) == \E D \in Draws : ~Has(D, flaws)
SampleRaises(flaws) == Draws = {} \/ \E D \in Draws : Has(D, flaws)

UpdateDue == Len(replay) >= MinBuffer /\ step % UpdateFreq = 0

(* _update_step(): cross_entropy() raises for an action that is not one.   *)
Update ==
  /\ phase = "update"
  /\ \/ UpdateDue /\ SampleRaises({"features", "action"}) /\ Raised
     \/ /\ ~UpdateDue \/ Sampled({"features", "action"})
        /\ phase' = "evaluate"
        /\ UNCHANGED <<running, inbox, drained, replay, step, best, disk, found, runNo>>

(* Mutant: _save_if_improved() without the comparison.                     *)
AlwaysImproved(acc) == TRUE

Improved(acc) == acc > best

(* The next step; stop() is looked at.                                     *)
NextTurn ==
  /\ step < MaxLearnSteps
  /\ step' = step + 1
  /\ phase' = IF running THEN "drain" ELSE "off"
  /\ UNCHANGED <<running, inbox, drained, replay, best, runNo>>

EvaluationDue == step > 0 /\ step % EvalFreq = 0 /\ Len(replay) >= EvalBuffer

(* The evaluation looks at the model's answers and needs no valid action.  *)
(* _save_if_improved() notes the best one before it saves it.              *)
Evaluate ==
  /\ phase = "evaluate"
  /\ \/ ~EvaluationDue /\ NextTurn /\ UNCHANGED <<disk, found>>
     \/ EvaluationDue /\ SampleRaises({"features"}) /\ Raised
     \/ /\ EvaluationDue /\ Sampled({"features"})
        /\ \E acc \in Accuracies :
             /\ found' = found \cup {acc}
             /\ \/ ~Improved(acc) /\ NextTurn /\ UNCHANGED disk
                \/ /\ Improved(acc)
                   /\ phase' = "save" /\ best' = acc
                   /\ UNCHANGED <<running, inbox, drained, replay, step, disk, runNo>>

Checkpoint(whole) == [acc |-> best, run |-> runNo, whole |-> whole]

(* torch.save(): it ends, or it raises before or after the file was opened.*)
Save ==
  /\ phase = "save"
  /\ UNCHANGED found
  /\ \/ NextTurn /\ disk' = Checkpoint(TRUE)
     \/ /\ phase' = "dead"
        /\ disk' \in {disk, Checkpoint(FALSE)}
        /\ UNCHANGED <<running, inbox, drained, replay, step, best, runNo>>

Stop ==
  /\ running
  /\ running' = FALSE
  /\ UNCHANGED <<phase, inbox, drained, replay, step, best, disk, found, runNo>>

(* The process ends, perhaps while it saves; another one starts, with the  *)
(* checkpoint of the first.                                                *)
Restart ==
  /\ runNo <= MaxRestarts
  /\ runNo' = runNo + 1
  /\ phase' = "off" /\ running' = FALSE /\ inbox' = <<>> /\ drained' = 0
  /\ replay' = <<>> /\ step' = 0 /\ best' = 0 /\ found' = {}
  /\ disk' = disk \/ (phase = "save" /\ disk' = Checkpoint(FALSE))

LearnerNext ==
  \/ RunLearner
  \/ \E r \in Feedback : Offer(r)
  \/ Drain \/ DrainEnds \/ Update \/ Evaluate \/ Save
  \/ Stop
  \/ Restart

LearnerSpec == LearnerInit /\ [][LearnerNext]_learnerVars

-----------------------------------------------------------------------------
(* The variables keep their types.                                         *)
LearnerTypeOK ==
  /\ phase \in {"off", "drain", "update", "evaluate", "save", "dead"}
  /\ Len(inbox) <= QueueMax /\ step \in 0..MaxLearnSteps

(* What killed run(): a record that earned nothing or has a flaw, a file   *)
(* that cannot be loaded, or a best state that could not be saved.         *)
KilledForAReason ==
  \/ \E k \in DOMAIN replay : replay[k].p = 0 \/ replay[k].flaw # "none"
  \/ ~disk.whole
  \/ best > 0 /\ disk # Checkpoint(TRUE)

(* Within one process the checkpoint only gets better: unless it is being  *)
(* saved or saving it killed the loop, it is the best that was found.  A   *)
(* whole file of this process is never better than that, and its first     *)
(* save may replace a better one of an earlier process.  The buffer never  *)
(* exceeds its capacity, and run() is not killed without a reason.         *)
CheckpointImproves ==
  /\ \A acc \in found : acc <= best
  /\ best > 0 /\ phase \notin {"save", "dead"} => disk = Checkpoint(TRUE)
  /\ disk.run = runNo /\ disk.whole => disk.acc \in found
  /\ Len(replay) <= Capacity
  /\ phase = "dead" => KilledForAReason
=============================================================================
