---------------------------- MODULE FeedbackLoop ----------------------------
(***************************************************************************)
(* What analysts correct and what is learnt from it: FeedbackCollector of  *)
(* ml/online/feedback_collector.py and IncrementalTrainer of               *)
(* ml/online/incremental_trainer.py.  Samples are numbered as they come.   *)
(***************************************************************************)
EXTENDS Naturals, Sequences, SequencesExt, FiniteSetsExt

CONSTANTS
  BufferSize,                                        \* FeedbackCollector.buffer_size
  RetrainAt,                                         \* min_samples of trigger_retraining()
  TrainEvery, MiniBatch,                             \* IncrementalTrainer
  SaveEvery,                                         \* train steps between two checkpoints (10)
  MetricsMax,                                        \* entries that _metrics keeps (1000)
  MaxSamples, MaxSeconds, MaxTrainSteps, MaxCrashes  \* bounds of this model

ASSUME LoopAssumption ==
  /\ BufferSize \in Nat \ {0} /\ TrainEvery \in Nat \ {0} /\ MiniBatch \in Nat
  /\ MaxSamples \in Nat /\ MaxSeconds \in Nat
  /\ SaveEvery \in Nat \ {0} /\ MetricsMax \in Nat
  /\ MetricsMax % SaveEvery = 0   \* full metrics save at every step

VARIABLES
  second,          \* int(time.time())
  samples,         \* samples given to add_feedback() so far
  feedbackBuffer,  \* FeedbackCollector._buffer
  jsonl,           \* jsonl[s]: the file of second s, or nothing
  reused,          \* history: a file was written over
  retrain,         \* what trigger_retraining() last said
  fresh,           \* IncrementalTrainer._new_samples: how many
  replayed,        \* len(_replay), as far as MiniBatch
  metrics,         \* len(_metrics)
  updated,         \* model.n_updates
  savedAt,         \* n_updates in the file
  modelFile,       \* the file: "none", "whole" or "torn"
  trainerUp,       \* the trainer could be made
  infoOn,          \* the process logs at INFO
  unsaved,         \* history: train steps since the last checkpoint
  saveFailed,      \* history: saving raised in this process
  crashes

loopVars == <<second, samples, feedbackBuffer, jsonl, reused, retrain, fresh, replayed,
              metrics, updated, savedAt, modelFile, trainerUp, infoOn, unsaved, saveFailed, crashes>>

collector == <<samples, feedbackBuffer, jsonl, reused, retrain>>
process == <<trainerUp, infoOn>>
trainer == <<fresh, replayed, metrics, updated, savedAt, modelFile, unsaved, saveFailed, process>>

-----------------------------------------------------------------------------
LoopInit ==
  /\ second = 0
  /\ samples = 0
  /\ feedbackBuffer = <<>>
  /\ jsonl = [s \in 0..MaxSeconds |-> <<>>]
  /\ reused = FALSE
  /\ retrain = FALSE
  /\ fresh = 0 /\ replayed = 0 /\ metrics = 0
  /\ updated = 0 /\ savedAt = 0 /\ unsaved = 0
  /\ modelFile = "none" /\ trainerUp = TRUE /\ saveFailed = FALSE
  /\ infoOn \in BOOLEAN
  /\ crashes = 0

SecondPasses ==
  /\ second < MaxSeconds
  /\ second' = second + 1
  /\ UNCHANGED <<collector, trainer, crashes>>

(* open(path, "w"): the file is named by the second alone.                 *)
Write(lines) ==
  /\ jsonl' = [jsonl EXCEPT ![second] = lines]
  /\ reused' = (reused \/ jsonl[second] # <<>>)

(* add_feedback() and _flush(); when writing raises, what was written so   *)
(* far is in the file, and the buffer keeps everything.                    *)
AddFeedback ==
  LET grown == Append(feedbackBuffer, samples + 1)
  IN /\ samples < MaxSamples
     /\ samples' = samples + 1
     /\ IF Len(grown) < BufferSize
        THEN feedbackBuffer' = grown /\ UNCHANGED <<jsonl, reused>>
        ELSE \/ feedbackBuffer' = <<>> /\ Write(grown)
             \/ /\ feedbackBuffer' = grown
                /\ \E n \in 0..(Len(grown) - 1) : Write(SubSeq(grown, 1, n))
     /\ UNCHANGED <<second, retrain, trainer, crashes>>

(* trigger_retraining(): the lines of the files, not the buffer.           *)
TriggerRetraining ==
  /\ retrain' = (MapThenSumSet(LAMBDA s : Len(jsonl[s]), DOMAIN jsonl) >= RetrainAt)
  /\ UNCHANGED <<second, samples, feedbackBuffer, jsonl, reused, trainer, crashes>>

(* Mutant: _metrics is cut to one entry less than its limit.               *)
CutToLess(n) == IF n >= MetricsMax THEN MetricsMax - 1 ELSE n

Cut(n) == IF n > MetricsMax THEN MetricsMax ELSE n

(* save(): the file is whole, or np.savez() raises, and it may be torn.    *)
SavesModel ==
  \/ savedAt' = updated' /\ unsaved' = 0 /\ modelFile' = "whole" /\ UNCHANGED saveFailed
  \/ /\ saveFailed' = TRUE /\ unsaved' = unsaved + 1
     /\ modelFile' \in {modelFile, "torn"}
     /\ UNCHANGED savedAt

(* _train_step() on the new samples and on a batch of the replay buffer.   *)
(* Its logger takes no keywords: at INFO the call raises before the new    *)
(* samples are cleared, and nothing is saved.                              *)
TrainStep(known) ==
  LET entries == Cut(metrics + 1)
      learnt == fresh + 1 + (IF known >= MiniBatch THEN MiniBatch ELSE 0)
  IN /\ updated < MaxTrainSteps * (TrainEvery + MiniBatch)
     /\ metrics' = entries
     /\ updated' = updated + learnt
     /\ fresh' = IF infoOn THEN fresh + 1 ELSE 0
     /\ IF ~infoOn /\ entries % SaveEvery = 0 THEN SavesModel
        ELSE unsaved' = unsaved + 1 /\ UNCHANGED <<savedAt, modelFile, saveFailed>>

(* add_sample(): a training step when enough are new.                      *)
AddSample ==
  LET known == Min({MiniBatch, replayed + 1})
  IN /\ trainerUp
     /\ replayed' = known
     /\ \/ /\ fresh + 1 < TrainEvery
           /\ fresh' = fresh + 1
           /\ UNCHANGED <<metrics, updated, savedAt, modelFile, unsaved, saveFailed>>
        \/ fresh + 1 >= TrainEvery /\ TrainStep(known)
     /\ UNCHANGED <<second, collector, process, crashes>>

(* The process ends; the next one loads the model and nothing else.  With  *)
(* a torn file it cannot; nor, at INFO, with any: load() logs keywords.    *)
CrashAndReload ==
  /\ crashes < MaxCrashes
  /\ crashes' = crashes + 1
  /\ feedbackBuffer' = <<>>
  /\ fresh' = 0 /\ replayed' = 0 /\ metrics' = 0 /\ unsaved' = 0
  /\ saveFailed' = FALSE
  /\ updated' = savedAt
  /\ infoOn' \in BOOLEAN
  /\ trainerUp' = (modelFile = "none" \/ (modelFile = "whole" /\ ~infoOn'))
  /\ UNCHANGED <<second, samples, jsonl, reused, retrain, savedAt, modelFile>>

LoopNext ==
  \/ SecondPasses \/ AddFeedback \/ TriggerRetraining
  \/ AddSample \/ CrashAndReload

LoopSpec == LoopInit /\ [][LoopNext]_loopVars

-----------------------------------------------------------------------------
Filed == UNION {ToSet(jsonl[s]) : s \in DOMAIN jsonl}

(* The variables keep their types.                                         *)
LoopTypeOK ==
  /\ second \in 0..MaxSeconds /\ samples \in 0..MaxSamples
  /\ Filed \cup ToSet(feedbackBuffer) \subseteq 1..samples
  /\ savedAt <= updated

(* Feedback is lost by a crash or by a second flush within one second, and *)
(* by nothing else: not by a write that fails half-way.  Where INFO is not *)
(* logged, a crash costs the model less than SaveEvery train steps unless  *)
(* saving failed, however long the process runs, and no sample is new in   *)
(* two train steps.  Only a torn file or INFO keeps the trainer down.      *)
LittleIsLost ==
  /\ crashes = 0 /\ ~reused => Filed \cup ToSet(feedbackBuffer) = 1..samples
  /\ ~infoOn => fresh < TrainEvery
  /\ ~infoOn /\ ~saveFailed => unsaved < SaveEvery
  /\ ~trainerUp => modelFile = "torn" \/ infoOn
=============================================================================
