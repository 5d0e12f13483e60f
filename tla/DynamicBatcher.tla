--------------------------- MODULE DynamicBatcher ---------------------------
(***************************************************************************)
(* DynamicBatcher: ml/serving/batching.py.                                 *)
(*                                                                         *)
(* infer() queues a request with a future and sets an event; _batch_loop   *)
(* waits for the event, clears it, gathers requests until the batch is     *)
(* full or max_wait is over, drains up to max_batch of them and awaits the *)
(* model.  No section under self._lock awaits anything, so the lock is     *)
(* always free and each action is the code between two real awaits: the    *)
(* event, the 1 ms sleep, the inference, the caller's future.              *)
(*                                                                         *)
(* Every call of start() adds a loop.  The statistics are left out.        *)
(***************************************************************************)
EXTENDS Naturals, Sequences, SequencesExt

CONSTANTS
  Requests,  \* calls of infer() that can be alive at the same time
  Loops,     \* the tasks that run _batch_loop
  MaxBatch,  \* max_batch_size
  None       \* no answer

ASSUME BatcherAssumption ==
  /\ Loops # {}
  /\ MaxBatch \in Nat \ {0}
  /\ None \notin Requests

VARIABLES
  queue,     \* self._queue
  event,     \* self._event
  pc,        \* what each loop awaits
  batch,     \* the requests each loop has drained
  outcome,   \* the state of each request's future
  answer     \* answer[r]: the request whose output became the result of r

vars == <<queue, event, pc, batch, outcome, answer>>

-----------------------------------------------------------------------------
Init ==
  /\ queue = <<>>
  /\ event = FALSE
  /\ pc = [l \in Loops |-> "waiting"]
  /\ batch = [l \in Loops |-> <<>>]
  /\ outcome = [r \in Requests |-> "idle"]
  /\ answer = [r \in Requests |-> None]

(* event.set() resolves the wait of every loop that waits at that moment:  *)
(* they resume even if the event is cleared before their turn comes.       *)
Woken == [l \in Loops |-> IF pc[l] = "waiting" THEN "woken" ELSE pc[l]]

(* infer(): queue the request, set the event, await the future.            *)
Infer(r) ==
  /\ outcome[r] = "idle"
  /\ outcome' = [outcome EXCEPT ![r] = "pending"]
  /\ queue' = Append(queue, r)
  /\ event' = TRUE
  /\ pc' = Woken
  /\ UNCHANGED <<batch, answer>>

(* The caller is cancelled (a timeout, a client that disconnects) while it *)
(* awaits: its future is done, its request stays where it is.              *)
CancelCall(r) ==
  /\ outcome[r] = "pending"
  /\ outcome' = [outcome EXCEPT ![r] = "cancelled"]
  /\ UNCHANGED <<queue, event, pc, batch, answer>>

(* infer() returns or raises.  The identity is free for another call once  *)
(* no queue and no batch refers to the finished request.                   *)
Held(r) == r \in ToSet(queue) \/ \E l \in Loops : r \in ToSet(batch[l])

ReturnCall(r) ==
  /\ outcome[r] \in {"answered", "failed", "cancelled"}
  /\ ~Held(r)
  /\ outcome' = [outcome EXCEPT ![r] = "idle"]
  /\ answer' = [answer EXCEPT ![r] = None]
  /\ UNCHANGED <<queue, event, pc, batch>>

-----------------------------------------------------------------------------
(* The wait is over: clear the event and start gathering.                  *)
Resume(l) ==
  /\ pc[l] = "woken"
  /\ event' = FALSE
  /\ pc' = [pc EXCEPT ![l] = "gathering"]
  /\ UNCHANGED <<queue, batch, outcome, answer>>

(* Mutant: what is left in the queue is not announced.                     *)
Forgetful(l) ==
  IF event
  THEN /\ event' = FALSE
       /\ pc' = [Woken EXCEPT ![l] = "gathering"]
  ELSE /\ pc' = [pc EXCEPT ![l] = "waiting"]
       /\ UNCHANGED event

(* The end of a turn: set the event if there is more in the queue; wait    *)
(* for the event, which returns at once, and is cleared again, if it is    *)
(* set.                                                                    *)
NextTurn(l) ==
  IF event \/ queue # <<>>
  THEN /\ event' = FALSE
       /\ pc' = [Woken EXCEPT ![l] = "gathering"]
  ELSE /\ pc' = [pc EXCEPT ![l] = "waiting"]
       /\ UNCHANGED event

Taken == IF Len(queue) < MaxBatch THEN Len(queue) ELSE MaxBatch

(* Mutant: the rest of the queue is lost with the batch.                   *)
NothingLeft == <<>>

(* self._queue[self.max_batch:]                                            *)
LeftInQueue == SubSeq(queue, Taken + 1, Len(queue))

(* The queue holds a full batch, or max_wait is over: drain.               *)
Drain(l) ==
  /\ pc[l] = "gathering"
  /\ queue # <<>>
  /\ batch' = [batch EXCEPT ![l] = SubSeq(queue, 1, Taken)]
  /\ queue' = LeftInQueue
  /\ pc' = [pc EXCEPT ![l] = "inferring"]
  /\ UNCHANGED <<event, outcome, answer>>

(* max_wait is over and there is nothing to drain: continue.               *)
DrainNothing(l) ==
  /\ pc[l] = "gathering"
  /\ queue = <<>>
  /\ NextTurn(l)
  /\ UNCHANGED <<queue, batch, outcome, answer>>

-----------------------------------------------------------------------------
(* Mutant: the i-th answer from the end.                                   *)
FromTheEnd(b, i) == b[Len(b) + 1 - i]

(* Row i of the collated input is the input of the i-th request, and so is *)
(* row i of the output.                                                    *)
OutputRow(b, i) == b[i]

PositionOf(r, b) == CHOOSE i \in 1..Len(b) : b[i] = r

(* The model returns n rows for the batch (or raises: n = 0).  Futures     *)
(* that are not done get their row; the first one without a row raises     *)
(* IndexError, and then every future still open gets the exception.        *)
Distribute(l, n) ==
  LET b == batch[l]
      open == {r \in ToSet(b) : outcome[r] = "pending"}
      answered == {r \in open : PositionOf(r, b) <= n} IN
  /\ pc[l] = "inferring"
  /\ outcome' = [r \in Requests |-> CASE r \in answered -> "answered"
                                      [] r \in open \ answered -> "failed"
                                      [] OTHER -> outcome[r]]
  /\ answer' = [r \in Requests |-> IF r \in answered THEN OutputRow(b, PositionOf(r, b))
                                   ELSE answer[r]]
  /\ batch' = [batch EXCEPT ![l] = <<>>]
  /\ NextTurn(l)
  /\ UNCHANGED queue

-----------------------------------------------------------------------------
Turn(l) ==
  \/ Resume(l) \/ Drain(l) \/ DrainNothing(l)
  \/ \E n \in 0..Len(batch[l]) : Distribute(l, n)

Next ==
  \/ \E r \in Requests : Infer(r) \/ CancelCall(r) \/ ReturnCall(r)
  \/ \E l \in Loops : Turn(l)

Spec == Init /\ [][Next]_vars

(* The event loop resumes a task whose event, sleep or inference is over,  *)
(* and every inference returns or raises.                                  *)
FairSpec == Spec /\ \A l \in Loops : WF_vars(Turn(l))

-----------------------------------------------------------------------------
(* The variables keep their types.                                         *)
TypeOK ==
  /\ queue \in Seq(Requests)
  /\ event \in BOOLEAN
  /\ pc \in [Loops -> {"waiting", "woken", "gathering", "inferring"}]
  /\ batch \in [Loops -> Seq(Requests)]
  /\ outcome \in [Requests -> {"idle", "pending", "answered", "failed", "cancelled"}]
  /\ answer \in [Requests -> Requests \cup {None}]

(* No wakeup is lost: while all loops sleep on the event the queue is      *)
(* empty, also when callers arrived between the drain of a batch and its   *)
(* end, and whichever loop cleared the event.                              *)
NoLostWakeup ==
  (\A l \in Loops : pc[l] = "waiting") => queue = <<>>

(* Of a run: the types hold, and no wakeup is lost.                        *)
QueueSound == TypeOK /\ NoLostWakeup

(* Each future is resolved once, with the output row of its own input, or  *)
(* with an exception, whatever was cancelled, short or raised meanwhile.   *)
Calls == INSTANCE RequestReply
AnswersOwnCall == Calls!CallsSpec

(* Every call of infer() ends: the batch of a request is reached however   *)
(* many others arrive, and a failed inference fails its callers.           *)
EveryCallEnds == \A r \in Requests : outcome[r] = "pending" ~> outcome[r] # "pending"
=============================================================================
