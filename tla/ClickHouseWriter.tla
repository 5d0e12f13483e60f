-------------------------- MODULE ClickHouseWriter --------------------------
(***************************************************************************)
(* ThorClickHouseClient: control-plane/src/services/clickhouse.py.         *)
(*                                                                         *)
(* Three buffers (flows, threats, decisions) share one asyncio.Lock.       *)
(* insert_* appends under the lock and flushes its own buffer when it is   *)
(* full; _flush_loop flushes every non-empty buffer under one acquisition  *)
(* of the lock; close() cancels the loop, flushes all three, gives up the  *)
(* lock and awaits the client's close().  Each _flush_* copies and clears  *)
(* its buffer BEFORE it awaits the insert.                                 *)
(*                                                                         *)
(* asyncio runs a task from one await to the next without interruption, so *)
(* the actions below are the code between two awaits.  The lock is the     *)
(* FIFO queue of the tasks that asked for it; its head holds it.           *)
(***************************************************************************)
EXTENDS Naturals, Sequences, FiniteSets, SequencesExt

CONSTANTS
  TableOrder,  \* the tables in the order _flush_loop and close() visit them
  Rows,        \* row identities
  TableOf,     \* TableOf[r]: the buffer row r is appended to
  Callers,     \* tasks that call insert_flow, insert_threat, insert_decision
  Flusher,     \* the task that runs _flush_loop
  Closer,      \* the task that calls close()
  BatchSize    \* ClickHouseConfig.batch_size

Tables == ToSet(TableOrder)
Tasks == Callers \cup {Flusher, Closer}

ASSUME WriterAssumption ==
  /\ TableOrder \in Seq(Tables) /\ Len(TableOrder) = Cardinality(Tables)
  /\ Rows # {} /\ TableOf \in [Rows -> Tables]
  /\ Flusher \notin Callers /\ Closer \notin Callers /\ Flusher # Closer
  /\ BatchSize \in Nat \ {0}

VARIABLES
  buffer,     \* buffer[t]: the in-memory list of table t
  lock,       \* tasks that hold (head) or wait for self._lock, in FIFO order
  pc,         \* what each task awaits
  row,        \* the row each caller wants to insert
  batch,      \* the rows each task has handed to client.insert
  visiting,   \* index in TableOrder of the table a task inserts into, or 1
  cancelled,  \* whether close() has cancelled the flush task
  stored,     \* rows in the ClickHouse tables
  lost,       \* rows that were dropped with their batch
  late        \* history: rows whose insert_* was called after close()

vars == <<buffer, lock, pc, row, batch, visiting, cancelled, stored, lost, late>>

-----------------------------------------------------------------------------
Rest(s) == SubSeq(s, 2, Len(s))
InFlight(t) == {k \in Tasks : pc[k] = "insert" /\ TableOrder[visiting[k]] = t}

(* The rows in flight for a table; the lock admits one inserting task.     *)
BatchOf(t) == IF InFlight(t) = {} THEN <<>> ELSE batch[CHOOSE k \in InFlight(t) : TRUE]

(* A row is live from insert_* until it is stored or lost and forgotten.   *)
Buffered(r) == r \in ToSet(buffer[TableOf[r]])
Wanted(r) == \E c \in Callers : pc[c] = "acquire" /\ row[c] = r
Flying(r) == \E k \in Tasks : pc[k] = "insert" /\ r \in ToSet(batch[k])
Settled(r) == r \in stored \cup lost
Live(r) == Buffered(r) \/ Wanted(r) \/ Flying(r) \/ Settled(r)

Init ==
  /\ buffer = [t \in Tables |-> <<>>]
  /\ lock = <<>>
  /\ pc = [k \in Tasks |-> "idle"]
  /\ row = [c \in Callers |-> CHOOSE r \in Rows : TRUE]
  /\ batch = [k \in Tasks |-> <<>>]
  /\ visiting = [k \in Tasks |-> 1]
  /\ cancelled = FALSE
  /\ stored = {}
  /\ lost = {}
  /\ late = {}

-----------------------------------------------------------------------------
(* insert_flow, insert_threat, insert_decision: async with self._lock.     *)
Insert(c, r) ==
  /\ pc[c] = "idle"
  /\ ~Live(r)
  /\ pc' = [pc EXCEPT ![c] = "acquire"]
  /\ row' = [row EXCEPT ![c] = r]
  /\ lock' = Append(lock, c)
  /\ late' = IF cancelled THEN late \cup {r} ELSE late
  /\ UNCHANGED <<buffer, batch, visiting, cancelled, stored, lost>>

(* Mutant: a buffer is flushed one row too late.                           *)
FillsLate(t) == Len(buffer[t]) + 1 > BatchSize

(* With one more row the buffer of t reaches batch_size.                   *)
Fills(t) == Len(buffer[t]) + 1 >= BatchSize

(* Lock acquired, the buffer stays below batch_size: append and release.   *)
AppendRow(c) ==
  LET t == TableOf[row[c]] IN
  /\ pc[c] = "acquire" /\ Head(lock) = c
  /\ ~Fills(t)
  /\ buffer' = [buffer EXCEPT ![t] = Append(@, row[c])]
  /\ pc' = [pc EXCEPT ![c] = "idle"]
  /\ lock' = Rest(lock)
  /\ UNCHANGED <<row, batch, visiting, cancelled, stored, lost, late>>

(* The queue of the lock after waiter k has left it.                       *)
LockWithout(k) == RemoveAt(lock, CHOOSE i \in 1..Len(lock) : lock[i] = k)

(* The caller is cancelled while it waits for the lock: no row is added.   *)
Abandon(c) ==
  /\ pc[c] = "acquire"
  /\ pc' = [pc EXCEPT ![c] = "idle"]
  /\ lock' = LockWithout(c)
  /\ UNCHANGED <<buffer, row, batch, visiting, cancelled, stored, lost, late>>

IndexOf(t) == CHOOSE i \in 1..Len(TableOrder) : TableOrder[i] = t

(* Mutant: the buffer is not cleared before the insert.                    *)
NotCleared(t) == buffer

(* _flow_buffer.clear() and the like.                                      *)
Cleared(t) == [buffer EXCEPT ![t] = <<>>]

(* Lock acquired, the row fills the buffer: copy it, clear it, await.      *)
FillBatch(c) ==
  LET t == TableOf[row[c]] IN
  /\ pc[c] = "acquire" /\ Head(lock) = c
  /\ Fills(t)
  /\ batch' = [batch EXCEPT ![c] = Append(buffer[t], row[c])]
  /\ buffer' = Cleared(t)
  /\ visiting' = [visiting EXCEPT ![c] = IndexOf(t)]
  /\ pc' = [pc EXCEPT ![c] = "insert"]
  /\ UNCHANGED <<lock, row, cancelled, stored, lost, late>>

-----------------------------------------------------------------------------
(* Indices of the non-empty buffers from i on, the order of the flushes.   *)
Flushable(i, b) == {j \in i..Len(TableOrder) : b[TableOrder[j]] # <<>>}
First(S) == CHOOSE j \in S : \A k \in S : j <= k

(* Task k is done with inserting.                                          *)
HandsOver(k) ==
  /\ batch' = [batch EXCEPT ![k] = <<>>]
  /\ visiting' = [visiting EXCEPT ![k] = 1]

(* Task k, holding the lock, goes on to the next non-empty buffer from     *)
(* index i, or releases the lock and continues at done.                    *)
FlushFrom(k, i, done) ==
  IF Flushable(i, buffer) = {}
  THEN /\ pc' = [pc EXCEPT ![k] = done]
       /\ lock' = Rest(lock)
       /\ HandsOver(k)
       /\ UNCHANGED buffer
  ELSE LET j == First(Flushable(i, buffer)) IN
       /\ batch' = [batch EXCEPT ![k] = buffer[TableOrder[j]]]
       /\ buffer' = Cleared(TableOrder[j])
       /\ visiting' = [visiting EXCEPT ![k] = j]
       /\ pc' = [pc EXCEPT ![k] = "insert"]
       /\ UNCHANGED lock

(* The flush interval is over.                                             *)
WakeFlusher ==
  /\ pc[Flusher] = "idle" /\ ~cancelled
  /\ pc' = [pc EXCEPT ![Flusher] = "acquire"]
  /\ lock' = Append(lock, Flusher)
  /\ UNCHANGED <<buffer, row, batch, visiting, cancelled, stored, lost, late>>

(* What follows a flush: the loop sleeps, close() closes the client.       *)
Done(k) == IF k = Closer THEN "closing" ELSE "idle"

(* Mutant: a close() that does not visit the last table.                   *)
SkipOnClose(k) == IF k = Closer THEN Len(TableOrder) + 1 ELSE 1

(* The first table that a flush visits.                                    *)
FirstVisited(k) == 1

(* The flush loop or the final flush acquires the lock.                    *)
StartFlush(k) ==
  /\ k \in {Flusher, Closer}
  /\ pc[k] = "acquire" /\ Head(lock) = k
  /\ ~(k = Flusher /\ cancelled)
  /\ FlushFrom(k, FirstVisited(k), Done(k))
  /\ UNCHANGED <<row, cancelled, stored, lost, late>>

-----------------------------------------------------------------------------
(* client.insert returns: a caller releases the lock, the flush loop and   *)
(* the final flush go on to the next table.                                *)
InsertOk(k) ==
  /\ pc[k] = "insert"
  /\ ~(k = Flusher /\ cancelled)
  /\ pc[Closer] # "closed"
  /\ stored' = stored \cup ToSet(batch[k])
  /\ IF k \in Callers
     THEN /\ pc' = [pc EXCEPT ![k] = "idle"]
          /\ lock' = Rest(lock)
          /\ HandsOver(k)
          /\ UNCHANGED buffer
     ELSE FlushFrom(k, visiting[k] + 1, Done(k))
  /\ UNCHANGED <<row, cancelled, lost, late>>

(* Mutant: an exception ends the flush loop.                               *)
EndsLoop(k) == IF k \in Callers THEN "idle" ELSE "failed"

(* Where a task is after its insert raised: _flush_loop logs and goes on.  *)
AfterFailure(k) == IF k = Closer THEN "failed" ELSE "idle"

(* client.insert raises, or the task that awaits it is cancelled: the      *)
(* exception leaves the async with, the remaining buffers are not visited, *)
(* and the batch is gone unless the server applies it all the same.        *)
InsertRaises(k, applied) ==
  /\ pc[k] = "insert"
  /\ applied => pc[Closer] # "closed"
  /\ IF applied
     THEN stored' = stored \cup ToSet(batch[k]) /\ UNCHANGED lost
     ELSE lost' = lost \cup ToSet(batch[k]) /\ UNCHANGED stored
  /\ pc' = [pc EXCEPT ![k] = AfterFailure(k)]
  /\ lock' = Rest(lock)
  /\ HandsOver(k)
  /\ UNCHANGED <<buffer, row, cancelled, late>>

-----------------------------------------------------------------------------
(* close(): the flush task is cancelled wherever it is (asleep, queueing   *)
(* for the lock, or inside an insert, which then raises), and the final    *)
(* flush queues for the lock.                                              *)
Close ==
  /\ pc[Closer] = "idle"
  /\ cancelled' = TRUE
  /\ lock' = Append(lock, Closer)
  /\ pc' = [pc EXCEPT ![Closer] = "acquire"]
  /\ UNCHANGED <<buffer, row, batch, visiting, stored, lost, late>>

(* The lock is released: whoever queued behind close() gets it while the   *)
(* client closes.  The client's close() returns, and close() with it, or   *)
(* raises out of close().                                                  *)
ClientClosed(returns) ==
  /\ pc[Closer] = "closing"
  /\ pc' = [pc EXCEPT ![Closer] = IF returns THEN "closed" ELSE "failed"]
  /\ UNCHANGED <<buffer, lock, row, batch, visiting, cancelled, stored, lost, late>>

(* The cancelled flush task leaves the queue of the lock.                  *)
UnqueueFlusher ==
  /\ cancelled /\ pc[Flusher] = "acquire"
  /\ pc' = [pc EXCEPT ![Flusher] = "idle"]
  /\ lock' = LockWithout(Flusher)
  /\ UNCHANGED <<buffer, row, batch, visiting, cancelled, stored, lost, late>>

(* A settled row's identity is used again.                                 *)
Forget(r) ==
  /\ Settled(r)
  /\ stored' = stored \ {r}
  /\ lost' = lost \ {r}
  /\ UNCHANGED <<buffer, lock, pc, row, batch, visiting, cancelled, late>>

-----------------------------------------------------------------------------
Finish(k) == InsertOk(k) \/ \E applied \in BOOLEAN : InsertRaises(k, applied)

Next ==
  \/ \E c \in Callers : (\E r \in Rows : Insert(c, r)) \/ AppendRow(c) \/ FillBatch(c) \/ Abandon(c)
  \/ WakeFlusher \/ Close \/ UnqueueFlusher
  \/ \E k \in {Flusher, Closer} : StartFlush(k)
  \/ \E k \in Tasks : Finish(k)
  \/ \E returns \in BOOLEAN : ClientClosed(returns)
  \/ \E r \in Rows : Forget(r)

Spec == Init /\ [][Next]_vars

(* The event loop resumes every task whose await is over, the timer of the *)
(* flush loop fires, and every insert and the client's close() return or   *)
(* raise (an insert within the client's send_receive_timeout).             *)
Progress ==
  /\ WF_vars(WakeFlusher)
  /\ WF_vars(UnqueueFlusher)
  /\ \A c \in Callers : WF_vars(AppendRow(c) \/ FillBatch(c))
  /\ \A k \in {Flusher, Closer} : WF_vars(StartFlush(k))
  /\ \A k \in Tasks : WF_vars(Finish(k))
  /\ WF_vars(\E returns \in BOOLEAN : ClientClosed(returns))
FairSpec == Spec /\ Progress

-----------------------------------------------------------------------------
(* The variables keep their types.                                         *)
TypeOK ==
  /\ buffer \in [Tables -> Seq(Rows)]
  /\ lock \in Seq(Tasks)
  /\ pc \in [Tasks -> {"idle", "acquire", "insert", "closing", "closed", "failed"}]
  /\ row \in [Callers -> Rows]
  /\ batch \in [Tasks -> Seq(Rows)]
  /\ visiting \in [Tasks -> 1..Len(TableOrder)]
  /\ cancelled \in BOOLEAN
  /\ stored \in SUBSET Rows
  /\ lost \in SUBSET Rows
  /\ late \in SUBSET Rows

(* The writer keeps the promises of RowLedger: rows in a batch in flight   *)
(* are still pending, ahead of those in the buffer.                        *)
Ledger == INSTANCE RowLedger WITH
  pending <- [t \in Tables |-> BatchOf(t) \o buffer[t]]
KeepsLedger == Ledger!LedgerSpec

(* A buffer never waits at its limit: whenever the lock is free to take,   *)
(* every buffer is shorter than batch_size, failed flushes included.       *)
BuffersBelowLimit ==
  /\ TypeOK
  /\ \A t \in Tables : Len(buffer[t]) < BatchSize

(* When close() returns normally, every row whose insert_* was called      *)
(* before close() has left the buffers: its caller was ahead of the final  *)
(* flush in the queue of the lock, and none slips in between two of its    *)
(* inserts.  (A row of a call made after close() may stay in a buffer,     *)
(* which no task will flush again.)                                        *)
CloseDrains ==
  [][pc[Closer] # "closed" /\ pc'[Closer] = "closed" =>
       \A t \in Tables : ToSet(buffer'[t]) \subseteq late']_vars

(* While the client is open, a buffered row is eventually written (or lost *)
(* with a failed batch) if inserts do not keep failing, and a row of the   *)
(* first table in flush order whatever fails.  (The others may wait for    *)
(* ever: while inserts into an earlier table keep raising, a tick of the   *)
(* flush loop never reaches the later buffers.)                            *)
Settles(r) == Buffered(r) ~> ~Buffered(r)
BufferedRowsSettle ==
  []~cancelled =>
    /\ \A r \in {s \in Rows : TableOf[s] = TableOrder[1]} : Settles(r)
    /\ <>[][\A k \in Tasks, a \in BOOLEAN : ~InsertRaises(k, a)]_vars => \A r \in Rows : Settles(r)
=============================================================================
