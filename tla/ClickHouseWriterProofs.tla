----------------------- MODULE ClickHouseWriterProofs -----------------------
(***************************************************************************)
(* Proofs about ClickHouseWriter, for any tables, rows, callers and batch  *)
(* size: a buffer stays below its limit, close() leaves only the rows of   *)
(* later calls in the buffers, and the writer implements RowLedger.        *)
(***************************************************************************)
EXTENDS ClickHouseWriter, SequenceLemmas

-----------------------------------------------------------------------------
(* What is left of a sequence without its first element.                   *)
LEMMA RestShifts ==
  ASSUME NEW S, NEW s \in Seq(S), s # <<>>
  PROVE  /\ Len(s) \in Nat \ {0}
         /\ Rest(s) \in Seq(S)
         /\ Len(Rest(s)) = Len(s) - 1
         /\ \A i \in 1..(Len(s) - 1) : Rest(s)[i] = s[i + 1]
<1>1. PICK n \in Nat \ {0} : Len(s) = n
  BY EmptySeq
<1>2. \A i \in 2..n : s[i] \in S
  BY <1>1, ElementOfSeq
<1>3. 2 \in Int /\ n \in Int
  OBVIOUS
<1>4. /\ Rest(s) \in Seq(S)
      /\ Len(Rest(s)) = IF 2 <= n THEN n - 2 + 1 ELSE 0
      /\ \A i \in 1..(n - 2 + 1) : Rest(s)[i] = s[2 + i - 1]
  BY <1>1, <1>2, <1>3, SubSeqProperties DEF Rest
<1>5. Len(Rest(s)) = n - 1
  BY <1>4
<1>6. \A i \in 1..(n - 1) : Rest(s)[i] = s[i + 1]
  BY <1>4
<1> QED
  BY <1>1, <1>4, <1>5, <1>6

(* A non-empty set of indices has a first one.                             *)
LEMMA FirstIsLeast ==
  ASSUME NEW S \in SUBSET Nat, S # {}
  PROVE  First(S) \in S /\ \A k \in S : First(S) <= k
BY LeastNatural DEF First

LEMMA TableIndices ==
  ASSUME NEW t \in Tables
  PROVE  /\ IndexOf(t) \in 1..Len(TableOrder)
         /\ TableOrder[IndexOf(t)] = t
<1>1. DOMAIN TableOrder = 1..Len(TableOrder)
  BY WriterAssumption, LenProperties
<1>2. \E i \in 1..Len(TableOrder) : TableOrder[i] = t
  BY <1>1 DEF Tables, ToSet
<1> QED
  BY <1>2 DEF IndexOf

LEMMA Indexed ==
  /\ Len(TableOrder) \in Nat \ {0}
  /\ \A i \in 1..Len(TableOrder) : TableOrder[i] \in Tables
<1>1. TableOrder # <<>>
  BY WriterAssumption, EmptyHasNone DEF Tables
<1> QED
  BY <1>1, WriterAssumption, EmptySeq, ElementOfSeq
-----------------------------------------------------------------------------
(* The lock: the tasks that hold it or wait for it are those in its queue, *)
(* each once, and a task that awaits an insert holds it.                   *)
Waits == {"acquire", "insert"}

LockInv ==
  /\ \A i, j \in 1..Len(lock) : lock[i] = lock[j] => i = j
  /\ \A i \in 1..Len(lock) : pc[lock[i]] \in Waits
  /\ \A k \in Tasks : pc[k] \in Waits => \E i \in 1..Len(lock) : lock[i] = k
  /\ \A k \in Tasks : pc[k] = "insert" => Len(lock) > 0 /\ lock[1] = k

(* The head of the queue.                                                  *)
LEMMA HeadHolds ==
  ASSUME TypeOK, LockInv, NEW k \in Tasks,
         pc[k] = "insert" \/ (pc[k] = "acquire" /\ Head(lock) = k)
  PROVE  /\ lock # <<>> /\ Len(lock) \in Nat \ {0} /\ lock[1] = k
         /\ \A d \in Tasks : pc[d] = "insert" => d = k
<1>1. PICK i \in 1..Len(lock) : lock[i] = k
  BY DEF LockInv, Waits
<1>2. Len(lock) \in Nat
  BY LenProperties DEF TypeOK
<1>3. lock # <<>>
  BY <1>1, <1>2, EmptySeq
<1>4. Head(lock) = lock[1]
  OBVIOUS
<1> QED
  BY <1>1, <1>2, <1>3, <1>4 DEF LockInv

LEMMA Enqueue ==
  ASSUME TypeOK, LockInv, NEW k \in Tasks, pc[k] \notin Waits,
         pc' = [pc EXCEPT ![k] = "acquire"], lock' = Append(lock, k)
  PROVE  LockInv' /\ lock' \in Seq(Tasks)
<1>1. PICK n \in Nat : Len(lock) = n
  BY LenProperties DEF TypeOK
<1>2. /\ lock' \in Seq(Tasks) /\ Len(lock') = n + 1 /\ lock'[n + 1] = k
      /\ \A i \in 1..n : lock'[i] = lock[i]
  BY <1>1, AppendProperties DEF TypeOK
<1>3. \A d \in Tasks : pc'[d] = IF d = k THEN "acquire" ELSE pc[d]
  BY DEF TypeOK
<1>4. \A i \in 1..n : lock[i] \in Tasks /\ pc[lock[i]] \in Waits /\ lock[i] # k
  BY <1>1, ElementOfSeq DEF LockInv, TypeOK
<1>5. \A i, j \in 1..(n + 1) : lock'[i] = lock'[j] => i = j
  <2>1. \A i \in 1..(n + 1) : i \in 1..n \/ i = n + 1
    OBVIOUS
  <2> QED
    BY <1>1, <1>2, <1>4, <2>1 DEF LockInv
<1>6. \A i \in 1..(n + 1) : pc'[lock'[i]] \in Waits
  <2>1. \A i \in 1..(n + 1) : i \in 1..n \/ i = n + 1
    OBVIOUS
  <2> QED
    BY <1>2, <1>3, <1>4, <2>1 DEF Waits
<1>7. ASSUME NEW d \in Tasks, pc'[d] \in Waits PROVE \E i \in 1..(n + 1) : lock'[i] = d
  <2>1. CASE d = k
    BY <1>2, <2>1
  <2>2. CASE d # k
    <3>1. PICK i \in 1..n : lock[i] = d
      BY <1>1, <1>3, <1>7, <2>2 DEF LockInv
    <3> QED
      BY <1>2, <3>1
  <2> QED
    BY <2>1, <2>2
<1>8. ASSUME NEW d \in Tasks, pc'[d] = "insert" PROVE n + 1 > 0 /\ lock'[1] = d
  <2>1. pc[d] = "insert"
    BY <1>3, <1>8
  <2>2. n > 0 /\ lock[1] = d
    BY <1>1, <2>1 DEF LockInv
  <2> QED
    BY <1>2, <2>2
<1> QED
  BY <1>2, <1>5, <1>6, <1>7, <1>8 DEF LockInv

LEMMA Release ==
  ASSUME TypeOK, LockInv, NEW k \in Tasks,
         pc[k] = "insert" \/ (pc[k] = "acquire" /\ Head(lock) = k),
         NEW p \in {"idle", "closing", "failed"},
         pc' = [pc EXCEPT ![k] = p], lock' = Rest(lock)
  PROVE  LockInv' /\ lock' \in Seq(Tasks)
<1>1. PICK n \in Nat \ {0} : Len(lock) = n
  BY HeadHolds
<1>2. /\ lock' \in Seq(Tasks) /\ Len(lock') = n - 1
      /\ \A i \in 1..(n - 1) : lock'[i] = lock[i + 1]
  BY <1>1, HeadHolds, RestShifts, ZenonT(40) DEF TypeOK
<1>3. /\ lock[1] = k
      /\ \A d \in Tasks : pc'[d] = IF d = k THEN p ELSE pc[d]
      /\ p \notin Waits
      /\ \A d \in Tasks : pc'[d] # "insert"
  BY HeadHolds DEF TypeOK, Waits
<1>4. \A i \in 1..n : lock[i] \in Tasks /\ pc[lock[i]] \in Waits
  BY <1>1, ElementOfSeq DEF LockInv, TypeOK
<1>5. \A i, j \in 1..n : lock[i] = lock[j] => i = j
  BY <1>1 DEF LockInv
<1>6. \A i, j \in 1..(n - 1) : lock'[i] = lock'[j] => i = j
  <2>1. \A i \in 1..(n - 1) : i + 1 \in 1..n
    OBVIOUS
  <2> QED
    BY <1>2, <1>5, <2>1
<1>7. ASSUME NEW i \in 1..(n - 1) PROVE pc'[lock'[i]] \in Waits
  <2>1. i + 1 \in 1..n /\ 1 \in 1..n /\ i + 1 # 1
    OBVIOUS
  <2>2. lock[i + 1] # k
    BY <1>3, <1>5, <2>1
  <2> QED
    BY <1>2, <1>3, <1>4, <2>1, <2>2
<1>8. ASSUME NEW d \in Tasks, pc'[d] \in Waits PROVE \E i \in 1..(n - 1) : lock'[i] = d
  <2>1. d # k /\ pc[d] \in Waits
    BY <1>3, <1>8
  <2>2. PICK i \in 1..n : lock[i] = d
    BY <1>1, <2>1 DEF LockInv
  <2>3. i # 1
    BY <1>3, <2>1, <2>2
  <2>4. i - 1 \in 1..(n - 1) /\ (i - 1) + 1 = i
    BY <2>3
  <2> QED
    BY <1>2, <2>2, <2>4
<1> QED
  BY <1>2, <1>3, <1>6, <1>7, <1>8 DEF LockInv

LEMMA Leave ==
  ASSUME TypeOK, LockInv, NEW k \in Tasks, pc[k] = "acquire",
         pc' = [pc EXCEPT ![k] = "idle"], lock' = LockWithout(k)
  PROVE  LockInv' /\ lock' \in Seq(Tasks)
<1>1. PICK n \in Nat : Len(lock) = n
  BY LenProperties DEF TypeOK
<1>2. PICK m \in 1..n : lock[m] = k /\ lock' = RemoveAt(lock, m)
  BY <1>1 DEF LockInv, LockWithout, Waits
<1>3. /\ lock' \in Seq(Tasks) /\ Len(lock') = n - 1
      /\ \A i \in 1..(n - 1) : lock'[i] = lock[IF i < m THEN i ELSE i + 1]
  <2>1. /\ RemoveAt(lock, m) \in Seq(Tasks)
        /\ Len(RemoveAt(lock, m)) = Len(lock) - 1
        /\ \A i \in 1..(Len(lock) - 1) :
             RemoveAt(lock, m)[i] = lock[IF i < m THEN i ELSE i + 1]
    <3>1. lock \in Seq(Tasks) /\ m \in 1..Len(lock)
      BY <1>1 DEF TypeOK
    <3> QED
      BY <3>1, RemovalShifts
  <2> QED
    BY <1>1, <1>2, <2>1
<1>4. /\ \A d \in Tasks : pc'[d] = IF d = k THEN "idle" ELSE pc[d]
      /\ "idle" \notin Waits /\ "idle" # "insert"
  BY DEF TypeOK, Waits
<1>5. /\ \A i \in 1..n : lock[i] \in Tasks /\ pc[lock[i]] \in Waits
      /\ \A i, j \in 1..n : lock[i] = lock[j] => i = j
  BY <1>1, ElementOfSeq DEF LockInv, TypeOK
<1> DEFINE old(i) == IF i < m THEN i ELSE i + 1
<1>6. /\ \A i \in 1..(n - 1) : old(i) \in 1..n /\ old(i) # m
      /\ \A i, j \in 1..(n - 1) : old(i) = old(j) => i = j
      /\ \A j \in 1..n : j # m => \E i \in 1..(n - 1) : old(i) = j
  <2>1. ASSUME NEW j \in 1..n, j # m PROVE \E i \in 1..(n - 1) : old(i) = j
    <3>1. CASE j < m
      <4>1. j \in 1..(n - 1) /\ old(j) = j
        BY <3>1
      <4> QED
        BY <4>1
    <3>2. CASE j > m
      <4>1. j - 1 \in 1..(n - 1) /\ old(j - 1) = j
        BY <3>2
      <4> QED
        BY <4>1
    <3> QED
      BY <2>1, <3>1, <3>2
  <2> QED
    BY <2>1
<1>7. \A i \in 1..(n - 1) : lock'[i] = lock[old(i)]
  BY <1>3
<1> HIDE DEF old
<1>8. \A i, j \in 1..(n - 1) : lock'[i] = lock'[j] => i = j
  BY <1>5, <1>6, <1>7
<1>9. \A i \in 1..(n - 1) : pc'[lock'[i]] \in Waits
  BY <1>2, <1>4, <1>5, <1>6, <1>7
<1>10. ASSUME NEW d \in Tasks, pc'[d] \in Waits PROVE \E i \in 1..(n - 1) : lock'[i] = d
  <2>1. d # k /\ pc[d] \in Waits
    BY <1>4, <1>10
  <2>2. PICK j \in 1..n : lock[j] = d
    BY <1>1, <2>1 DEF LockInv
  <2>3. j # m
    BY <1>2, <2>1, <2>2
  <2> QED
    BY <1>6, <1>7, <2>2, <2>3
<1>11. ASSUME NEW d \in Tasks, pc'[d] = "insert" PROVE n - 1 > 0 /\ lock'[1] = d
  <2>1. pc[d] = "insert" /\ d # k
    BY <1>4, <1>11
  <2>2. n > 0 /\ lock[1] = d
    BY <1>1, <2>1 DEF LockInv
  <2>3. 1 < m
    BY <1>2, <2>1, <2>2
  <2>4. 1 \in 1..(n - 1) /\ old(1) = 1
    BY <2>3 DEF old
  <2> QED
    BY <1>7, <2>2, <2>4
<1> QED
  BY <1>3, <1>8, <1>9, <1>10, <1>11 DEF LockInv

LEMMA Hold ==
  ASSUME TypeOK, LockInv, NEW k \in Tasks,
         pc[k] = "insert" \/ (pc[k] = "acquire" /\ Head(lock) = k),
         pc' = [pc EXCEPT ![k] = "insert"], lock' = lock
  PROVE  LockInv' /\ lock' \in Seq(Tasks)
<1>1. /\ Len(lock) > 0 /\ lock[1] = k
      /\ \A d \in Tasks : pc'[d] = "insert" => d = k
  BY HeadHolds DEF TypeOK
<1>2. \A d \in Tasks : pc[d] \in Waits <=> pc'[d] \in Waits
  BY DEF TypeOK, Waits
<1>3. \A i \in 1..Len(lock) : lock[i] \in Tasks
  BY ElementOfSeq DEF TypeOK
<1> QED
  BY <1>1, <1>2, <1>3 DEF LockInv, TypeOK
-----------------------------------------------------------------------------
(* The rows that a buffer or a batch in flight has, or that are settled.   *)
Held(r) ==
  \/ Settled(r) \/ Flying(r)
  \/ \E t \in Tables : r \in ToSet(buffer[t])

Below == \A t \in Tables : Len(buffer[t]) < BatchSize

(* What the final flush has passed stays empty.                            *)
Drained ==
  pc[Closer] = "insert" => \A j \in 1..visiting[Closer] : buffer[TableOrder[j]] = <<>>

OwnTable == \A t \in Tables : \A r \in ToSet(buffer[t]) : TableOf[r] = t
BatchesHaveRows == \A k \in Tasks : pc[k] = "insert" => batch[k] # <<>>

(* A row that a caller wants to insert is nowhere else.                    *)
WantedFresh ==
  \A c \in Callers : pc[c] = "acquire" =>
    /\ ~Held(row[c])
    /\ \A d \in Callers : pc[d] = "acquire" /\ row[d] = row[c] => d = c

WriterInv ==
  TypeOK /\ LockInv /\ Below /\ Drained /\ OwnTable /\ BatchesHaveRows /\ WantedFresh

(* Rows that become held are those of callers that no longer wait.         *)
LEMMA KeepsFresh ==
  ASSUME WantedFresh, row' = row,
         \A c \in Callers : pc'[c] = "acquire" => pc[c] = "acquire",
         \A r : Held(r)' =>
           Held(r) \/ \E c \in Callers : pc[c] = "acquire" /\ pc'[c] # "acquire" /\ row[c] = r
  PROVE  WantedFresh'
<1> SUFFICES ASSUME NEW c \in Callers, pc'[c] = "acquire"
             PROVE  /\ ~Held(row[c])'
                    /\ \A d \in Callers : pc'[d] = "acquire" /\ row[d] = row[c] => d = c
  BY DEF WantedFresh
<1>1. pc[c] = "acquire"
  OBVIOUS
<1>2. ~Held(row[c])'
  <2> SUFFICES ASSUME Held(row[c])' PROVE FALSE
    OBVIOUS
  <2>1. ~Held(row[c])
    BY <1>1 DEF WantedFresh
  <2>2. PICK d \in Callers : pc[d] = "acquire" /\ pc'[d] # "acquire" /\ row[d] = row[c]
    <3>1. row[c] = row[c]'
      OBVIOUS
    <3> QED
      BY <2>1
  <2>3. d = c
    BY <1>1, <2>2 DEF WantedFresh
  <2> QED
    BY <2>2, <2>3
<1> QED
  BY <1>1, <1>2 DEF WantedFresh

LEMMA TaskKinds ==
  /\ Callers \subseteq Tasks /\ Flusher \in Tasks /\ Closer \in Tasks
  /\ \A c \in Callers : c # Flusher /\ c # Closer
  /\ Flusher # Closer
  BY WriterAssumption DEF Tasks

LEMMA WriterInit == Init => WriterInv
<1> SUFFICES ASSUME Init PROVE WriterInv
  OBVIOUS
<1>1. TypeOK
  <2>1. (CHOOSE r \in Rows : TRUE) \in Rows
    BY WriterAssumption
  <2>2. 1 \in 1..Len(TableOrder)
    BY Indexed
  <2>3. \A S : <<>> \in Seq(S)
    BY EmptySeq
  <2> QED
    BY <2>1, <2>2, <2>3 DEF Init, TypeOK
<1>2. \A k \in Tasks : pc[k] = "idle"
  BY DEF Init
<1>3. LockInv
  <2>1. Len(lock) = 0
    BY EmptySeq DEF Init
  <2> QED
    BY <1>2, <2>1 DEF LockInv, Waits
<1>4. Below
  BY EmptySeq, WriterAssumption DEF Init, Below
<1>5. OwnTable
  BY EmptyHasNone DEF Init, OwnTable
<1> QED
  BY <1>1, <1>2, <1>3, <1>4, <1>5, TaskKinds
     DEF WriterInv, Drained, BatchesHaveRows, WantedFresh

-----------------------------------------------------------------------------
(* A task joins or leaves the queue, and nothing else happens.             *)
LEMMA WaitingKeeps ==
  ASSUME WriterInv, UNCHANGED <<buffer, batch, visiting, stored, lost>>,
         NEW k \in Tasks, pc[k] # "insert", NEW p \in {"idle", "acquire", "closed", "failed"},
         pc' = [pc EXCEPT ![k] = p], LockInv', lock' \in Seq(Tasks),
         row' \in [Callers -> Rows], cancelled' \in BOOLEAN, late' \in SUBSET Rows, WantedFresh'
  PROVE  WriterInv'
<1>1. TypeOK'
  BY DEF WriterInv, TypeOK
<1>2. \A d \in Tasks : pc'[d] = "insert" => pc[d] = "insert"
  BY DEF WriterInv, TypeOK
<1>3. Drained' /\ BatchesHaveRows'
  BY <1>2, TaskKinds DEF WriterInv, Drained, BatchesHaveRows
<1> QED
  BY <1>1, <1>3 DEF WriterInv, Below, OwnTable

LEMMA NobodyNew ==
  ASSUME WriterInv, UNCHANGED <<buffer, batch, stored, lost>>,
         NEW k \in Tasks, pc[k] # "insert", NEW p \in {"idle", "acquire", "closed", "failed"},
         pc' = [pc EXCEPT ![k] = p]
  PROVE  \A r : Held(r)' <=> Held(r)
<1>1. \A d \in Tasks : pc'[d] = "insert" <=> pc[d] = "insert"
  BY DEF WriterInv, TypeOK
<1> QED
  BY <1>1 DEF Held, Settled, Flying

LEMMA LeavingKeeps ==
  ASSUME WriterInv, UNCHANGED <<buffer, row, batch, visiting, cancelled, stored, lost, late>>,
         NEW k \in Tasks, pc[k] = "acquire",
         pc' = [pc EXCEPT ![k] = "idle"], lock' = LockWithout(k)
  PROVE  WriterInv'
<1>1. LockInv' /\ lock' \in Seq(Tasks)
  BY Leave DEF WriterInv
<1>2. \A r : Held(r)' <=> Held(r)
  BY NobodyNew
<1>3. \A c \in Tasks : pc'[c] = "acquire" => pc[c] = "acquire"
  BY DEF WriterInv, TypeOK
<1>4. WantedFresh'
  BY <1>2, <1>3, KeepsFresh, TaskKinds DEF WriterInv
<1> QED
  BY <1>1, <1>4, WaitingKeeps DEF WriterInv, TypeOK

LEMMA JoiningKeeps ==
  ASSUME WriterInv, UNCHANGED <<buffer, row, batch, visiting, stored, lost, late>>,
         cancelled' \in BOOLEAN, NEW k \in Tasks \ Callers, pc[k] = "idle",
         pc' = [pc EXCEPT ![k] = "acquire"], lock' = Append(lock, k)
  PROVE  WriterInv'
<1>1. LockInv' /\ lock' \in Seq(Tasks)
  BY Enqueue DEF WriterInv, Waits
<1>2. \A r : Held(r)' <=> Held(r)
  BY NobodyNew
<1>3. \A c \in Callers : pc'[c] = pc[c]
  BY TaskKinds DEF WriterInv, TypeOK
<1>4. WantedFresh'
  BY <1>2, <1>3, KeepsFresh DEF WriterInv
<1> QED
  BY <1>1, <1>4, WaitingKeeps DEF WriterInv, TypeOK

LEMMA InsertKeeps ==
  ASSUME WriterInv, NEW c \in Callers, NEW r \in Rows, Insert(c, r)
  PROVE  WriterInv'
<1>1. /\ pc[c] = "idle" /\ ~Live(r) /\ c \in Tasks
      /\ pc' = [pc EXCEPT ![c] = "acquire"]
      /\ row' = [row EXCEPT ![c] = r]
      /\ lock' = Append(lock, c)
      /\ late' = IF cancelled THEN late \cup {r} ELSE late
      /\ UNCHANGED <<buffer, batch, visiting, cancelled, stored, lost>>
  BY TaskKinds DEF Insert
<1>2. LockInv' /\ lock' \in Seq(Tasks)
  BY <1>1, Enqueue DEF WriterInv, Waits
<1>3. \A s : Held(s)' <=> Held(s)
  BY <1>1, NobodyNew
<1>4. row' \in [Callers -> Rows] /\ row'[c] = r /\ \A d \in Callers \ {c} : row'[d] = row[d]
  BY <1>1 DEF WriterInv, TypeOK
<1>5. ~Held(r)
  <2>1. \A t \in Tables : r \in ToSet(buffer[t]) => t = TableOf[r]
    BY DEF WriterInv, OwnTable
  <2> QED
    BY <1>1, <2>1 DEF Live, Held, Buffered
<1>6. \A d \in Callers : pc[d] = "acquire" => row[d] # r
  BY <1>1 DEF Live, Wanted
<1>7. \A d \in Callers \ {c} : pc'[d] = pc[d]
  BY <1>1, TaskKinds DEF WriterInv, TypeOK
<1>8. WantedFresh'
  <2> SUFFICES ASSUME NEW d \in Callers, pc'[d] = "acquire"
               PROVE  /\ ~Held(row[d])'
                      /\ \A e \in Callers : pc'[e] = "acquire" /\ row'[e] = row'[d] => e = d
    BY DEF WantedFresh
  <2>1. ~Held(row'[d])
    BY <1>4, <1>5, <1>7 DEF WriterInv, WantedFresh
  <2>2. ~Held(row[d])'
    BY <1>3, <2>1
  <2>3. ASSUME NEW e \in Callers, pc'[e] = "acquire", row'[e] = row'[d] PROVE e = d
    BY <1>4, <1>6, <1>7, <2>3 DEF WriterInv, WantedFresh
  <2> QED
    BY <2>2, <2>3
<1> QED
  BY <1>1, <1>2, <1>4, <1>8, WaitingKeeps DEF WriterInv, TypeOK
-----------------------------------------------------------------------------
(* A caller that holds the lock adds its row.                              *)
LEMMA AppendKeeps ==
  ASSUME WriterInv, NEW c \in Callers, AppendRow(c)
  PROVE  WriterInv'
<1> DEFINE t == TableOf[row[c]]
           b == Append(buffer[t], row[c])
<1>1. /\ pc[c] = "acquire" /\ Head(lock) = c /\ c \in Tasks /\ c # Closer
      /\ ~(Len(buffer[t]) + 1 >= BatchSize)
      /\ buffer' = [buffer EXCEPT ![t] = b]
      /\ pc' = [pc EXCEPT ![c] = "idle"]
      /\ lock' = Rest(lock)
      /\ UNCHANGED <<row, batch, visiting, cancelled, stored, lost, late>>
  BY TaskKinds DEF AppendRow, Fills
<1>2. row[c] \in Rows /\ t \in Tables /\ buffer[t] \in Seq(Rows)
  BY WriterAssumption DEF WriterInv, TypeOK
<1>3. /\ b \in Seq(Rows) /\ Len(b) = Len(buffer[t]) + 1
      /\ ToSet(b) = ToSet(buffer[t]) \cup {row[c]}
  BY <1>2, AppendProperties, ElementsOfAppend
<1> HIDE DEF b
<1>4. \A s \in Tables : buffer'[s] = IF s = t THEN b ELSE buffer[s]
  BY <1>1, <1>2 DEF WriterInv, TypeOK
<1>5. LockInv' /\ lock' \in Seq(Tasks)
  BY <1>1, Release DEF WriterInv
<1>6. \A d \in Tasks : pc[d] # "insert" /\ pc'[d] # "insert"
  BY <1>1, HeadHolds DEF WriterInv, TypeOK
<1>7. TypeOK'
  BY <1>1, <1>2, <1>3, <1>5 DEF WriterInv, TypeOK
<1>8. Below'
  <2>1. Len(buffer[t]) \in Nat /\ BatchSize \in Nat
    BY <1>2, LenProperties, WriterAssumption
  <2>2. Len(b) < BatchSize
    BY <1>1, <1>3, <2>1
  <2> QED
    BY <1>4, <2>2 DEF WriterInv, Below
<1>9. OwnTable'
  BY <1>3, <1>4 DEF WriterInv, OwnTable
<1>10. WantedFresh'
  <2>1. \A r : Held(r)' => Held(r) \/ r = row[c]
    BY <1>1, <1>2, <1>3, <1>4, <1>6 DEF Held, Settled, Flying
  <2>2. \A d \in Callers : pc'[d] = "acquire" => pc[d] = "acquire"
    BY <1>1, TaskKinds DEF WriterInv, TypeOK
  <2>3. pc'[c] # "acquire"
    BY <1>1 DEF WriterInv, TypeOK
  <2> QED
    BY <1>1, <2>1, <2>2, <2>3, KeepsFresh DEF WriterInv
<1> QED
  BY <1>5, <1>6, <1>7, <1>8, <1>9, <1>10, TaskKinds DEF WriterInv, Drained, BatchesHaveRows

LEMMA FillKeeps ==
  ASSUME WriterInv, NEW c \in Callers, FillBatch(c)
  PROVE  WriterInv'
<1> DEFINE t == TableOf[row[c]]
           b == Append(buffer[t], row[c])
<1>1. /\ pc[c] = "acquire" /\ Head(lock) = c /\ c \in Tasks /\ c # Closer
      /\ batch' = [batch EXCEPT ![c] = b]
      /\ buffer' = [buffer EXCEPT ![t] = <<>>]
      /\ visiting' = [visiting EXCEPT ![c] = IndexOf(t)]
      /\ pc' = [pc EXCEPT ![c] = "insert"]
      /\ UNCHANGED <<lock, row, cancelled, stored, lost, late>>
  BY TaskKinds DEF FillBatch, Cleared
<1>2. row[c] \in Rows /\ t \in Tables /\ buffer[t] \in Seq(Rows)
  BY WriterAssumption DEF WriterInv, TypeOK
<1>3. b \in Seq(Rows) /\ b # <<>> /\ ToSet(b) = ToSet(buffer[t]) \cup {row[c]}
  BY <1>2, AppendProperties, ElementsOfAppend
<1> HIDE DEF b
<1>4. \A s \in Tables : buffer'[s] = IF s = t THEN <<>> ELSE buffer[s]
  BY <1>1, <1>2 DEF WriterInv, TypeOK
<1>5. LockInv' /\ lock' \in Seq(Tasks)
  BY <1>1, Hold DEF WriterInv
<1>6. /\ \A d \in Tasks : pc'[d] = "insert" => d = c
      /\ batch'[c] = b
  BY <1>1, HeadHolds DEF WriterInv, TypeOK
<1>7. TypeOK'
  <2>1. IndexOf(t) \in 1..Len(TableOrder)
    BY <1>2, TableIndices
  <2>2. <<>> \in Seq(Rows)
    BY EmptySeq
  <2> QED
    BY <1>1, <1>2, <1>3, <1>5, <2>1, <2>2 DEF WriterInv, TypeOK
<1>8. Below'
  BY <1>4, EmptySeq, WriterAssumption DEF WriterInv, Below
<1>9. OwnTable'
  BY <1>4, EmptyHasNone DEF WriterInv, OwnTable
<1>10. WantedFresh'
  <2>1. \A r : Held(r)' => Held(r) \/ r = row[c]
    BY <1>1, <1>2, <1>3, <1>4, <1>6, EmptyHasNone DEF Held, Settled, Flying
  <2>2. \A d \in Callers : pc'[d] = "acquire" => pc[d] = "acquire"
    BY <1>1, TaskKinds DEF WriterInv, TypeOK
  <2>3. pc'[c] # "acquire"
    BY <1>1 DEF WriterInv, TypeOK
  <2> QED
    BY <1>1, <2>1, <2>2, <2>3, KeepsFresh DEF WriterInv
<1> QED
  BY <1>1, <1>3, <1>5, <1>6, <1>7, <1>8, <1>9, <1>10, TaskKinds
     DEF WriterInv, Drained, BatchesHaveRows

-----------------------------------------------------------------------------
(* A flush from index i on finds nothing and is over, or takes the first   *)
(* buffer that has rows.                                                   *)
EmptyIn(i, j) == \A m \in i..j : buffer[TableOrder[m]] = <<>>

FlushOver(k) ==
  /\ pc' = [pc EXCEPT ![k] = Done(k)]
  /\ lock' = Rest(lock)
  /\ HandsOver(k)
  /\ UNCHANGED buffer

FlushTakes(k, j) ==
  /\ buffer[TableOrder[j]] # <<>>
  /\ batch' = [batch EXCEPT ![k] = buffer[TableOrder[j]]]
  /\ buffer' = [buffer EXCEPT ![TableOrder[j]] = <<>>]
  /\ visiting' = [visiting EXCEPT ![k] = j]
  /\ pc' = [pc EXCEPT ![k] = "insert"]
  /\ UNCHANGED lock

LEMMA FlushCases ==
  ASSUME NEW k, NEW i \in Nat \ {0}, FlushFrom(k, i, Done(k))
  PROVE  \/ FlushOver(k) /\ EmptyIn(i, Len(TableOrder))
         \/ \E j \in i..Len(TableOrder) : FlushTakes(k, j) /\ EmptyIn(i, j - 1)
<1> DEFINE S == Flushable(i, buffer)
<1>1. CASE S = {}
  <2>1. EmptyIn(i, Len(TableOrder))
    BY <1>1 DEF Flushable, EmptyIn
  <2> QED
    BY <1>1, <2>1 DEF FlushFrom, FlushOver
<1>2. CASE S # {}
  <2>1. S \in SUBSET Nat /\ Len(TableOrder) \in Nat
    BY Indexed DEF Flushable
  <2>2. First(S) \in S /\ \A m \in S : First(S) <= m
    BY <1>2, <2>1, FirstIsLeast
  <2>3. PICK j \in S : j = First(S)
    BY <2>2
  <2>4. j \in i..Len(TableOrder) /\ buffer[TableOrder[j]] # <<>> /\ \A m \in S : j <= m
    BY <2>2, <2>3 DEF Flushable
  <2>5. EmptyIn(i, j - 1)
    <3> SUFFICES ASSUME NEW m \in i..(j - 1) PROVE buffer[TableOrder[m]] = <<>>
      BY DEF EmptyIn
    <3>1. m \in i..Len(TableOrder) /\ ~(j <= m)
      BY <2>1, <2>4
    <3>2. m \notin S
      BY <2>4, <3>1
    <3> QED
      BY <3>1, <3>2 DEF Flushable
  <2>6. FlushTakes(k, j)
    BY <1>2, <2>3, <2>4 DEF FlushFrom, FlushTakes, Cleared
  <2> QED
    BY <2>4, <2>5, <2>6
<1> QED
  BY <1>1, <1>2

(* A task that holds the lock is done with inserting: its batch is settled,*)
(* or it had none.                                                         *)
LEMMA EndKeeps ==
  ASSUME WriterInv, NEW k \in Tasks,
         pc[k] = "insert" \/ (pc[k] = "acquire" /\ Head(lock) = k /\ k \notin Callers),
         NEW p \in {"idle", "closing", "failed"},
         pc' = [pc EXCEPT ![k] = p], lock' = Rest(lock), HandsOver(k),
         UNCHANGED <<buffer, row, cancelled, late>>,
         stored' \in SUBSET Rows, lost' \in SUBSET Rows,
         \A r : Settled(r)' => Settled(r) \/ Flying(r)
  PROVE  WriterInv'
<1>1. LockInv' /\ lock' \in Seq(Tasks)
  BY Release DEF WriterInv
<1>2. \A d \in Tasks : pc'[d] # "insert"
  BY HeadHolds DEF WriterInv, TypeOK
<1>3. TypeOK'
  <2>1. <<>> \in Seq(Rows) /\ 1 \in 1..Len(TableOrder)
    BY EmptySeq, Indexed
  <2> QED
    BY <1>1, <2>1 DEF WriterInv, TypeOK, HandsOver
<1>4. WantedFresh'
  <2>1. \A r : Held(r)' => Held(r)
    BY <1>2 DEF Held, Flying
  <2>2. \A d \in Tasks : pc'[d] = "acquire" => pc[d] = "acquire"
    BY DEF WriterInv, TypeOK
  <2> QED
    BY <2>1, <2>2, KeepsFresh, TaskKinds DEF WriterInv
<1> QED
  BY <1>1, <1>2, <1>3, <1>4, TaskKinds
     DEF WriterInv, Below, OwnTable, Drained, BatchesHaveRows

(* It goes on to a buffer that has rows.                                   *)
LEMMA TakeKeeps ==
  ASSUME WriterInv, NEW k \in {Flusher, Closer},
         pc[k] = "insert" \/ (pc[k] = "acquire" /\ Head(lock) = k),
         NEW j \in 1..Len(TableOrder), FlushTakes(k, j),
         k = Closer => EmptyIn(1, j - 1),
         UNCHANGED <<row, cancelled, late>>,
         stored' \in SUBSET Rows, lost' \in SUBSET Rows,
         \A r : Settled(r)' => Settled(r) \/ Flying(r)
  PROVE  WriterInv'
<1> DEFINE t == TableOrder[j]
<1>1. /\ buffer[t] # <<>>
      /\ batch' = [batch EXCEPT ![k] = buffer[t]]
      /\ buffer' = [buffer EXCEPT ![t] = <<>>]
      /\ visiting' = [visiting EXCEPT ![k] = j]
      /\ pc' = [pc EXCEPT ![k] = "insert"]
      /\ lock' = lock
  BY DEF FlushTakes
<1>2. t \in Tables /\ k \in Tasks /\ k \notin Callers
  BY Indexed, TaskKinds
<1> HIDE DEF t
<1>3. LockInv' /\ lock' \in Seq(Tasks)
  BY <1>1, <1>2, Hold DEF WriterInv
<1>4. \A d \in Tasks : pc'[d] = "insert" => d = k
  BY <1>1, <1>2, HeadHolds DEF WriterInv, TypeOK
<1>5. batch'[k] = buffer[t] /\ visiting'[k] = j /\ buffer[t] \in Seq(Rows)
  BY <1>1, <1>2 DEF WriterInv, TypeOK
<1>6. \A s \in Tables : buffer'[s] = IF s = t THEN <<>> ELSE buffer[s]
  BY <1>1, <1>2 DEF WriterInv, TypeOK
<1>7. TypeOK'
  <2>1. <<>> \in Seq(Rows)
    BY EmptySeq
  <2> QED
    BY <1>1, <1>2, <1>3, <1>5, <2>1 DEF WriterInv, TypeOK
<1>8. Below'
  BY <1>6, EmptySeq, WriterAssumption DEF WriterInv, Below
<1>9. OwnTable'
  BY <1>6, EmptyHasNone DEF WriterInv, OwnTable
<1>10. BatchesHaveRows'
  BY <1>1, <1>4, <1>5 DEF BatchesHaveRows
<1>11. Drained'
  <2> SUFFICES ASSUME k = Closer, NEW m \in 1..j PROVE buffer'[TableOrder[m]] = <<>>
    BY <1>4, <1>5, TaskKinds DEF Drained
  <2>1. j \in Nat /\ j <= Len(TableOrder) /\ Len(TableOrder) \in Nat
    BY Indexed
  <2>2. m = j \/ m \in 1..(j - 1)
    BY <2>1
  <2>3. TableOrder[m] \in Tables
    BY <2>1, Indexed
  <2>4. CASE m = j
    BY <1>2, <1>6, <2>4 DEF t
  <2>5. CASE m \in 1..(j - 1)
    BY <1>6, <2>3, <2>5 DEF EmptyIn
  <2> QED
    BY <2>2, <2>4, <2>5
<1>12. WantedFresh'
  <2>1. \A r : Held(r)' => Held(r)
    BY <1>2, <1>4, <1>5, <1>6, EmptyHasNone DEF Held, Flying
  <2>2. \A d \in Callers : pc'[d] = "acquire" => pc[d] = "acquire"
    BY <1>1, TaskKinds DEF WriterInv, TypeOK
  <2> QED
    BY <2>1, <2>2, KeepsFresh DEF WriterInv
<1> QED
  BY <1>3, <1>7, <1>8, <1>9, <1>10, <1>11, <1>12 DEF WriterInv
-----------------------------------------------------------------------------
(* When the final flush releases the lock every buffer is empty.           *)
DrainsIfClosed ==
  pc[Closer] # "closing" /\ pc'[Closer] = "closing" => \A t \in Tables : buffer'[t] = <<>>

LEMMA FlushKeeps ==
  ASSUME WriterInv, NEW k \in {Flusher, Closer},
         pc[k] = "insert" \/ (pc[k] = "acquire" /\ Head(lock) = k),
         NEW i \in 1..(Len(TableOrder) + 1), FlushFrom(k, i, Done(k)),
         k = Closer => EmptyIn(1, i - 1),
         UNCHANGED <<row, cancelled, late>>,
         stored' \in SUBSET Rows, lost' \in SUBSET Rows,
         \A r : Settled(r)' => Settled(r) \/ Flying(r)
  PROVE  WriterInv' /\ DrainsIfClosed
<1>1. k \in Tasks /\ k \notin Callers /\ i \in Nat \ {0} /\ Len(TableOrder) \in Nat
  BY TaskKinds, Indexed
<1>2. CASE FlushOver(k) /\ EmptyIn(i, Len(TableOrder))
  <2>1. Done(k) \in {"idle", "closing", "failed"}
    BY DEF Done
  <2>2. WriterInv'
    BY <1>1, <1>2, <2>1, EndKeeps DEF FlushOver
  <2>3. ASSUME pc[Closer] # "closing", pc'[Closer] = "closing", NEW t \in Tables
        PROVE  buffer'[t] = <<>>
    <3>1. k = Closer
      BY <1>1, <1>2, <2>3, TaskKinds DEF WriterInv, TypeOK, FlushOver
    <3>2. PICK m \in 1..Len(TableOrder) : TableOrder[m] = t
      BY TableIndices
    <3>3. m \in 1..(i - 1) \/ m \in i..Len(TableOrder)
      BY <1>1
    <3>4. buffer[TableOrder[m]] = <<>>
      BY <1>2, <3>1, <3>3 DEF EmptyIn
    <3> QED
      BY <1>2, <3>2, <3>4 DEF FlushOver
  <2> QED
    BY <2>2, <2>3 DEF DrainsIfClosed
<1>3. ASSUME NEW j \in i..Len(TableOrder), FlushTakes(k, j), EmptyIn(i, j - 1)
      PROVE  WriterInv' /\ DrainsIfClosed
  <2>1. j \in 1..Len(TableOrder)
    BY <1>1
  <2>2. k = Closer => EmptyIn(1, j - 1)
    <3> SUFFICES ASSUME k = Closer, NEW m \in 1..(j - 1) PROVE buffer[TableOrder[m]] = <<>>
      BY DEF EmptyIn
    <3>1. m \in 1..(i - 1) \/ m \in i..(j - 1)
      BY <1>1, <2>1
    <3> QED
      BY <1>3, <3>1 DEF EmptyIn
  <2>3. WriterInv'
    BY <1>3, <2>1, <2>2, TakeKeeps
  <2>4. pc'[Closer] = "closing" => pc[Closer] = "closing"
    BY <1>1, <1>3, TaskKinds DEF WriterInv, TypeOK, FlushTakes
  <2> QED
    BY <2>3, <2>4 DEF DrainsIfClosed
<1> QED
  BY <1>1, <1>2, <1>3, FlushCases

LEMMA StartFlushKeeps ==
  ASSUME WriterInv, NEW k \in {Flusher, Closer}, StartFlush(k)
  PROVE  WriterInv' /\ DrainsIfClosed
<1>1. /\ pc[k] = "acquire" /\ Head(lock) = k
      /\ FlushFrom(k, 1, Done(k))
      /\ UNCHANGED <<row, cancelled, stored, lost, late>>
  BY DEF StartFlush, FirstVisited
<1>2. 1 \in 1..(Len(TableOrder) + 1)
  BY Indexed
<1>3. EmptyIn(1, 1 - 1)
  BY DEF EmptyIn
<1>4. stored' \in SUBSET Rows /\ lost' \in SUBSET Rows
  BY <1>1 DEF WriterInv, TypeOK
<1>5. \A r : Settled(r)' => Settled(r) \/ Flying(r)
  BY <1>1 DEF Settled
<1> QED
  BY <1>1, <1>2, <1>3, <1>4, <1>5, FlushKeeps

LEMMA InsertOkKeeps ==
  ASSUME WriterInv, NEW k \in Tasks, InsertOk(k)
  PROVE  WriterInv' /\ DrainsIfClosed
<1>1. /\ pc[k] = "insert"
      /\ stored' = stored \cup ToSet(batch[k])
      /\ UNCHANGED <<row, cancelled, lost, late>>
  BY DEF InsertOk
<1>2. ToSet(batch[k]) \subseteq Rows
  BY ElementsOf DEF WriterInv, TypeOK
<1>3. stored' \in SUBSET Rows /\ lost' \in SUBSET Rows
  BY <1>1, <1>2 DEF WriterInv, TypeOK
<1>4. \A r : Settled(r)' => Settled(r) \/ Flying(r)
  BY <1>1 DEF Settled, Flying
<1>5. CASE k \in Callers
  <2>1. /\ pc' = [pc EXCEPT ![k] = "idle"]
        /\ lock' = Rest(lock)
        /\ HandsOver(k)
        /\ UNCHANGED buffer
    BY <1>5 DEF InsertOk
  <2>2. WriterInv'
    BY <1>1, <1>3, <1>4, <2>1, EndKeeps
  <2>3. pc'[Closer] = pc[Closer]
    BY <1>5, <2>1, TaskKinds DEF WriterInv, TypeOK
  <2> QED
    BY <2>2, <2>3 DEF DrainsIfClosed
<1>6. CASE k \notin Callers
  <2> DEFINE i == visiting[k] + 1
  <2>1. k \in {Flusher, Closer} /\ FlushFrom(k, i, Done(k))
    BY <1>6 DEF InsertOk, Tasks
  <2>2. i \in 1..(Len(TableOrder) + 1) /\ i - 1 = visiting[k]
    BY Indexed DEF WriterInv, TypeOK
  <2>3. k = Closer => EmptyIn(1, i - 1)
    BY <1>1, <2>2 DEF WriterInv, Drained, EmptyIn
  <2> HIDE DEF i
  <2> QED
    BY <1>1, <1>3, <1>4, <2>1, <2>2, <2>3, FlushKeeps
<1> QED
  BY <1>5, <1>6

LEMMA InsertRaisesKeeps ==
  ASSUME WriterInv, NEW k \in Tasks, NEW applied \in BOOLEAN, InsertRaises(k, applied)
  PROVE  WriterInv' /\ DrainsIfClosed
<1>1. /\ pc[k] = "insert"
      /\ \/ stored' = stored \cup ToSet(batch[k]) /\ UNCHANGED lost
         \/ lost' = lost \cup ToSet(batch[k]) /\ UNCHANGED stored
      /\ pc' = [pc EXCEPT ![k] = AfterFailure(k)]
      /\ lock' = Rest(lock)
      /\ HandsOver(k)
      /\ UNCHANGED <<buffer, row, cancelled, late>>
  BY DEF InsertRaises
<1>2. ToSet(batch[k]) \subseteq Rows
  BY ElementsOf DEF WriterInv, TypeOK
<1>3. stored' \in SUBSET Rows /\ lost' \in SUBSET Rows
  BY <1>1, <1>2 DEF WriterInv, TypeOK
<1>4. \A r : Settled(r)' => Settled(r) \/ Flying(r)
  BY <1>1 DEF Settled, Flying
<1>5. AfterFailure(k) \in {"idle", "failed"}
  BY DEF AfterFailure
<1>6. WriterInv'
  BY <1>1, <1>3, <1>4, <1>5, EndKeeps
<1>7. pc'[Closer] = "closing" => pc[Closer] = "closing"
  BY <1>1, <1>5, TaskKinds DEF WriterInv, TypeOK
<1> QED
  BY <1>6, <1>7 DEF DrainsIfClosed

LEMMA ForgetKeeps ==
  ASSUME WriterInv, NEW r \in Rows, Forget(r)
  PROVE  WriterInv'
<1>1. /\ stored' = stored \ {r} /\ lost' = lost \ {r}
      /\ UNCHANGED <<buffer, lock, pc, row, batch, visiting, cancelled, late>>
  BY DEF Forget
<1>2. TypeOK' /\ LockInv'
  BY <1>1 DEF WriterInv, TypeOK, LockInv
<1>3. \A s : Held(s)' => Held(s)
  BY <1>1 DEF Held, Settled, Flying
<1>4. WantedFresh'
  BY <1>1, <1>3, KeepsFresh DEF WriterInv
<1> QED
  BY <1>1, <1>2, <1>4 DEF WriterInv, Below, OwnTable, Drained, BatchesHaveRows

LEMMA ClientClosedKeeps ==
  ASSUME WriterInv, NEW returns \in BOOLEAN, ClientClosed(returns)
  PROVE  WriterInv' /\ DrainsIfClosed
<1>1. PICK p \in {"closed", "failed"} : pc' = [pc EXCEPT ![Closer] = p]
  BY DEF ClientClosed
<1>2. /\ pc[Closer] = "closing" /\ Closer \in Tasks
      /\ UNCHANGED <<buffer, lock, row, batch, visiting, cancelled, stored, lost, late>>
  BY TaskKinds DEF ClientClosed
<1>3. \A d \in Tasks : pc'[d] = IF d = Closer THEN p ELSE pc[d]
  BY <1>1 DEF WriterInv, TypeOK
<1>4. \A i \in 1..Len(lock) : lock[i] \in Tasks
  BY ElementOfSeq DEF WriterInv, TypeOK
<1>5. LockInv' /\ lock' \in Seq(Tasks)
  BY <1>2, <1>3, <1>4 DEF WriterInv, TypeOK, LockInv, Waits
<1>6. \A r : Held(r)' <=> Held(r)
  BY <1>1, <1>2, NobodyNew
<1>7. WantedFresh'
  <2>1. \A c \in Callers : pc'[c] = pc[c]
    BY <1>3, TaskKinds
  <2> QED
    BY <1>2, <1>6, <2>1, KeepsFresh DEF WriterInv
<1>8. WriterInv'
  <2>1. /\ row' \in [Callers -> Rows] /\ cancelled' \in BOOLEAN /\ late' \in SUBSET Rows
        /\ p \in {"idle", "acquire", "closed", "failed"}
    BY <1>2 DEF WriterInv, TypeOK
  <2> QED
    BY <1>1, <1>2, <1>5, <1>7, <2>1, WaitingKeeps
<1>9. pc'[Closer] # "closing"
  BY <1>2, <1>3
<1> QED
  BY <1>8, <1>9 DEF DrainsIfClosed

LEMMA StepKeeps == WriterInv /\ [Next]_vars => WriterInv' /\ (DrainsIfClosed \/ UNCHANGED vars)
<1> SUFFICES ASSUME WriterInv, [Next]_vars
             PROVE  WriterInv' /\ (DrainsIfClosed \/ UNCHANGED vars)
  OBVIOUS
<1>1. ASSUME NEW c \in Callers, NEW r \in Rows, Insert(c, r) PROVE WriterInv' /\ DrainsIfClosed
  <2>1. pc'[Closer] = pc[Closer]
    BY <1>1, TaskKinds DEF Insert, WriterInv, TypeOK
  <2> QED
    BY <1>1, <2>1, InsertKeeps DEF DrainsIfClosed
<1>2. ASSUME NEW c \in Callers, AppendRow(c) PROVE WriterInv' /\ DrainsIfClosed
  <2>1. pc'[Closer] = pc[Closer]
    BY <1>2, TaskKinds DEF AppendRow, WriterInv, TypeOK
  <2> QED
    BY <1>2, <2>1, AppendKeeps DEF DrainsIfClosed
<1>3. ASSUME NEW c \in Callers, FillBatch(c) PROVE WriterInv' /\ DrainsIfClosed
  <2>1. pc'[Closer] = pc[Closer]
    BY <1>3, TaskKinds DEF FillBatch, WriterInv, TypeOK
  <2> QED
    BY <1>3, <2>1, FillKeeps DEF DrainsIfClosed
<1>4. ASSUME NEW c \in Callers, Abandon(c) PROVE WriterInv' /\ DrainsIfClosed
  <2>1. pc'[Closer] = pc[Closer]
    BY <1>4, TaskKinds DEF Abandon, WriterInv, TypeOK
  <2> QED
    BY <1>4, <2>1, LeavingKeeps, TaskKinds DEF Abandon, DrainsIfClosed
<1>5. CASE WakeFlusher
  <2>1. pc'[Closer] = pc[Closer]
    BY <1>5, TaskKinds DEF WakeFlusher, WriterInv, TypeOK
  <2>2. cancelled' \in BOOLEAN
    BY <1>5 DEF WakeFlusher, WriterInv, TypeOK
  <2> QED
    BY <1>5, <2>1, <2>2, JoiningKeeps, TaskKinds DEF WakeFlusher, DrainsIfClosed
<1>6. CASE Close
  <2>1. pc'[Closer] = "acquire"
    BY <1>6, TaskKinds DEF Close, WriterInv, TypeOK
  <2> QED
    BY <1>6, <2>1, JoiningKeeps, TaskKinds DEF Close, DrainsIfClosed
<1>7. CASE UnqueueFlusher
  <2>1. pc'[Closer] = pc[Closer]
    BY <1>7, TaskKinds DEF UnqueueFlusher, WriterInv, TypeOK
  <2> QED
    BY <1>7, <2>1, LeavingKeeps, TaskKinds DEF UnqueueFlusher, DrainsIfClosed
<1>8. ASSUME NEW r \in Rows, Forget(r) PROVE WriterInv' /\ DrainsIfClosed
  BY <1>8, ForgetKeeps DEF Forget, DrainsIfClosed
<1>9. CASE UNCHANGED vars
  <2>1. UNCHANGED <<buffer, lock, pc, row, batch, visiting, cancelled, stored, lost, late>>
    BY <1>9 DEF vars
  <2>2. TypeOK' /\ LockInv'
    BY <2>1 DEF WriterInv, TypeOK, LockInv
  <2>3. \A s : Held(s)' => Held(s)
    BY <2>1 DEF Held, Settled, Flying
  <2>4. WantedFresh'
    BY <2>1, <2>3, KeepsFresh DEF WriterInv
  <2> QED
    BY <1>9, <2>1, <2>2, <2>4 DEF WriterInv, Below, OwnTable, Drained, BatchesHaveRows
<1> QED
  BY <1>1, <1>2, <1>3, <1>4, <1>5, <1>6, <1>7, <1>8, <1>9,
     StartFlushKeeps, InsertOkKeeps, InsertRaisesKeeps, ClientClosedKeeps DEF Next, Finish

LEMMA WriterInductive == WriterInv /\ [Next]_vars => WriterInv'
  BY StepKeeps

(* Whatever fails, a buffer never waits at batch_size: insert_* flushes it *)
(* in the same turn that fills it (clickhouse.py).                         *)
THEOREM LimitHolds == Spec => []BuffersBelowLimit
<1>1. WriterInv => BuffersBelowLimit
  BY DEF WriterInv, Below, BuffersBelowLimit
<1> QED
  BY <1>1, WriterInit, WriterInductive, PTL DEF Spec

-----------------------------------------------------------------------------
(* The callers behind the final flush in the queue of the lock came after  *)
(* close().                                                                *)
Behind ==
  \A i, j \in 1..Len(lock) :
    i < j /\ lock[i] = Closer /\ lock[j] \in Callers => row[lock[j]] \in late

(* Once the final flush has released the lock, only rows of later calls    *)
(* wait or are buffered.                                                   *)
OnlyLate ==
  /\ \A c \in Callers : pc[c] = "acquire" => row[c] \in late
  /\ \A t \in Tables : ToSet(buffer[t]) \subseteq late

LateInv ==
  /\ cancelled \/ pc[Closer] = "idle"
  /\ Behind
  /\ pc[Closer] \in {"closing", "closed"} => cancelled /\ OnlyLate

(* The queue keeps its order when tasks leave it.                          *)
KeepsOrder ==
  \A i, j \in 1..Len(lock') : i < j =>
    \E a, b \in 1..Len(lock) : a < b /\ lock[a] = lock'[i] /\ lock[b] = lock'[j]

LEMMA OrderKeepsBehind ==
  ASSUME Behind, KeepsOrder, UNCHANGED <<row, late>>
  PROVE  Behind'
BY DEF Behind, KeepsOrder

LEMMA ReleaseKeepsOrder ==
  ASSUME TypeOK, LockInv, NEW k \in Tasks,
         pc[k] = "insert" \/ (pc[k] = "acquire" /\ Head(lock) = k), lock' = Rest(lock)
  PROVE  KeepsOrder
<1>1. PICK n \in Nat \ {0} : Len(lock) = n
  BY HeadHolds
<1>2. /\ Len(lock') = n - 1
      /\ \A i \in 1..(n - 1) : lock'[i] = lock[i + 1]
  BY <1>1, HeadHolds, RestShifts, ZenonT(40) DEF TypeOK
<1>3. \A i, j \in 1..(n - 1) : i < j =>
        i + 1 \in 1..n /\ j + 1 \in 1..n /\ i + 1 < j + 1
  OBVIOUS
<1> QED
  BY <1>1, <1>2, <1>3 DEF KeepsOrder

LEMMA LeaveKeepsOrder ==
  ASSUME TypeOK, LockInv, NEW k \in Tasks, pc[k] = "acquire", lock' = LockWithout(k)
  PROVE  KeepsOrder
<1>1. PICK n \in Nat : Len(lock) = n
  BY LenProperties DEF TypeOK
<1>2. PICK m \in 1..n : lock[m] = k /\ lock' = RemoveAt(lock, m)
  BY <1>1 DEF LockInv, LockWithout, Waits
<1>3. /\ Len(lock') = n - 1
      /\ \A i \in 1..(n - 1) : lock'[i] = lock[IF i < m THEN i ELSE i + 1]
  <2>1. /\ Len(RemoveAt(lock, m)) = Len(lock) - 1
        /\ \A i \in 1..(Len(lock) - 1) :
             RemoveAt(lock, m)[i] = lock[IF i < m THEN i ELSE i + 1]
    <3>1. lock \in Seq(Tasks) /\ m \in 1..Len(lock)
      BY <1>1 DEF TypeOK
    <3> QED
      BY <3>1, RemovalShifts
  <2> QED
    BY <1>1, <1>2, <2>1
<1> DEFINE old(i) == IF i < m THEN i ELSE i + 1
<1>4. \A i, j \in 1..(n - 1) : i < j => old(i) \in 1..n /\ old(j) \in 1..n /\ old(i) < old(j)
  OBVIOUS
<1>5. \A i \in 1..(n - 1) : lock'[i] = lock[old(i)]
  BY <1>3
<1> HIDE DEF old
<1>6. ASSUME NEW i \in 1..(n - 1), NEW j \in 1..(n - 1), i < j
      PROVE  \E a, b \in 1..n : a < b /\ lock[a] = lock'[i] /\ lock[b] = lock'[j]
  <2>1. old(i) \in 1..n /\ old(j) \in 1..n /\ old(i) < old(j)
    BY <1>4, <1>6
  <2>2. lock'[i] = lock[old(i)] /\ lock'[j] = lock[old(j)]
    BY <1>5
  <2> QED
    BY <2>1, <2>2
<1> QED
  BY <1>1, <1>3, <1>6 DEF KeepsOrder

LEMMA EnqueueKeepsBehind ==
  ASSUME TypeOK, LockInv, Behind, NEW k \in Tasks, lock' = Append(lock, k),
         pc[k] \notin Waits,
         \A c \in Callers \ {k} : row'[c] = row[c],
         late \subseteq late',
         k \in Callers => row'[k] \in late' \/ \A i \in 1..Len(lock) : lock[i] # Closer
  PROVE  Behind'
<1>1. PICK n \in Nat : Len(lock) = n
  BY LenProperties DEF TypeOK
<1>2. /\ Len(lock') = n + 1 /\ lock'[n + 1] = k
      /\ \A i \in 1..n : lock'[i] = lock[i]
  BY <1>1, AppendProperties DEF TypeOK
<1>3. \A i \in 1..n : lock[i] # k
  BY <1>1 DEF LockInv
<1> SUFFICES ASSUME NEW i \in 1..(n + 1), NEW j \in 1..(n + 1),
                    i < j, lock'[i] = Closer, lock'[j] \in Callers
             PROVE  row'[lock'[j]] \in late'
  BY <1>2 DEF Behind
<1>4. i \in 1..n /\ lock[i] = Closer
  BY <1>2
<1>5. CASE j \in 1..n
  <2>1. lock[j] \in Callers /\ lock[j] # k /\ row[lock[j]] \in late
    BY <1>1, <1>2, <1>3, <1>4, <1>5 DEF Behind
  <2> QED
    BY <1>2, <1>5, <2>1
<1>6. CASE j = n + 1
  <2>1. lock'[j] = k /\ k \in Callers
    BY <1>2, <1>6
  <2>2. row'[k] \in late'
    BY <1>1, <1>4, <2>1
  <2> QED
    BY <2>1, <2>2
<1>7. j \in 1..n \/ j = n + 1
  OBVIOUS
<1> QED
  BY <1>5, <1>6, <1>7

(* The callers that wait when the final flush ends are behind it.          *)
LEMMA FlushEndsLate ==
  ASSUME WriterInv, WriterInv', LateInv, DrainsIfClosed,
         pc[Closer] # "closing", pc'[Closer] = "closing",
         UNCHANGED <<row, late>>, \A c \in Callers : pc'[c] = pc[c],
         pc[Closer] = "insert" \/ (pc[Closer] = "acquire" /\ Head(lock) = Closer)
  PROVE  OnlyLate'
<1>1. lock[1] = Closer /\ Len(lock) \in Nat \ {0}
  BY HeadHolds, TaskKinds DEF WriterInv
<1>2. ASSUME NEW c \in Callers, pc'[c] = "acquire" PROVE row'[c] \in late'
  <2>1. pc[c] = "acquire" /\ c \in Tasks /\ c # Closer
    BY <1>2, TaskKinds
  <2>2. PICK i \in 1..Len(lock) : lock[i] = c
    BY <2>1 DEF WriterInv, LockInv, Waits
  <2>3. 1 \in 1..Len(lock) /\ 1 < i
    BY <1>1, <2>1, <2>2
  <2> QED
    BY <1>1, <2>2, <2>3 DEF LateInv, Behind
<1>3. \A t \in Tables : ToSet(buffer'[t]) \subseteq late'
  BY EmptyHasNone DEF DrainsIfClosed
<1> QED
  BY <1>2, <1>3 DEF OnlyLate

LEMMA LateInit == Init => LateInv
<1> SUFFICES ASSUME Init PROVE LateInv
  OBVIOUS
<1>1. pc[Closer] = "idle"
  BY TaskKinds DEF Init
<1>2. Behind
  <2>1. Len(lock) = 0
    BY EmptySeq DEF Init
  <2> QED
    BY <2>1 DEF Behind
<1> QED
  BY <1>1, <1>2 DEF LateInv

(* A step that only takes rows out of buffers.                             *)
LEMMA LateStays ==
  ASSUME WriterInv, LateInv, Behind',
         UNCHANGED <<row, cancelled, late>>,
         pc'[Closer] \in {"closing", "closed"} => pc[Closer] \in {"closing", "closed"},
         pc'[Closer] = "idle" <=> pc[Closer] = "idle",
         \A c \in Callers : pc'[c] = "acquire" => pc[c] = "acquire",
         \A t \in Tables : ToSet(buffer'[t]) \subseteq ToSet(buffer[t])
  PROVE  LateInv'
BY DEF LateInv, OnlyLate

(* A flush takes rows out of the buffers, and the final one ends late.     *)
LEMMA FlushKeepsLate ==
  ASSUME WriterInv, WriterInv', LateInv, DrainsIfClosed,
         NEW k \in {Flusher, Closer},
         pc[k] = "insert" \/ (pc[k] = "acquire" /\ Head(lock) = k),
         NEW i \in Nat \ {0}, FlushFrom(k, i, Done(k)),
         UNCHANGED <<row, cancelled, late>>
  PROVE  LateInv'
<1>1. k \in Tasks /\ k \notin Callers
  BY TaskKinds
<1>2. CASE FlushOver(k)
  <2>1. pc' = [pc EXCEPT ![k] = Done(k)] /\ lock' = Rest(lock) /\ buffer' = buffer
    BY <1>2 DEF FlushOver
  <2>2. \A d \in Tasks : pc'[d] = IF d = k THEN Done(k) ELSE pc[d]
    BY <1>1, <2>1 DEF WriterInv, TypeOK
  <2>3. KeepsOrder
    BY <1>1, <2>1, ReleaseKeepsOrder DEF WriterInv
  <2>4. Behind'
    BY <2>3, OrderKeepsBehind DEF LateInv
  <2>5. CASE k = Closer
    <3>1. /\ pc'[Closer] = "closing" /\ pc[Closer] # "closing" /\ pc[Closer] # "idle"
          /\ \A c \in Callers : pc'[c] = pc[c]
      BY <2>2, <2>5, TaskKinds DEF Done
    <3>2. OnlyLate'
      BY <2>5, <3>1, FlushEndsLate
    <3> QED
      BY <2>4, <3>1, <3>2 DEF LateInv
  <2>6. CASE k # Closer
    <3>1. pc'[Closer] = pc[Closer] /\ \A c \in Callers : pc'[c] = pc[c]
      BY <1>1, <2>2, <2>6, TaskKinds
    <3> QED
      BY <2>1, <2>4, <3>1, LateStays
  <2> QED
    BY <2>5, <2>6
<1>3. ASSUME NEW j \in i..Len(TableOrder), FlushTakes(k, j) PROVE LateInv'
  <2>1. /\ pc' = [pc EXCEPT ![k] = "insert"] /\ lock' = lock
        /\ buffer' = [buffer EXCEPT ![TableOrder[j]] = <<>>]
    BY <1>3 DEF FlushTakes
  <2>2. \A d \in Tasks : pc'[d] = IF d = k THEN "insert" ELSE pc[d]
    BY <1>1, <2>1 DEF WriterInv, TypeOK
  <2>3. Behind'
    BY <2>1 DEF LateInv, Behind
  <2>4. \A t \in Tables : ToSet(buffer'[t]) \subseteq ToSet(buffer[t])
    BY <2>1, EmptyHasNone DEF WriterInv, TypeOK
  <2>5. /\ pc'[Closer] \in {"closing", "closed"} => pc[Closer] \in {"closing", "closed"}
        /\ pc'[Closer] = "idle" <=> pc[Closer] = "idle"
        /\ \A c \in Callers : pc'[c] = pc[c]
    BY <1>1, <2>2, TaskKinds
  <2> QED
    BY <2>3, <2>4, <2>5, LateStays
<1> QED
  BY <1>2, <1>3, FlushCases

LEMMA InsertKeepsLate ==
  ASSUME WriterInv, LateInv, NEW c \in Callers, NEW r \in Rows, Insert(c, r)
  PROVE  LateInv'
<1>1. /\ pc[c] = "idle" /\ c \in Tasks
      /\ pc' = [pc EXCEPT ![c] = "acquire"]
      /\ row' = [row EXCEPT ![c] = r]
      /\ lock' = Append(lock, c)
      /\ late' = IF cancelled THEN late \cup {r} ELSE late
      /\ UNCHANGED <<buffer, cancelled>>
  BY TaskKinds DEF Insert
<1>2. /\ \A d \in Callers : row'[d] = IF d = c THEN r ELSE row[d]
      /\ \A d \in Callers : pc'[d] = IF d = c THEN "acquire" ELSE pc[d]
      /\ pc'[Closer] = pc[Closer]
  BY <1>1, TaskKinds DEF WriterInv, TypeOK
<1>3. late \subseteq late' /\ (cancelled => r \in late')
  BY <1>1
<1>4. ASSUME ~cancelled, NEW i \in 1..Len(lock) PROVE lock[i] # Closer
  <2>1. pc[lock[i]] \in Waits
    BY DEF WriterInv, LockInv
  <2>2. pc[Closer] = "idle"
    BY <1>4 DEF LateInv
  <2> QED
    BY <2>1, <2>2 DEF Waits
<1>5. Behind'
  <2>1. pc[c] \notin Waits
    BY <1>1 DEF Waits
  <2>2. row'[c] \in late' \/ \A i \in 1..Len(lock) : lock[i] # Closer
    BY <1>2, <1>3, <1>4
  <2>3. \A d \in Callers \ {c} : row'[d] = row[d]
    BY <1>2
  <2>4. TypeOK /\ LockInv /\ Behind
    BY DEF WriterInv, LateInv
  <2> QED
    BY <1>1, <1>3, <2>1, <2>2, <2>3, <2>4, EnqueueKeepsBehind
<1>6. ASSUME pc'[Closer] \in {"closing", "closed"} PROVE cancelled' /\ OnlyLate'
  <2>1. cancelled /\ OnlyLate
    BY <1>2, <1>6 DEF LateInv
  <2>2. \A d \in Callers : pc'[d] = "acquire" => row'[d] \in late'
    BY <1>2, <1>3, <2>1 DEF OnlyLate
  <2>3. \A t \in Tables : ToSet(buffer'[t]) \subseteq late'
    BY <1>1, <1>3, <2>1 DEF OnlyLate
  <2> QED
    BY <1>1, <2>1, <2>2, <2>3 DEF OnlyLate
<1> QED
  BY <1>1, <1>2, <1>5, <1>6 DEF LateInv

LEMMA AddKeepsLate ==
  ASSUME WriterInv, LateInv, NEW c \in Callers, AppendRow(c) \/ FillBatch(c)
  PROVE  LateInv'
<1>1. /\ pc[c] = "acquire" /\ Head(lock) = c /\ c \in Tasks /\ c # Closer
      /\ UNCHANGED <<row, cancelled, late>>
  BY TaskKinds DEF AppendRow, FillBatch
<1>2. row[c] \in Rows /\ TableOf[row[c]] \in Tables
  BY WriterAssumption DEF WriterInv, TypeOK
<1>3. CASE AppendRow(c)
  <2>1. /\ buffer' = [buffer EXCEPT ![TableOf[row[c]]] = Append(@, row[c])]
        /\ pc' = [pc EXCEPT ![c] = "idle"] /\ lock' = Rest(lock)
    BY <1>3 DEF AppendRow
  <2>2. KeepsOrder
    BY <1>1, <2>1, ReleaseKeepsOrder DEF WriterInv
  <2>3. Behind'
    BY <1>1, <2>2, OrderKeepsBehind DEF LateInv
  <2>4. /\ pc'[Closer] = pc[Closer]
        /\ \A d \in Callers : pc'[d] = "acquire" => pc[d] = "acquire"
    BY <1>1, <2>1, TaskKinds DEF WriterInv, TypeOK
  <2>5. \A t \in Tables : ToSet(buffer'[t]) \subseteq ToSet(buffer[t]) \cup {row[c]}
    <3>1. ToSet(Append(buffer[TableOf[row[c]]], row[c])) = ToSet(buffer[TableOf[row[c]]]) \cup {row[c]}
      BY <1>2, ElementsOfAppend DEF WriterInv, TypeOK
    <3> QED
      BY <1>2, <2>1, <3>1 DEF WriterInv, TypeOK
  <2>6. ASSUME pc'[Closer] \in {"closing", "closed"} PROVE cancelled' /\ OnlyLate'
    <3>1. cancelled /\ OnlyLate
      BY <2>4, <2>6 DEF LateInv
    <3>2. row[c] \in late
      BY <1>1, <3>1 DEF OnlyLate
    <3> QED
      BY <1>1, <2>4, <2>5, <3>1, <3>2 DEF OnlyLate
  <2> QED
    BY <1>1, <2>3, <2>4, <2>6 DEF LateInv
<1>4. CASE FillBatch(c)
  <2>1. /\ buffer' = [buffer EXCEPT ![TableOf[row[c]]] = <<>>]
        /\ pc' = [pc EXCEPT ![c] = "insert"] /\ lock' = lock
    BY <1>4 DEF FillBatch, Cleared
  <2>2. Behind'
    BY <1>1, <2>1 DEF LateInv, Behind
  <2>3. /\ pc'[Closer] = pc[Closer]
        /\ \A d \in Callers : pc'[d] = "acquire" => pc[d] = "acquire"
    BY <1>1, <2>1, TaskKinds DEF WriterInv, TypeOK
  <2>4. \A t \in Tables : ToSet(buffer'[t]) \subseteq ToSet(buffer[t])
    BY <1>2, <2>1, EmptyHasNone DEF WriterInv, TypeOK
  <2> QED
    BY <1>1, <2>2, <2>3, <2>4, LateStays
<1> QED
  BY <1>3, <1>4

LEMMA FinishKeepsLate ==
  ASSUME WriterInv, WriterInv', LateInv, DrainsIfClosed, NEW k \in Tasks, Finish(k)
  PROVE  LateInv'
<1>1. pc[k] = "insert" /\ UNCHANGED <<row, cancelled, late>>
  BY DEF Finish, InsertOk, InsertRaises
<1>2. ASSUME NEW p \in {"idle", "failed"}, pc' = [pc EXCEPT ![k] = p],
             lock' = Rest(lock), buffer' = buffer
      PROVE  LateInv'
  <2>1. KeepsOrder
    BY <1>1, <1>2, ReleaseKeepsOrder DEF WriterInv
  <2>2. Behind'
    BY <1>1, <2>1, OrderKeepsBehind DEF LateInv
  <2>3. \A d \in Tasks : pc'[d] = IF d = k THEN p ELSE pc[d]
    BY <1>2 DEF WriterInv, TypeOK
  <2>4. \A c \in Callers : pc'[c] = "acquire" => pc[c] = "acquire"
    BY <2>3, TaskKinds
  <2>5. CASE k = Closer
    <3>1. cancelled
      BY <1>1, <2>5 DEF LateInv
    <3> QED
      BY <1>1, <2>2, <2>3, <2>5, <3>1, TaskKinds DEF LateInv
  <2>6. CASE k # Closer
    <3>1. pc'[Closer] = pc[Closer]
      BY <2>3, <2>6, TaskKinds
    <3> QED
      BY <1>1, <1>2, <2>2, <2>4, <3>1, LateStays
  <2> QED
    BY <2>5, <2>6
<1>3. CASE InsertOk(k) /\ k \in Callers
  BY <1>2, <1>3 DEF InsertOk
<1>4. CASE InsertOk(k) /\ k \notin Callers
  <2>1. k \in {Flusher, Closer} /\ FlushFrom(k, visiting[k] + 1, Done(k))
    BY <1>4 DEF InsertOk, Tasks
  <2>2. PICK i \in Nat \ {0} : i = visiting[k] + 1
    BY Indexed DEF WriterInv, TypeOK
  <2> QED
    BY <1>1, <2>1, <2>2, FlushKeepsLate
<1>5. ASSUME NEW applied \in BOOLEAN, InsertRaises(k, applied) PROVE LateInv'
  BY <1>2, <1>5 DEF InsertRaises, AfterFailure
<1> QED
  BY <1>3, <1>4, <1>5 DEF Finish

LEMMA JoinKeepsLate ==
  ASSUME WriterInv, LateInv, NEW k \in Tasks \ Callers, pc[k] = "idle",
         pc' = [pc EXCEPT ![k] = "acquire"], lock' = Append(lock, k),
         UNCHANGED <<buffer, row, late>>, k = Closer => cancelled', cancelled => cancelled'
  PROVE  LateInv'
<1>1. Behind'
  <2>1. pc[k] \notin Waits /\ k \notin Callers
    BY DEF Waits
  <2>2. TypeOK /\ LockInv /\ Behind
    BY DEF WriterInv, LateInv
  <2>3. late \subseteq late' /\ \A c \in Callers \ {k} : row'[c] = row[c]
    OBVIOUS
  <2> QED
    BY <2>1, <2>2, <2>3, EnqueueKeepsBehind
<1>2. \A d \in Tasks : pc'[d] = IF d = k THEN "acquire" ELSE pc[d]
  BY DEF WriterInv, TypeOK
<1> QED
  BY <1>1, <1>2, TaskKinds DEF LateInv, OnlyLate

LEMMA LeaveKeepsLate ==
  ASSUME WriterInv, LateInv, NEW k \in Tasks \ {Closer}, pc[k] = "acquire",
         pc' = [pc EXCEPT ![k] = "idle"], lock' = LockWithout(k),
         UNCHANGED <<buffer, row, cancelled, late>>
  PROVE  LateInv'
<1>1. KeepsOrder
  BY LeaveKeepsOrder DEF WriterInv
<1>2. Behind'
  BY <1>1, OrderKeepsBehind DEF LateInv
<1>3. /\ pc'[Closer] = pc[Closer]
      /\ \A c \in Callers : pc'[c] = "acquire" => pc[c] = "acquire"
  BY TaskKinds DEF WriterInv, TypeOK
<1> QED
  BY <1>2, <1>3, LateStays

LEMMA LateNext == WriterInv /\ LateInv /\ [Next]_vars => LateInv'
<1> SUFFICES ASSUME WriterInv, LateInv, [Next]_vars PROVE LateInv'
  OBVIOUS
<1>1. WriterInv' /\ (DrainsIfClosed \/ UNCHANGED vars)
  BY StepKeeps
<1>2. CASE UNCHANGED vars
  BY <1>2 DEF vars, LateInv, Behind, OnlyLate
<1>3. ASSUME NEW k \in {Flusher, Closer}, StartFlush(k), DrainsIfClosed PROVE LateInv'
  <2>1. /\ pc[k] = "acquire" /\ Head(lock) = k
        /\ FlushFrom(k, 1, Done(k)) /\ UNCHANGED <<row, cancelled, late>>
    BY <1>3 DEF StartFlush, FirstVisited
  <2>2. 1 \in Nat \ {0}
    OBVIOUS
  <2> QED
    BY <1>1, <1>3, <2>1, <2>2, FlushKeepsLate
<1>4. ASSUME NEW c \in Callers, Abandon(c) PROVE LateInv'
  BY <1>4, LeaveKeepsLate, TaskKinds DEF Abandon
<1>5. CASE WakeFlusher
  BY <1>5, JoinKeepsLate, TaskKinds DEF WakeFlusher
<1>6. CASE Close
  BY <1>6, JoinKeepsLate, TaskKinds DEF Close
<1>7. CASE UnqueueFlusher
  BY <1>7, LeaveKeepsLate, TaskKinds DEF UnqueueFlusher
<1>8. ASSUME NEW r \in Rows, Forget(r) PROVE LateInv'
  <2>1. UNCHANGED <<buffer, lock, pc, row, cancelled, late>>
    BY <1>8 DEF Forget
  <2> QED
    BY <2>1 DEF LateInv, Behind, OnlyLate
<1>9. ASSUME NEW returns \in BOOLEAN, ClientClosed(returns) PROVE LateInv'
  <2>1. /\ pc[Closer] = "closing" /\ UNCHANGED <<buffer, lock, row, cancelled, late>>
        /\ pc'[Closer] \in {"closed", "failed"}
        /\ \A c \in Callers : pc'[c] = pc[c]
    BY <1>9, TaskKinds DEF ClientClosed, WriterInv, TypeOK
  <2> QED
    BY <2>1, LateStays DEF LateInv, Behind
<1> QED
  BY <1>1, <1>2, <1>3, <1>4, <1>5, <1>6, <1>7, <1>8, <1>9,
     InsertKeepsLate, AddKeepsLate, FinishKeepsLate DEF Next

(* When close() returns, the buffers have no row whose insert_* was called *)
(* before it: whoever was ahead of the final flush in the queue of the     *)
(* lock added its row first, and whoever is behind it called after close() *)
(* (close(), clickhouse.py).                                               *)
THEOREM ClosingDrains == Spec => CloseDrains
<1>1. LateInv /\ LateInv' /\ [Next]_vars =>
        [pc[Closer] # "closed" /\ pc'[Closer] = "closed" =>
           \A t \in Tables : ToSet(buffer'[t]) \subseteq late']_vars
  BY DEF LateInv, OnlyLate
<1> QED
  BY <1>1, WriterInit, WriterInductive, LateInit, LateNext, PTL DEF Spec, CloseDrains
-----------------------------------------------------------------------------
(* The writer implements RowLedger.                                        *)
Pending == [t \in Tables |-> BatchOf(t) \o buffer[t]]

(* A batch in flight is pending ahead of the buffer of its table.          *)
PendingFact ==
  /\ (\A k \in Tasks : pc[k] # "insert") => Pending = buffer
  /\ \A k \in Tasks : pc[k] = "insert" => \A t \in Tables :
       Pending[t] = IF t = TableOrder[visiting[k]] THEN batch[k] \o buffer[t] ELSE buffer[t]

LEMMA PendingKnown == WriterInv => PendingFact
<1> SUFFICES ASSUME WriterInv PROVE PendingFact
  OBVIOUS
<1>1. \A t \in Tables : buffer[t] \in Seq(Rows) /\ <<>> \o buffer[t] = buffer[t]
  BY ConcatEmptySeq DEF WriterInv, TypeOK
<1>2. \A t \in Tables : InFlight(t) = {} => Pending[t] = buffer[t]
  BY <1>1 DEF Pending, BatchOf
<1>3. ASSUME \A k \in Tasks : pc[k] # "insert" PROVE Pending = buffer
  <2>1. \A t \in Tables : Pending[t] = buffer[t]
    BY <1>2, <1>3 DEF InFlight
  <2>2. buffer = [t \in Tables |-> buffer[t]]
    BY DEF WriterInv, TypeOK
  <2> QED
    BY <2>1, <2>2 DEF Pending
<1>4. ASSUME NEW k \in Tasks, pc[k] = "insert", NEW t \in Tables
      PROVE  Pending[t] = IF t = TableOrder[visiting[k]] THEN batch[k] \o buffer[t] ELSE buffer[t]
  <2>1. \A d \in Tasks : pc[d] = "insert" => d = k
    BY <1>4, HeadHolds DEF WriterInv
  <2>2. CASE t = TableOrder[visiting[k]]
    <3>1. InFlight(t) = {k}
      BY <1>4, <2>1, <2>2 DEF InFlight
    <3>2. BatchOf(t) = batch[k]
      BY <3>1 DEF BatchOf
    <3> QED
      BY <2>2, <3>2 DEF Pending
  <2>3. CASE t # TableOrder[visiting[k]]
    BY <1>2, <2>1, <2>3 DEF InFlight
  <2> QED
    BY <2>2, <2>3
<1> QED
  BY <1>3, <1>4 DEF PendingFact

LEMMA PendingKnownNext == WriterInv' => PendingFact'
  BY PendingKnown, PTL

LEMMA Halves ==
  ASSUME NEW S, NEW s \in Seq(S), NEW u \in Seq(S)
  PROVE  /\ SubSeq(s \o u, 1, Len(s)) = s
         /\ SubSeq(s \o u, Len(s) + 1, Len(s \o u)) = u
         /\ Len(s) <= Len(s \o u)
<1>1. PICK n \in Nat : Len(s) = n
  BY LenProperties
<1>2. PICK m \in Nat : Len(u) = m
  BY LenProperties
<1>3. PICK w \in Seq(S) : w = s \o u
  BY ConcatProperties
<1>4. /\ Len(w) = n + m
      /\ \A i \in 1..(n + m) : w[i] = IF i <= n THEN s[i] ELSE u[i - n]
      /\ \A i \in 1..(n + m) : w[i] \in S
  <2>1. /\ Len(s \o u) = Len(s) + Len(u)
        /\ \A i \in 1..(Len(s) + Len(u)) :
             (s \o u)[i] = IF i <= Len(s) THEN s[i] ELSE u[i - Len(s)]
    BY ConcatProperties
  <2>2. /\ Len(w) = n + m
        /\ \A i \in 1..(n + m) : w[i] = IF i <= n THEN s[i] ELSE u[i - n]
    BY <1>1, <1>2, <1>3, <2>1
  <2> QED
    BY <2>2, ElementOfSeq
<1>5. SubSeq(w, 1, n) = s
  <2>1. 1 \in Int /\ n \in Int /\ \A i \in 1..n : w[i] \in S
    BY <1>4
  <2>2. PICK v : v = SubSeq(w, 1, n)
    OBVIOUS
  <2>3. /\ v \in Seq(S)
        /\ Len(v) = IF 1 <= n THEN n - 1 + 1 ELSE 0
        /\ \A i \in 1..(n - 1 + 1) : v[i] = w[1 + i - 1]
    BY <2>1, <2>2, SubSeqProperties
  <2>4. Len(v) = n
    BY <2>3
  <2>5. \A i \in 1..n : v[i] = s[i]
    <3> SUFFICES ASSUME NEW i \in 1..n PROVE v[i] = s[i]
      OBVIOUS
    <3>1. i \in 1..(n - 1 + 1) /\ 1 + i - 1 = i /\ i \in 1..(n + m) /\ i <= n
      OBVIOUS
    <3> QED
      BY <1>4, <2>3, <3>1
  <2> QED
    BY <1>1, <2>2, <2>3, <2>4, <2>5, SeqEqual
<1>6. SubSeq(w, n + 1, n + m) = u
  <2>1. n + 1 \in Int /\ n + m \in Int /\ \A i \in (n + 1)..(n + m) : w[i] \in S
    BY <1>4
  <2>2. PICK v : v = SubSeq(w, n + 1, n + m)
    OBVIOUS
  <2>3. /\ v \in Seq(S)
        /\ Len(v) = IF n + 1 <= n + m THEN (n + m) - (n + 1) + 1 ELSE 0
        /\ \A i \in 1..((n + m) - (n + 1) + 1) : v[i] = w[(n + 1) + i - 1]
    BY <2>1, <2>2, SubSeqProperties
  <2>4. Len(v) = m
    BY <2>3
  <2>5. \A i \in 1..m : v[i] = u[i]
    <3> SUFFICES ASSUME NEW i \in 1..m PROVE v[i] = u[i]
      OBVIOUS
    <3>1. /\ i \in 1..((n + m) - (n + 1) + 1) /\ (n + 1) + i - 1 = n + i
          /\ n + i \in 1..(n + m) /\ ~(n + i <= n) /\ (n + i) - n = i
      OBVIOUS
    <3> QED
      BY <1>4, <2>3, <3>1
  <2> QED
    BY <1>2, <2>2, <2>3, <2>4, <2>5, SeqEqual
<1> QED
  BY <1>1, <1>3, <1>4, <1>5, <1>6

-----------------------------------------------------------------------------
(* A step that leaves what is in flight alone.                             *)
LEMMA SamePending ==
  ASSUME UNCHANGED <<buffer, batch, visiting, stored, lost>>,
         \A k \in Tasks : pc'[k] = "insert" <=> pc[k] = "insert"
  PROVE  UNCHANGED Ledger!ledger
<1>1. ASSUME NEW t PROVE InFlight(t)' = InFlight(t)
  BY DEF InFlight
<1>2. ASSUME NEW t PROVE BatchOf(t)' = BatchOf(t)
  <2>1. InFlight(t)' = InFlight(t) /\ batch' = batch
    BY <1>1
  <2> QED
    BY <2>1 DEF BatchOf
<1> QED
  BY <1>2 DEF Ledger!ledger

(* A waiting caller's row becomes pending in its table.                    *)
LEMMA IsAccept ==
  ASSUME WriterInv, NEW c \in Callers, pc[c] = "acquire", Pending = buffer,
         Pending' = [buffer EXCEPT ![TableOf[row[c]]] = Append(@, row[c])],
         UNCHANGED <<stored, lost>>
  PROVE  Ledger!LedgerNext
<1>1. PICK r \in Rows : r = row[c]
  BY DEF WriterInv, TypeOK
<1>2. ~Held(r)
  BY <1>1 DEF WriterInv, WantedFresh
<1>3. Ledger!Live = stored \cup lost \cup UNION {ToSet(Pending[t]) : t \in Tables}
  BY DEF Ledger!Live, Ledger!Settled, Ledger!ToSet, ToSet, Pending
<1>4. r \notin Ledger!Live
  BY <1>2, <1>3 DEF Held, Settled
<1>5. Pending' = [Pending EXCEPT ![TableOf[r]] = Append(@, r)]
  BY <1>1
<1>6. Ledger!Accept(r)
  BY <1>4, <1>5 DEF Ledger!Accept, Pending
<1> QED
  BY <1>6 DEF Ledger!LedgerNext

(* The batch in flight is settled.                                         *)
LEMMA IsSettling ==
  ASSUME WriterInv, NEW k \in Tasks, pc[k] = "insert", Pending' = buffer,
         \/ stored' = stored \cup ToSet(batch[k]) /\ UNCHANGED lost
         \/ lost' = lost \cup ToSet(batch[k]) /\ UNCHANGED stored
  PROVE  Ledger!LedgerNext
<1>1. PICK t \in Tables, b \in Seq(Rows), n \in Nat \ {0} :
        t = TableOrder[visiting[k]] /\ b = batch[k] /\ n = Len(b)
  BY Indexed, EmptySeq DEF WriterInv, TypeOK, BatchesHaveRows
<1>2. PICK u \in Seq(Rows) : u = buffer[t]
  BY DEF WriterInv, TypeOK
<1>3. PICK w \in Seq(Rows) : w = b \o u
  BY ConcatProperties
<1>4. \A s \in Tables : Pending[s] = IF s = t THEN w ELSE buffer[s]
  BY <1>1, <1>2, <1>3, PendingKnown DEF PendingFact
<1>5. SubSeq(w, 1, n) = b /\ SubSeq(w, n + 1, Len(w)) = u /\ n <= Len(w) /\ Len(w) \in Nat
  <2>1. /\ SubSeq(b \o u, 1, Len(b)) = b
        /\ SubSeq(b \o u, Len(b) + 1, Len(b \o u)) = u
        /\ Len(b) <= Len(b \o u)
    BY Halves
  <2>2. Len(w) \in Nat
    BY LenProperties
  <2> QED
    BY <1>1, <1>3, <2>1, <2>2
<1>6. n \in 1..Len(w) /\ Pending[t] = w
  BY <1>4, <1>5
<1>7. Ledger!Oldest(t, n) = ToSet(b)
  <2>1. Ledger!Oldest(t, n) = ToSet(SubSeq(Pending[t], 1, n))
    BY DEF Ledger!Oldest, Ledger!ToSet, ToSet, Pending
  <2> QED
    BY <1>5, <1>6, <2>1
<1>8. Ledger!Drop(t, n)
  <2>1. buffer = [Pending EXCEPT ![t] = u]
    <3>1. Pending = [s \in Tables |-> Pending[s]] /\ buffer = [s \in Tables |-> buffer[s]]
      BY DEF Pending, WriterInv, TypeOK
    <3> QED
      BY <1>2, <1>4, <3>1
  <2>2. [Pending EXCEPT ![t] = SubSeq(@, n + 1, Len(@))] = [Pending EXCEPT ![t] = u]
    BY <1>5, <1>6
  <2>3. Pending' = [Pending EXCEPT ![t] = SubSeq(@, n + 1, Len(@))]
    BY <2>1, <2>2
  <2> QED
    BY <2>3 DEF Ledger!Drop, Pending
<1>9. Ledger!Store(t, n) \/ Ledger!Lose(t, n)
  BY <1>1, <1>7, <1>8 DEF Ledger!Store, Ledger!Lose
<1>10. n \in 1..Len([s \in Tables |-> BatchOf(s) \o buffer[s]][t])
  BY <1>6 DEF Pending
<1> QED
  BY <1>9, <1>10 DEF Ledger!LedgerNext

(* What a flush takes stays pending.                                       *)
LEMMA FlushKeepsPending ==
  ASSUME WriterInv, WriterInv', NEW k \in {Flusher, Closer},
         pc[k] = "insert" \/ (pc[k] = "acquire" /\ Head(lock) = k),
         NEW i \in 1..(Len(TableOrder) + 1), FlushFrom(k, i, Done(k))
  PROVE  Pending' = buffer
<1>1. k \in Tasks /\ i \in Nat \ {0}
  BY TaskKinds, Indexed
<1>2. \A d \in Tasks : pc[d] = "insert" => d = k
  BY <1>1, HeadHolds DEF WriterInv
<1>3. CASE FlushOver(k)
  <2>1. \A d \in Tasks : pc'[d] # "insert"
    BY <1>1, <1>2, <1>3 DEF FlushOver, Done, WriterInv, TypeOK
  <2> QED
    BY <1>3, <2>1, PendingKnownNext DEF PendingFact, FlushOver
<1>4. ASSUME NEW j \in i..Len(TableOrder), FlushTakes(k, j) PROVE Pending' = buffer
  <2> DEFINE t == TableOrder[j]
  <2>1. t \in Tables
    BY Indexed
  <2>2. pc'[k] = "insert" /\ visiting'[k] = j /\ batch'[k] = buffer[t]
    BY <1>1, <1>4 DEF FlushTakes, WriterInv, TypeOK
  <2>3. \A s \in Tables : buffer'[s] = IF s = t THEN <<>> ELSE buffer[s]
    BY <1>4, <2>1 DEF FlushTakes, WriterInv, TypeOK
  <2>4. \A s \in Tables : Pending'[s] = IF s = t THEN batch'[k] \o buffer'[s] ELSE buffer'[s]
    BY <1>1, <2>2, PendingKnownNext DEF PendingFact
  <2>5. buffer[t] \o <<>> = buffer[t]
    BY <2>1, ConcatEmptySeq DEF WriterInv, TypeOK
  <2>6. \A s \in Tables : Pending'[s] = buffer[s]
    BY <2>2, <2>3, <2>4, <2>5
  <2>7. Pending' = [s \in Tables |-> Pending'[s]] /\ buffer = [s \in Tables |-> buffer[s]]
    BY DEF Pending, WriterInv, TypeOK
  <2> QED
    BY <2>6, <2>7
<1> QED
  BY <1>1, <1>3, <1>4, FlushCases
-----------------------------------------------------------------------------
LEMMA AddedIsPending ==
  ASSUME WriterInv, WriterInv', NEW c \in Callers, AppendRow(c) \/ FillBatch(c)
  PROVE  Ledger!LedgerNext
<1> DEFINE t == TableOf[row[c]]
           b == Append(buffer[t], row[c])
<1>1. /\ pc[c] = "acquire" /\ Head(lock) = c /\ c \in Tasks
      /\ UNCHANGED <<stored, lost>>
  BY TaskKinds DEF AppendRow, FillBatch
<1>2. \A d \in Tasks : pc[d] # "insert"
  BY <1>1, HeadHolds DEF WriterInv
<1>3. Pending = buffer
  BY <1>2, PendingKnown DEF PendingFact
<1>4. row[c] \in Rows /\ t \in Tables /\ b \in Seq(Rows)
  BY WriterAssumption, AppendProperties DEF WriterInv, TypeOK
<1>5. CASE AppendRow(c)
  <2>1. buffer' = [buffer EXCEPT ![t] = b] /\ pc' = [pc EXCEPT ![c] = "idle"]
    BY <1>5 DEF AppendRow
  <2>2. \A d \in Tasks : pc'[d] # "insert"
    BY <1>2, <2>1 DEF WriterInv, TypeOK
  <2>3. Pending' = [buffer EXCEPT ![t] = Append(@, row[c])]
    BY <2>1, <2>2, PendingKnownNext DEF PendingFact
  <2> QED
    BY <1>1, <1>3, <2>3, IsAccept
<1>6. CASE FillBatch(c)
  <2> HIDE DEF b
  <2>1. /\ batch' = [batch EXCEPT ![c] = b]
        /\ buffer' = [buffer EXCEPT ![t] = <<>>]
        /\ visiting' = [visiting EXCEPT ![c] = IndexOf(t)]
        /\ pc' = [pc EXCEPT ![c] = "insert"]
    BY <1>6 DEF FillBatch, Cleared, b
  <2>2. /\ pc'[c] = "insert" /\ batch'[c] = b /\ visiting'[c] = IndexOf(t)
        /\ TableOrder[IndexOf(t)] = t
    BY <1>1, <1>4, <2>1, TableIndices DEF WriterInv, TypeOK
  <2>3. \A s \in Tables : buffer'[s] = IF s = t THEN <<>> ELSE buffer[s]
    BY <1>4, <2>1 DEF WriterInv, TypeOK
  <2>4. \A s \in Tables : Pending'[s] = IF s = t THEN b \o buffer'[s] ELSE buffer'[s]
    BY <1>1, <2>2, PendingKnownNext DEF PendingFact
  <2>5. b \o <<>> = b
    BY <1>4, ConcatEmptySeq
  <2>6. \A s \in Tables : Pending'[s] = IF s = t THEN b ELSE buffer[s]
    BY <2>3, <2>4, <2>5
  <2>7. Pending' = [s \in Tables |-> Pending'[s]] /\ buffer = [s \in Tables |-> buffer[s]]
    BY DEF Pending, WriterInv, TypeOK
  <2>8. Pending' = [buffer EXCEPT ![t] = b]
    BY <2>6, <2>7
  <2>9. Pending' = [buffer EXCEPT ![t] = Append(@, row[c])]
    BY <1>4, <2>8 DEF b
  <2> QED
    BY <1>1, <1>3, <2>9, IsAccept
<1> QED
  BY <1>5, <1>6

LEMMA FinishedIsSettled ==
  ASSUME WriterInv, WriterInv', NEW k \in Tasks, Finish(k)
  PROVE  Ledger!LedgerNext
<1>1. /\ pc[k] = "insert"
      /\ \/ stored' = stored \cup ToSet(batch[k]) /\ UNCHANGED lost
         \/ lost' = lost \cup ToSet(batch[k]) /\ UNCHANGED stored
  BY DEF Finish, InsertOk, InsertRaises
<1>2. \A d \in Tasks : pc[d] = "insert" => d = k
  BY <1>1, HeadHolds DEF WriterInv
<1>3. Pending' = buffer
  <2>1. ASSUME NEW p \in {"idle", "failed"}, pc' = [pc EXCEPT ![k] = p], buffer' = buffer
        PROVE  Pending' = buffer
    <3>1. \A d \in Tasks : pc'[d] # "insert"
      BY <1>2, <2>1 DEF WriterInv, TypeOK
    <3> QED
      BY <2>1, <3>1, PendingKnownNext DEF PendingFact
  <2>2. CASE InsertOk(k) /\ k \in Callers
    BY <2>1, <2>2 DEF InsertOk
  <2>3. CASE InsertOk(k) /\ k \notin Callers
    <3>1. k \in {Flusher, Closer} /\ FlushFrom(k, visiting[k] + 1, Done(k))
      BY <2>3 DEF InsertOk, Tasks
    <3>2. PICK i \in 1..(Len(TableOrder) + 1) : i = visiting[k] + 1
      <4>1. PICK v \in 1..Len(TableOrder) : v = visiting[k]
        BY DEF WriterInv, TypeOK
      <4> QED
        BY <4>1, Indexed
    <3> QED
      BY <1>1, <3>1, <3>2, FlushKeepsPending
  <2>4. ASSUME NEW applied \in BOOLEAN, InsertRaises(k, applied) PROVE Pending' = buffer
    BY <2>1, <2>4 DEF InsertRaises, AfterFailure
  <2> QED
    BY <2>2, <2>3, <2>4 DEF Finish
<1> QED
  BY <1>1, <1>3, IsSettling

LEMMA StepIsLedgerStep ==
  WriterInv /\ WriterInv' /\ [Next]_vars => [Ledger!LedgerNext]_(Ledger!ledger)
<1> SUFFICES ASSUME WriterInv, WriterInv', [Next]_vars
             PROVE  Ledger!LedgerNext \/ UNCHANGED Ledger!ledger
  OBVIOUS
<1>1. ASSUME UNCHANGED <<buffer, batch, visiting, stored, lost>>,
             NEW k \in Tasks, pc[k] # "insert", NEW p \in {"idle", "acquire"},
             pc' = [pc EXCEPT ![k] = p]
      PROVE  UNCHANGED Ledger!ledger
  <2>1. \A d \in Tasks : pc'[d] = "insert" <=> pc[d] = "insert"
    BY <1>1 DEF WriterInv, TypeOK
  <2> QED
    BY <1>1, <2>1, SamePending
<1>2. ASSUME NEW c \in Callers, (\E r \in Rows : Insert(c, r)) \/ Abandon(c)
      PROVE  UNCHANGED Ledger!ledger
  BY <1>1, <1>2, TaskKinds DEF Insert, Abandon
<1>3. CASE WakeFlusher \/ Close \/ UnqueueFlusher
  BY <1>1, <1>3, TaskKinds DEF WakeFlusher, Close, UnqueueFlusher
<1>4. ASSUME NEW k \in {Flusher, Closer}, StartFlush(k) PROVE UNCHANGED Ledger!ledger
  <2>1. /\ pc[k] = "acquire" /\ Head(lock) = k /\ k \in Tasks
        /\ FlushFrom(k, 1, Done(k))
        /\ UNCHANGED <<stored, lost>>
    BY <1>4, TaskKinds DEF StartFlush, FirstVisited
  <2>2. 1 \in 1..(Len(TableOrder) + 1)
    BY Indexed
  <2>3. Pending' = buffer
    BY <2>1, <2>2, FlushKeepsPending
  <2>4. \A d \in Tasks : pc[d] # "insert"
    BY <2>1, HeadHolds DEF WriterInv
  <2>5. Pending = buffer
    BY <2>4, PendingKnown DEF PendingFact
  <2> QED
    BY <2>1, <2>3, <2>5 DEF Pending, Ledger!ledger
<1>5. ASSUME NEW r \in Rows, Forget(r) PROVE Ledger!LedgerNext
  <2>1. /\ r \in stored \cup lost
        /\ stored' = stored \ {r} /\ lost' = lost \ {r}
        /\ UNCHANGED <<buffer, pc, batch, visiting>>
    BY <1>5 DEF Forget, Settled
  <2>2. ASSUME NEW t PROVE BatchOf(t)' = BatchOf(t)
    <3>1. InFlight(t)' = InFlight(t) /\ batch' = batch
      BY <2>1 DEF InFlight
    <3> QED
      BY <3>1 DEF BatchOf
  <2>3. Ledger!Forget(r)
    BY <2>1, <2>2 DEF Ledger!Forget, Ledger!Settled
  <2> QED
    BY <2>3 DEF Ledger!LedgerNext
<1>6. CASE UNCHANGED vars
  BY <1>6, SamePending DEF vars
<1>7. ASSUME NEW returns \in BOOLEAN, ClientClosed(returns) PROVE UNCHANGED Ledger!ledger
  <2>1. /\ \A d \in Tasks : pc'[d] = "insert" <=> pc[d] = "insert"
        /\ UNCHANGED <<buffer, batch, visiting, stored, lost>>
    BY <1>7, TaskKinds DEF ClientClosed, WriterInv, TypeOK
  <2> QED
    BY <2>1, SamePending
<1> QED
  BY <1>2, <1>3, <1>4, <1>5, <1>6, <1>7, AddedIsPending, FinishedIsSettled DEF Next

(* The writer keeps the promises of RowLedger: a row is settled once, with *)
(* its batch, and in the order of its table, whatever interleaves or fails *)
(* (insert_*, _flush_*, _flush_loop and close() of clickhouse.py).         *)
THEOREM WriterKeepsLedger == Spec => KeepsLedger
<1>1. Init => Ledger!LedgerInit
  <2> SUFFICES ASSUME Init PROVE Ledger!LedgerInit
    OBVIOUS
  <2>1. Pending = buffer
    BY WriterInit, PendingKnown DEF PendingFact, Init
  <2> QED
    BY <2>1 DEF Ledger!LedgerInit, Pending, Init
<1> QED
  BY <1>1, WriterInit, WriterInductive, StepIsLedgerStep, PTL
     DEF Spec, KeepsLedger, Ledger!LedgerSpec
=============================================================================
