------------------------------ MODULE Ingester ------------------------------
(***************************************************************************)
(* UniversalIngester: control-plane/src/ingestion/universal_ingester.py.   *)
(*                                                                         *)
(* Log events arrive through ingest_raw (deduplicated, flushes a full      *)
(* batch itself) and through ingest_splunk_hec (neither).  A background    *)
(* loop flushes every FLUSH_INTERVAL.  Unlike ClickHouseWriter, _flush     *)
(* holds the lock only to copy and clear the batch and inserts outside it, *)
(* so several inserts may be in flight.  No section under the lock awaits  *)
(* anything: the lock is always free when it is asked for, and each action *)
(* below is the code a task runs between two real awaits (the insert in    *)
(* the executor, the Redis publish, the sleep).                            *)
(*                                                                         *)
(* The content of an event is what compute_hash tells apart; the event     *)
(* itself, which has an id of its own, is its place among those ingested.  *)
(***************************************************************************)
EXTENDS Naturals, Sequences, FiniteSets, SequencesExt

CONSTANTS
  Contents,   \* event contents
  HecContents,\* the contents that HEC senders submit
  HighRisk,   \* contents with risk_score >= 0.7, published to Redis
  RawCallers, \* request handlers that call ingest_raw
  HecCallers, \* request handlers that call ingest_splunk_hec
  Loop,       \* the task that runs _flush_loop
  BatchSize,  \* BATCH_SIZE
  Window,     \* size of the dedup window (100_000)
  HecLines,   \* lines of one HEC request, at most
  MaxEvents   \* bound of the model: requests served in all

ASSUME IngesterAssumption ==
  /\ HighRisk \subseteq Contents /\ HecContents \subseteq Contents
  /\ Loop \notin RawCallers
  /\ BatchSize \in Nat \ {0} /\ Window \in Nat /\ HecLines \in Nat /\ MaxEvents \in Nat

Tasks == RawCallers \cup {Loop}

VARIABLES
  batch,     \* self._batch
  seen,      \* self._seen_hashes
  stats,     \* self._stats
  pc,        \* what each flushing task awaits
  flight,    \* the events each flushing task has taken out of the batch
  inserted,  \* the events in the table thor.events
  lost,      \* history: the events that died with their insert
  taken,     \* history: the contents of the events, as they were ingested
  requests   \* requests served (bounded by MaxEvents)

vars == <<batch, seen, stats, pc, flight, inserted, lost, taken, requests>>

-----------------------------------------------------------------------------
Events == 1..Len(taken)

(* The events that n lines make, after those of before.                    *)
Numbered(n) == [i \in 1..n |-> Len(taken) + i]

Init ==
  /\ batch = <<>>
  /\ seen = {}
  /\ stats = [ingested |-> 0, dropped |-> 0, errors |-> 0]
  /\ pc = [k \in Tasks |-> "idle"]
  /\ flight = [k \in Tasks |-> <<>>]
  /\ inserted = {}
  /\ lost = {}
  /\ taken = <<>>
  /\ requests = 0

(* Mutant: the batch is copied and not cleared.                            *)
CopyBatch(k, b) ==
  /\ batch' = b
  /\ IF b = <<>> THEN UNCHANGED <<pc, flight>>
     ELSE /\ flight' = [flight EXCEPT ![k] = b]
          /\ pc' = [pc EXCEPT ![k] = "insert"]

(* _flush, up to the await of _bulk_insert: copy the batch and clear it.   *)
TakeBatch(k, b) ==
  IF b = <<>>
  THEN /\ batch' = b
       /\ UNCHANGED <<pc, flight>>
  ELSE /\ flight' = [flight EXCEPT ![k] = b]
       /\ pc' = [pc EXCEPT ![k] = "insert"]
       /\ batch' = <<>>

(* The end of ingest_raw: flush at once when the batch is full.            *)
FlushIfFull(k, b) ==
  IF Len(b) >= BatchSize THEN TakeBatch(k, b)
  ELSE batch' = b /\ UNCHANGED <<pc, flight>>

Serve(k) ==
  /\ requests < MaxEvents
  /\ requests' = requests + 1
  /\ k \in RawCallers => pc[k] = "idle"

-----------------------------------------------------------------------------
(* Mutant: the window is cleared one hash too early.                       *)
RememberLess(c) == IF Cardinality(seen) + 1 >= Window THEN {} ELSE seen \cup {c}

(* The dedup window after c: cleared when it grows past its size.          *)
Remember(c) == IF Cardinality(seen) + 1 > Window THEN {} ELSE seen \cup {c}

(* ingest_raw of an event not in the dedup window.                         *)
IngestNew(k, c) ==
  /\ Serve(k)
  /\ c \notin seen
  /\ seen' = Remember(c)
  /\ stats' = [stats EXCEPT !.ingested = @ + 1]
  /\ taken' = Append(taken, c)
  /\ FlushIfFull(k, Append(batch, Len(taken) + 1))
  /\ UNCHANGED <<inserted, lost>>

(* ingest_raw of an event in the window: dropped, no id returned.          *)
IngestDuplicate(k, c) ==
  /\ Serve(k)
  /\ c \in seen
  /\ stats' = [stats EXCEPT !.dropped = @ + 1]
  /\ FlushIfFull(k, batch)
  /\ UNCHANGED <<seen, inserted, lost, taken>>

(* ingest_raw of something no parser accepts: 422.                         *)
IngestUnparsable(k) ==
  /\ Serve(k)
  /\ stats' = [stats EXCEPT !.errors = @ + 1]
  /\ UNCHANGED <<batch, seen, pc, flight, inserted, lost, taken>>

(* ingest_splunk_hec: every parsable line goes into the batch.             *)
IngestHec(k, lines) ==
  /\ Serve(k)
  /\ batch' = batch \o Numbered(Len(lines))
  /\ taken' = taken \o lines
  /\ stats' = [stats EXCEPT !.ingested = @ + Len(lines)]
  /\ UNCHANGED <<seen, pc, flight, inserted, lost>>

(* Mutant: the loop flushes full batches only.                             *)
FlushFullOnly ==
  /\ pc[Loop] = "idle"
  /\ Len(batch) >= BatchSize
  /\ TakeBatch(Loop, batch)
  /\ UNCHANGED <<seen, stats, inserted, lost, taken, requests>>

(* _flush_loop: FLUSH_INTERVAL is over.                                    *)
FlushTick ==
  /\ pc[Loop] = "idle"
  /\ batch # <<>>
  /\ TakeBatch(Loop, batch)
  /\ UNCHANGED <<seen, stats, inserted, lost, taken, requests>>

-----------------------------------------------------------------------------
(* Mutant: a failed flush counts as one error.                             *)
CountOneError(k) == [stats EXCEPT !.errors = @ + 1]

(* The whole batch of a flush counts as errors.                            *)
CountErrors(k) == [stats EXCEPT !.errors = @ + Len(flight[k])]

(* _bulk_insert returns; high-risk events are published next.              *)
InsertOk(k) ==
  /\ pc[k] = "insert"
  /\ inserted' = inserted \cup ToSet(flight[k])
  /\ IF \E e \in ToSet(flight[k]) : taken[e] \in HighRisk
     THEN pc' = [pc EXCEPT ![k] = "publish"] /\ UNCHANGED flight
     ELSE pc' = [pc EXCEPT ![k] = "idle"] /\ flight' = [flight EXCEPT ![k] = <<>>]
  /\ UNCHANGED <<batch, seen, stats, lost, taken, requests>>

(* _bulk_insert raises: logged and counted; the batch is not put back.     *)
(* The server may have applied it all the same.                            *)
InsertRaises(k, applied) ==
  /\ pc[k] = "insert"
  /\ IF applied THEN inserted' = inserted \cup ToSet(flight[k]) /\ UNCHANGED lost
                ELSE lost' = lost \cup ToSet(flight[k]) /\ UNCHANGED inserted
  /\ stats' = CountErrors(k)
  /\ pc' = [pc EXCEPT ![k] = "idle"]
  /\ flight' = [flight EXCEPT ![k] = <<>>]
  /\ UNCHANGED <<batch, seen, taken, requests>>

(* The publish returns, or raises and counts the whole stored batch.       *)
PublishEnds(k, ok) ==
  /\ pc[k] = "publish"
  /\ stats' = IF ok THEN stats ELSE CountErrors(k)
  /\ pc' = [pc EXCEPT ![k] = "idle"]
  /\ flight' = [flight EXCEPT ![k] = <<>>]
  /\ UNCHANGED <<batch, seen, inserted, lost, taken, requests>>

-----------------------------------------------------------------------------
FlushEnds(k) ==
  \/ InsertOk(k)
  \/ \E outcome \in BOOLEAN : InsertRaises(k, outcome) \/ PublishEnds(k, outcome)

Next ==
  \/ \E k \in RawCallers :
       (\E c \in Contents : IngestNew(k, c) \/ IngestDuplicate(k, c)) \/ IngestUnparsable(k)
  \/ \E k \in HecCallers : \E lines \in BoundedSeq(HecContents, HecLines) : IngestHec(k, lines)
  \/ FlushTick
  \/ \E k \in Tasks : FlushEnds(k)

Spec == Init /\ [][Next]_vars

(* The timer fires and every insert and publish returns or raises.         *)
FairSpec == Spec /\ WF_vars(FlushTick) /\ \A k \in Tasks : WF_vars(FlushEnds(k))

-----------------------------------------------------------------------------
(* The variables keep their types.                                         *)
TypeOK ==
  /\ batch \in Seq(Nat)
  /\ seen \in SUBSET Contents
  /\ stats \in [ingested : Nat, dropped : Nat, errors : Nat]
  /\ pc \in [Tasks -> {"idle", "insert", "publish"}]
  /\ flight \in [Tasks -> Seq(Nat)]
  /\ inserted \in SUBSET Nat
  /\ lost \in SUBSET Nat
  /\ taken \in Seq(Contents)
  /\ requests \in 0..MaxEvents

Waiting == ToSet(batch)
InFlight(k) == IF pc[k] = "insert" THEN ToSet(flight[k]) ELSE {}
OnTheirWay == Waiting \cup UNION {InFlight(k) : k \in Tasks}

(* What get_stats reports is conservative: the events neither in the table *)
(* nor on their way to it are counted as errors, with several inserts in   *)
(* flight and failures between insert and publish.                         *)
StatsConservative ==
  /\ stats.ingested = Len(taken)
  /\ Cardinality(Events \ (inserted \cup OnTheirWay)) <= stats.errors

(* Every event ingested is in exactly one place, once: pending, in one     *)
(* insert, in the table, or lost with its batch.                           *)
EventsConserved ==
  /\ TypeOK
  /\ Events = OnTheirWay \cup inserted \cup lost
  /\ OnTheirWay \cap (inserted \cup lost) = {} /\ inserted \cap lost = {}
  /\ \A k \in Tasks : Waiting \cap InFlight(k) = {}
  /\ \A j, k \in Tasks : j # k => InFlight(j) \cap InFlight(k) = {}
  /\ \A i, j \in 1..Len(batch) : batch[i] = batch[j] => i = j
  /\ \A k \in Tasks : \A i, j \in 1..Len(flight[k]) : flight[k][i] = flight[k][j] => i = j

(* The accounts are true: what is where, and what get_stats makes of it.   *)
EventsAccounted == EventsConserved /\ StatsConservative

(* A content that no HEC sender submits enters the pipeline once in every  *)
(* Window + 1 events at most, however many handlers submit it at the same  *)
(* time and whatever becomes of the inserts in between.                    *)
TakenOncePerWindow ==
  \A c \in Contents \ HecContents :
    Cardinality({e \in Events : taken[e] = c}) * (Window + 1) <= Len(taken) + Window

(* Nothing waits in the batch for ever: failed flushes do not stop the     *)
(* loop.                                                                   *)
BatchDrains == batch # <<>> ~> batch = <<>>

=============================================================================
