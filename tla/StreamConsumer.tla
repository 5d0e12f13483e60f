--------------------------- MODULE StreamConsumer ---------------------------
(***************************************************************************)
(* The event pipeline over one Redis stream:                               *)
(* control-plane/src/services/redis_streams.py.                            *)
(*                                                                         *)
(* EventPublisher appends entries with XADD, which trims the oldest ones.  *)
(* The EventConsumers of a group share the stream: XREADGROUP with ">"     *)
(* hands each of them entries that no consumer of the group was handed     *)
(* before and records them in the pending list; a consumer handles its     *)
(* entries one by one and acknowledges each.  Redis is external and does   *)
(* what its commands document.                                             *)
(*                                                                         *)
(* An entry is its number in the stream.  Between two awaits a task is not *)
(* interrupted; the awaits are the read, the handler, the acknowledgement  *)
(* and the pause after an error.  A consumer may be cancelled, or its      *)
(* process may die, at any of them, and be started again.                  *)
(***************************************************************************)
EXTENDS Integers, Sequences, SequencesExt

CONSTANTS
  Consumers,   \* consumer names of the group
  BatchSize,   \* batch_size: most entries of one read
  MaxLen,      \* maxlen of the stream
  MaxEntries   \* bound of the model: entries published in all

ASSUME ConsumerAssumption ==
  BatchSize \in Nat \ {0} /\ MaxLen \in Nat \ {0} /\ MaxEntries \in Nat

Entries == 1..MaxEntries

VARIABLES
  added,     \* number of the newest entry
  first,     \* number of the oldest entry that has not been trimmed
  last,      \* last-delivered id of the group
  pending,   \* the pending entries list of the group
  pc,        \* what each consumer awaits
  hand,      \* entries a consumer has read and not finished, oldest first
  handled,   \* entries whose handler returned
  acked      \* entries acknowledged

vars == <<added, first, last, pending, pc, hand, handled, acked>>

-----------------------------------------------------------------------------
Init ==
  /\ added = 0
  /\ first = 1
  /\ last = 0
  /\ pending = {}
  /\ pc = [c \in Consumers |-> "reading"]
  /\ hand = [c \in Consumers |-> <<>>]
  /\ handled = {}
  /\ acked = {}

(* XADD with MAXLEN ~ maxlen: Redis trims as much as it finds convenient,  *)
(* never below maxlen entries.                                             *)
Publish ==
  /\ added < MaxEntries
  /\ added' = added + 1
  /\ \E f \in first..MaxEntries :
       /\ f = first \/ added' - f + 1 >= MaxLen
       /\ first' = f
  /\ UNCHANGED <<last, pending, pc, hand, handled, acked>>

-----------------------------------------------------------------------------
(* Mutant: the read starts at the beginning of the stream, not at ">".    *)
OldestStored == first

(* The oldest entry that is newer than the position of the group.          *)
Oldest == IF last >= first THEN last + 1 ELSE first

Newer == Oldest..added

(* The batch that XREADGROUP returns for ">": the oldest new entries.      *)
Batch ==
  [i \in 1..(IF added - Oldest + 1 < BatchSize THEN added - Oldest + 1 ELSE BatchSize) |->
     Oldest + i - 1]

(* Mutant: the group keeps its position.                                   *)
NotAdvanced(b) == last

Advanced(b) == b[Len(b)]

(* XREADGROUP in Redis: the batch becomes pending and will not be new to   *)
(* any consumer again.                                                     *)
Deliver ==
  /\ Newer # {}
  /\ pending' = pending \cup ToSet(Batch)
  /\ last' = Advanced(Batch)

Read(c) ==
  /\ pc[c] = "reading"
  /\ Deliver
  /\ hand' = [hand EXCEPT ![c] = Batch]
  /\ pc' = [pc EXCEPT ![c] = "handling"]
  /\ UNCHANGED <<added, first, handled, acked>>

(* The read raises, before or after Redis has served it: pause.            *)
ReadRaises(c) ==
  /\ pc[c] = "reading"
  /\ Deliver \/ UNCHANGED <<pending, last>>
  /\ pc' = [pc EXCEPT ![c] = "pausing"]
  /\ UNCHANGED <<added, first, hand, handled, acked>>

EndPause(c) ==
  /\ pc[c] = "pausing"
  /\ pc' = [pc EXCEPT ![c] = "reading"]
  /\ UNCHANGED <<added, first, last, pending, hand, handled, acked>>

-----------------------------------------------------------------------------
(* The consumer goes on to the next entry of its batch or reads again.     *)
NextEntry(c) ==
  /\ hand' = [hand EXCEPT ![c] = Tail(@)]
  /\ pc' = [pc EXCEPT ![c] = IF Len(hand[c]) > 1 THEN "handling" ELSE "reading"]

HandlerReturns(c) ==
  /\ pc[c] = "handling"
  /\ handled' = handled \cup {Head(hand[c])}
  /\ pc' = [pc EXCEPT ![c] = "acking"]
  /\ UNCHANGED <<added, first, last, pending, hand, acked>>

(* Mutant: the acknowledgement is sent although the handler raised.        *)
AckAnyway(c) ==
  /\ pc[c] = "handling"
  /\ pc' = [pc EXCEPT ![c] = "acking"]
  /\ UNCHANGED <<added, first, last, pending, hand, handled, acked>>

(* The handler raises: logged, not acknowledged.                           *)
HandlerRaises(c) ==
  /\ pc[c] = "handling"
  /\ NextEntry(c)
  /\ UNCHANGED <<added, first, last, pending, handled, acked>>

(* XACK in Redis.                                                          *)
Acknowledge(e) ==
  /\ pending' = pending \ {e}
  /\ acked' = acked \cup {e}

Ack(c) ==
  /\ pc[c] = "acking"
  /\ Acknowledge(Head(hand[c]))
  /\ NextEntry(c)
  /\ UNCHANGED <<added, first, last, handled>>

(* The acknowledgement raises, before or after Redis has served it: it is  *)
(* logged as an error of the handler.                                      *)
AckRaises(c) ==
  /\ pc[c] = "acking"
  /\ Acknowledge(Head(hand[c])) \/ UNCHANGED <<pending, acked>>
  /\ NextEntry(c)
  /\ UNCHANGED <<added, first, last, handled>>

-----------------------------------------------------------------------------
(* CancelledError ends consume(), or the process dies: what the consumer   *)
(* had in hand is forgotten here and stays pending in Redis.  A command in *)
(* flight may still be served.                                             *)
Stop(c) ==
  /\ pc[c] # "stopped"
  /\ \/ UNCHANGED <<pending, last, acked>>
     \/ pc[c] = "reading" /\ Deliver /\ UNCHANGED acked
     \/ pc[c] = "acking" /\ Acknowledge(Head(hand[c])) /\ UNCHANGED last
  /\ pc' = [pc EXCEPT ![c] = "stopped"]
  /\ hand' = [hand EXCEPT ![c] = <<>>]
  /\ UNCHANGED <<added, first, handled>>

(* connect() and consume() again, under the same name: the group exists    *)
(* and keeps its position.                                                 *)
Start(c) ==
  /\ pc[c] = "stopped"
  /\ pc' = [pc EXCEPT ![c] = "reading"]
  /\ UNCHANGED <<added, first, last, pending, hand, handled, acked>>

-----------------------------------------------------------------------------
Work(c) == HandlerReturns(c) \/ HandlerRaises(c) \/ Ack(c) \/ AckRaises(c)

Next ==
  \/ Publish
  \/ \E c \in Consumers :
       Read(c) \/ ReadRaises(c) \/ EndPause(c) \/ Work(c) \/ Stop(c) \/ Start(c)

Spec == Init /\ [][Next]_vars

(* Reads, handlers and acknowledgements return or raise, the pause ends.   *)
(* A read that can be served again and again is served: Redis is not down  *)
(* for ever.  Nothing makes a stopped consumer start again.                *)
FairSpec ==
  Spec /\ \A c \in Consumers :
            SF_vars(Read(c)) /\ WF_vars(EndPause(c)) /\ WF_vars(Work(c))

-----------------------------------------------------------------------------
(* The variables keep their types.                                         *)
TypeOK ==
  /\ added \in 0..MaxEntries
  /\ first \in 1..MaxEntries + 1
  /\ last \in 0..MaxEntries
  /\ pending \in SUBSET Entries
  /\ pc \in [Consumers -> {"reading", "pausing", "handling", "acking", "stopped"}]
  /\ hand \in [Consumers -> Seq(Entries)]
  /\ handled \in SUBSET Entries
  /\ acked \in SUBSET Entries

(* No handler sees an entry twice: not two consumers at once, not a        *)
(* consumer again after a failed acknowledgement, a lost reply or a        *)
(* restart.                                                                *)
HandledOnce ==
  [][\A c \in Consumers : HandlerReturns(c) => Head(hand[c]) \notin handled]_vars

(* Nothing that was not handled is acknowledged, and what was handled and  *)
(* is not acknowledged is still pending in Redis.                          *)
AckedWasHandled ==
  /\ TypeOK
  /\ acked \subseteq handled
  /\ handled \subseteq acked \cup pending

(* While one consumer runs, every entry is delivered, unless the stream    *)
(* was trimmed past it: what the others do, failures of handlers and lost  *)
(* replies do not hold the group back.                                     *)
EverythingDelivered ==
  (\E c \in Consumers : <>[](pc[c] # "stopped"))
    => \A e \in Entries : added >= e ~> last >= e \/ first > e

-----------------------------------------------------------------------------
(* "No acknowledgement - it can be retried" (comment in consume()): while  *)
(* nobody stops and no read raises, so that an entry is left pending and   *)
(* unhandled only by a handler that raised, the entry is handled again.    *)
(* Violated: consume() reads ">" only, and nothing reads the pending list. *)
Abandoned(e) == e \in pending \ handled /\ \A c \in Consumers : e \notin ToSet(hand[c])
OnlyHandlersFail == [](\A c \in Consumers : pc[c] \notin {"pausing", "stopped"})
FailedIsRetried ==
  OnlyHandlersFail => \A e \in Entries : Abandoned(e) ~> ~Abandoned(e)
=============================================================================
