------------------------ MODULE StreamConsumerProofs ------------------------
(***************************************************************************)
(* Proofs about StreamConsumer, for any consumers, batch size and length   *)
(* of the stream: acknowledgements are honest, and no entry is handled     *)
(* twice.                                                                  *)
(***************************************************************************)
EXTENDS StreamConsumer, TLAPS, SequenceTheorems

(* A batch is new to the group and in the order of the stream.             *)
LEMMA BatchIsNew ==
  ASSUME TypeOK, Newer # {}
  PROVE  /\ Batch \in Seq(Entries)
         /\ Len(Batch) \in Nat \ {0}
         /\ Advanced(Batch) \in Entries
         /\ \A i \in 1..Len(Batch) : last < Batch[i] /\ Batch[i] <= Advanced(Batch)
         /\ \A i, j \in 1..Len(Batch) : i # j => Batch[i] # Batch[j]
         /\ last < Advanced(Batch)
<1> DEFINE n == IF added - Oldest + 1 < BatchSize THEN added - Oldest + 1 ELSE BatchSize
<1> last \in Nat
  BY ConsumerAssumption DEF TypeOK
<1>1. Oldest \in Nat \ {0} /\ last < Oldest /\ Oldest <= added /\ added <= MaxEntries
  BY ConsumerAssumption DEF TypeOK, Newer, Oldest
<1>2. added \in Nat /\ BatchSize \in Nat \ {0}
  BY ConsumerAssumption DEF TypeOK
<1>3. n \in Nat \ {0} /\ Oldest + n - 1 <= added
  BY <1>1, <1>2
<1> HIDE DEF n
<1>4. Batch = [i \in 1..n |-> Oldest + i - 1]
  BY DEF Batch, n
<1>5. \A i \in 1..n : Oldest + i - 1 \in Entries
  BY <1>1, <1>2, <1>3, ConsumerAssumption DEF Entries
<1>6. Batch \in Seq(Entries) /\ Len(Batch) = n
  BY <1>3, <1>4, <1>5, LenProperties
<1>7. \A i \in 1..n : Batch[i] = Oldest + i - 1
  BY <1>4
<1>8. Advanced(Batch) = Oldest + n - 1
  BY <1>3, <1>6, <1>7 DEF Advanced
<1>9. \A i \in 1..n : last < Batch[i] /\ Batch[i] <= Oldest + n - 1
  BY <1>1, <1>3, <1>7
<1>10. \A i, j \in 1..n : i # j => Batch[i] # Batch[j]
  BY <1>1, <1>3, <1>7
<1>11. Oldest + n - 1 \in Entries /\ last < Oldest + n - 1
  BY <1>1, <1>3, <1>5
<1> QED
  BY <1>3, <1>6, <1>8, <1>9, <1>10, <1>11

(* What is left of a hand when its first entry is done with.               *)
LEMMA TailShifts ==
  ASSUME NEW s \in Seq(Entries), s # <<>>
  PROVE  /\ Head(s) = s[1] /\ Head(s) \in Entries /\ 1 \in 1..Len(s)
         /\ Tail(s) \in Seq(Entries)
         /\ Len(Tail(s)) = Len(s) - 1
         /\ \A i \in 1..Len(Tail(s)) : i + 1 \in 1..Len(s) /\ Tail(s)[i] = s[i + 1]
<1>1. Len(s) \in Nat \ {0}
  BY EmptySeq, LenProperties
<1> QED
  BY <1>1, HeadTailProperties, ElementOfSeq
-----------------------------------------------------------------------------
(* Types; a consumer that handles or acknowledges has an entry in hand.    *)
TypeInv ==
  /\ TypeOK
  /\ \A c \in Consumers : pc[c] \in {"handling", "acking"} => hand[c] # <<>>

LEMMA DeliverTypes ==
  ASSUME TypeOK, Deliver
  PROVE  /\ pending' \in SUBSET Entries /\ last' \in 0..MaxEntries
         /\ pending' = pending \cup {Batch[i] : i \in 1..Len(Batch)}
         /\ last < last'
<1>1. Newer # {}
  BY DEF Deliver
<1>2. DOMAIN Batch = 1..Len(Batch)
  BY <1>1, BatchIsNew, LenProperties
<1>3. ToSet(Batch) = {Batch[i] : i \in 1..Len(Batch)}
  BY <1>2 DEF ToSet
<1>4. \A i \in 1..Len(Batch) : Batch[i] \in Entries
  BY <1>1, BatchIsNew, ElementOfSeq
<1>5. pending' = pending \cup {Batch[i] : i \in 1..Len(Batch)} /\ last' = Advanced(Batch)
  BY <1>3 DEF Deliver
<1>6. pending \cup {Batch[i] : i \in 1..Len(Batch)} \in SUBSET Entries
  BY <1>4 DEF TypeOK
<1>7. Advanced(Batch) \in 0..MaxEntries /\ last < Advanced(Batch)
  BY <1>1, BatchIsNew, ConsumerAssumption DEF Entries
<1> QED
  BY <1>5, <1>6, <1>7

(* A consumer's entries after the next one has come to the front.          *)
LEMMA NextEntryShifts ==
  ASSUME TypeInv, NEW c \in Consumers, pc[c] \in {"handling", "acking"}, NextEntry(c)
  PROVE  /\ hand' \in [Consumers -> Seq(Entries)]
         /\ pc' \in [Consumers -> {"reading", "pausing", "handling", "acking", "stopped"}]
         /\ pc'[c] \in {"handling", "reading"}
         /\ pc'[c] = "handling" => hand'[c] # <<>>
         /\ \A d \in Consumers \ {c} : hand'[d] = hand[d] /\ pc'[d] = pc[d]
         /\ Len(hand'[c]) = Len(hand[c]) - 1
         /\ \A i \in 1..Len(hand'[c]) : i + 1 \in 1..Len(hand[c]) /\ hand'[c][i] = hand[c][i + 1]
<1>1. hand[c] \in Seq(Entries) /\ hand[c] # <<>>
  BY DEF TypeInv, TypeOK
<1>2. hand'[c] = Tail(hand[c]) /\ hand' \in [Consumers -> Seq(Entries)]
  BY <1>1, TailShifts DEF NextEntry, TypeInv, TypeOK
<1>3. pc'[c] = IF Len(hand[c]) > 1 THEN "handling" ELSE "reading"
  BY DEF NextEntry, TypeInv, TypeOK
<1>4. pc' \in [Consumers -> {"reading", "pausing", "handling", "acking", "stopped"}]
  BY DEF NextEntry, TypeInv, TypeOK
<1>5. \A d \in Consumers \ {c} : hand'[d] = hand[d] /\ pc'[d] = pc[d]
  BY DEF NextEntry, TypeInv, TypeOK
<1>6. Len(hand[c]) > 1 => hand'[c] # <<>>
  BY <1>1, <1>2, TailShifts, EmptySeq, LenProperties
<1> QED
  BY <1>1, <1>2, <1>3, <1>4, <1>5, <1>6, TailShifts

LEMMA TypeInductive == TypeInv /\ [Next]_vars => TypeInv'
<1> SUFFICES ASSUME TypeInv, [Next]_vars PROVE TypeInv'
  OBVIOUS
<1> USE ConsumerAssumption
<1>1. CASE Publish
  BY <1>1 DEF TypeInv, TypeOK, Publish
<1>2. ASSUME NEW c \in Consumers, Read(c) PROVE TypeInv'
  <2>1. Batch \in Seq(Entries) /\ Batch # <<>>
    BY <1>2, BatchIsNew, EmptySeq DEF Read, Deliver, TypeInv
  <2>2. hand' \in [Consumers -> Seq(Entries)]
        /\ pc' \in [Consumers -> {"reading", "pausing", "handling", "acking", "stopped"}]
    BY <1>2, <2>1 DEF Read, TypeInv, TypeOK
  <2>3. \A d \in Consumers : pc'[d] \in {"handling", "acking"} => hand'[d] # <<>>
    BY <1>2, <2>1 DEF Read, TypeInv, TypeOK
  <2> QED
    BY <1>2, <2>2, <2>3, DeliverTypes DEF TypeInv, TypeOK, Read
<1>3. ASSUME NEW c \in Consumers, ReadRaises(c) PROVE TypeInv'
  <2>1. pending' \in SUBSET Entries /\ last' \in 0..MaxEntries
    BY <1>3, DeliverTypes DEF ReadRaises, TypeInv, TypeOK
  <2> QED
    BY <1>3, <2>1 DEF TypeInv, TypeOK, ReadRaises
<1>4. ASSUME NEW c \in Consumers, EndPause(c) PROVE TypeInv'
  BY <1>4 DEF TypeInv, TypeOK, EndPause
<1>5. ASSUME NEW c \in Consumers, HandlerReturns(c) PROVE TypeInv'
  BY <1>5, TailShifts DEF TypeInv, TypeOK, HandlerReturns
<1>6. ASSUME NEW c \in Consumers, HandlerRaises(c) PROVE TypeInv'
  <2>1. pc[c] \in {"handling", "acking"} /\ NextEntry(c)
    BY <1>6 DEF HandlerRaises
  <2> QED
    BY <1>6, <2>1, NextEntryShifts DEF TypeInv, TypeOK, HandlerRaises
<1>7. ASSUME NEW c \in Consumers, Ack(c) \/ AckRaises(c) PROVE TypeInv'
  <2>1. pc[c] \in {"handling", "acking"} /\ NextEntry(c)
    BY <1>7 DEF Ack, AckRaises
  <2>2. pending' \in SUBSET Entries /\ acked' \in SUBSET Entries
    BY <1>7, <2>1, TailShifts DEF Ack, AckRaises, Acknowledge, TypeInv, TypeOK
  <2> QED
    BY <1>7, <2>1, <2>2, NextEntryShifts DEF TypeInv, TypeOK, Ack, AckRaises
<1>8. ASSUME NEW c \in Consumers, Stop(c) PROVE TypeInv'
  <2>1. pending' \in SUBSET Entries /\ acked' \in SUBSET Entries /\ last' \in 0..MaxEntries
    BY <1>8, DeliverTypes, TailShifts DEF Stop, Acknowledge, TypeInv, TypeOK
  <2>2. <<>> \in Seq(Entries)
    BY EmptySeq
  <2> QED
    BY <1>8, <2>1, <2>2 DEF TypeInv, TypeOK, Stop
<1>9. ASSUME NEW c \in Consumers, Start(c) PROVE TypeInv'
  BY <1>9 DEF TypeInv, TypeOK, Start
<1>10. CASE UNCHANGED vars
  BY <1>10 DEF TypeInv, TypeOK, vars
<1> QED
  BY <1>1, <1>2, <1>3, <1>4, <1>5, <1>6, <1>7, <1>8, <1>9, <1>10 DEF Next, Work

-----------------------------------------------------------------------------
(* What a consumer acknowledges was handled by it; what any consumer has   *)
(* in hand is pending, or was acknowledged after all (a lost reply).       *)
AckInv ==
  /\ TypeInv
  /\ acked \subseteq handled
  /\ handled \subseteq acked \cup pending
  /\ \A c \in Consumers : pc[c] = "acking" => hand[c][1] \in handled
  /\ \A c \in Consumers : \A i \in 1..Len(hand[c]) : hand[c][i] \in acked \cup pending

LEMMA AckInductive == AckInv /\ [Next]_vars => AckInv'
<1> SUFFICES ASSUME AckInv, [Next]_vars PROVE AckInv'
  OBVIOUS
<1> TypeInv'
  BY TypeInductive DEF AckInv
<1> TypeInv /\ TypeOK
  BY DEF AckInv, TypeInv
<1>1. CASE Publish
  BY <1>1 DEF AckInv, Publish
<1>2. ASSUME NEW c \in Consumers, Read(c) PROVE AckInv'
  <2>1. pending' = pending \cup {Batch[i] : i \in 1..Len(Batch)}
    BY <1>2, DeliverTypes DEF Read
  <2>2. hand'[c] = Batch /\ \A d \in Consumers \ {c} : hand'[d] = hand[d] /\ pc'[d] = pc[d]
    BY <1>2 DEF Read, TypeOK
  <2>3. pc'[c] = "handling" /\ UNCHANGED <<handled, acked>>
    BY <1>2 DEF Read, TypeOK
  <2>4. \A d \in Consumers : \A i \in 1..Len(hand'[d]) : hand'[d][i] \in acked' \cup pending'
    BY <2>1, <2>2, <2>3 DEF AckInv
  <2> QED
    BY <2>1, <2>2, <2>3, <2>4 DEF AckInv
<1>3. ASSUME NEW c \in Consumers, ReadRaises(c) PROVE AckInv'
  <2>1. pending \subseteq pending'
    BY <1>3, DeliverTypes DEF ReadRaises
  <2>2. \A d \in Consumers : pc'[d] = "acking" => pc[d] = "acking"
    BY <1>3 DEF ReadRaises, TypeOK
  <2> QED
    BY <1>3, <2>1, <2>2 DEF AckInv, ReadRaises
<1>4. ASSUME NEW c \in Consumers, EndPause(c) \/ Start(c) PROVE AckInv'
  <2>1. \A d \in Consumers : pc'[d] = "acking" => pc[d] = "acking"
    BY <1>4 DEF EndPause, Start, TypeOK
  <2> QED
    BY <1>4, <2>1 DEF AckInv, EndPause, Start
<1>5. ASSUME NEW c \in Consumers, HandlerReturns(c) PROVE AckInv'
  <2>1. Head(hand[c]) = hand[c][1] /\ 1 \in 1..Len(hand[c])
    BY <1>5, TailShifts DEF HandlerReturns, TypeInv, TypeOK
  <2>2. \A d \in Consumers : pc'[d] = "acking" => d = c \/ pc[d] = "acking"
    BY <1>5 DEF HandlerReturns, TypeOK
  <2> QED
    BY <1>5, <2>1, <2>2 DEF AckInv, HandlerReturns
<1>6. ASSUME NEW c \in Consumers, NextEntry(c), pc[c] \in {"handling", "acking"},
             UNCHANGED handled, acked \subseteq acked', acked' \subseteq handled,
             acked \cup pending \subseteq acked' \cup pending'
      PROVE  AckInv'
  <2>1. \A d \in Consumers : pc'[d] = "acking" => d # c /\ pc[d] = "acking"
    BY <1>6, NextEntryShifts
  <2>2. \A d \in Consumers : \A i \in 1..Len(hand'[d]) : hand'[d][i] \in acked \cup pending
    BY <1>6, NextEntryShifts DEF AckInv
  <2>3. \A d \in Consumers : pc'[d] = "acking" => hand'[d][1] \in handled
    BY <1>6, <2>1, NextEntryShifts DEF AckInv
  <2> QED
    BY <1>6, <2>2, <2>3 DEF AckInv
<1>7. ASSUME NEW c \in Consumers, pc[c] = "acking", Acknowledge(Head(hand[c]))
      PROVE  /\ acked \subseteq acked' /\ acked' \subseteq handled
             /\ acked \cup pending \subseteq acked' \cup pending'
  <2>1. Head(hand[c]) \in handled
    BY <1>7, TailShifts DEF AckInv, TypeInv, TypeOK
  <2> QED
    BY <1>7, <2>1 DEF Acknowledge, AckInv
<1>8. ASSUME NEW c \in Consumers, HandlerRaises(c) PROVE AckInv'
  BY <1>6, <1>8 DEF HandlerRaises, AckInv
<1>9. ASSUME NEW c \in Consumers, Ack(c) PROVE AckInv'
  BY <1>6, <1>7, <1>9 DEF Ack, AckInv
<1>10. ASSUME NEW c \in Consumers, AckRaises(c) PROVE AckInv'
  BY <1>6, <1>7, <1>10 DEF AckRaises, AckInv
<1>11. ASSUME NEW c \in Consumers, Stop(c) PROVE AckInv'
  <2>1. /\ acked \subseteq acked' /\ acked' \subseteq handled
        /\ acked \cup pending \subseteq acked' \cup pending'
    <3>1. CASE UNCHANGED <<pending, last, acked>>
      BY <3>1 DEF AckInv
    <3>2. CASE pc[c] = "reading" /\ Deliver /\ UNCHANGED acked
      BY <3>2, DeliverTypes DEF AckInv
    <3>3. CASE pc[c] = "acking" /\ Acknowledge(Head(hand[c])) /\ UNCHANGED last
      BY <1>7, <3>3
    <3> QED
      BY <1>11, <3>1, <3>2, <3>3 DEF Stop
  <2>2. handled' = handled /\ hand'[c] = <<>> /\ pc'[c] = "stopped"
        /\ \A d \in Consumers \ {c} : hand'[d] = hand[d] /\ pc'[d] = pc[d]
    BY <1>11 DEF Stop, TypeOK
  <2>3. Len(hand'[c]) = 0
    BY <2>2, EmptySeq
  <2>4. \A d \in Consumers : \A i \in 1..Len(hand'[d]) : hand'[d][i] \in acked \cup pending
    BY <2>2, <2>3 DEF AckInv
  <2> QED
    BY <2>1, <2>2, <2>4 DEF AckInv
<1>12. CASE UNCHANGED vars
  BY <1>12 DEF AckInv, vars
<1> QED
  BY <1>1, <1>2, <1>3, <1>4, <1>5, <1>8, <1>9, <1>10, <1>11, <1>12 DEF Next, Work

LEMMA AckInit == Init => AckInv
<1> SUFFICES ASSUME Init PROVE AckInv
  OBVIOUS
<1>1. TypeOK
  <2>1. <<>> \in Seq(Entries)
    BY EmptySeq
  <2> QED
    BY <2>1, ConsumerAssumption DEF Init, TypeOK
<1>2. \A c \in Consumers : pc[c] = "reading" /\ Len(hand[c]) = 0
  BY EmptySeq DEF Init
<1> QED
  BY <1>1, <1>2 DEF Init, AckInv, TypeInv

(* Nothing unhandled is acknowledged, whatever raises, stops or gets lost  *)
(* (consume(), redis_streams.py).                                          *)
THEOREM AcknowledgementsAreHonest == Spec => []AckedWasHandled
<1>1. AckInv => AckedWasHandled
  BY DEF AckInv, TypeInv, AckedWasHandled
<1> QED
  BY <1>1, AckInit, AckInductive, PTL DEF Spec

-----------------------------------------------------------------------------
(* The places of its hand that a consumer has still to handle.             *)
Unseen(c, i) == pc[c] = "handling" \/ (pc[c] = "acking" /\ i > 1)

(* Hands hold entries that were delivered, each one once among all hands;  *)
(* none of those still to be handled was handled.                          *)
HandledDelivered == \A e \in handled : e <= last
HeldDelivered == \A c \in Consumers : \A i \in 1..Len(hand[c]) : hand[c][i] <= last
HeldOnce ==
  \A c, d \in Consumers : \A i \in 1..Len(hand[c]), j \in 1..Len(hand[d]) :
    hand[c][i] = hand[d][j] => c = d /\ i = j
UnseenUnhandled ==
  \A c \in Consumers : \A i \in 1..Len(hand[c]) : Unseen(c, i) => hand[c][i] \notin handled

OnceInv == TypeInv /\ HandledDelivered /\ HeldDelivered /\ HeldOnce /\ UnseenUnhandled

LEMMA OnceInductive == OnceInv /\ [Next]_vars => OnceInv'
<1> SUFFICES ASSUME OnceInv, [Next]_vars PROVE OnceInv'
  OBVIOUS
<1>a. TypeInv /\ TypeOK /\ TypeInv'
  BY TypeInductive DEF OnceInv, TypeInv
<1>b. HandledDelivered /\ HeldDelivered /\ HeldOnce /\ UnseenUnhandled
  BY DEF OnceInv
<1>c. last \in Nat /\ \A e \in handled : e \in Nat
  BY <1>a, ConsumerAssumption DEF TypeOK, Entries
<1>d. \A c \in Consumers : \A i \in 1..Len(hand[c]) : hand[c][i] \in Nat
  <2>1. \A c \in Consumers : hand[c] \in Seq(Entries)
    BY <1>a DEF TypeOK
  <2>2. \A c \in Consumers : \A i \in 1..Len(hand[c]) : hand[c][i] \in Entries
    BY <2>1, ElementOfSeq
  <2> QED
    BY <2>2 DEF Entries
<1>1. CASE Publish
  <2>1. UNCHANGED <<last, handled, hand, pc>>
    BY <1>1 DEF Publish
  <2> QED
    BY <1>a, <1>b, <2>1
       DEF OnceInv, HandledDelivered, HeldDelivered, HeldOnce, UnseenUnhandled, Unseen
<1>2. ASSUME NEW c \in Consumers, Read(c) PROVE OnceInv'
  <2>1. /\ \A i \in 1..Len(Batch) : last < Batch[i] /\ Batch[i] <= last' /\ Batch[i] \in Nat
        /\ \A i, j \in 1..Len(Batch) : i # j => Batch[i] # Batch[j]
        /\ last < last' /\ last' \in Nat
    <3>1. Newer # {} /\ last' = Advanced(Batch)
      BY <1>2 DEF Read, Deliver
    <3>2. \A i \in 1..Len(Batch) : Batch[i] \in Entries
      BY <1>a, <3>1, BatchIsNew, ElementOfSeq
    <3> QED
      BY <1>a, <3>1, <3>2, BatchIsNew DEF Entries
  <2>2. /\ hand'[c] = Batch
        /\ \A d \in Consumers \ {c} : hand'[d] = hand[d] /\ pc'[d] = pc[d]
    BY <1>2, <1>a DEF Read, TypeOK
  <2>3. handled' = handled
    BY <1>2 DEF Read
  <2>4. HandledDelivered'
    BY <1>b, <1>c, <2>1, <2>3 DEF HandledDelivered
  <2>5. \A d \in Consumers : \A i \in 1..Len(hand[d]) : hand[d][i] <= last'
    BY <1>b, <1>c, <1>d, <2>1 DEF HeldDelivered
  <2>6. HeldDelivered'
    BY <2>1, <2>2, <2>5 DEF HeldDelivered
  <2>7. \A d \in Consumers : \A j \in 1..Len(hand[d]), i \in 1..Len(Batch) :
          hand[d][j] # Batch[i]
    BY <1>b, <1>c, <1>d, <2>1 DEF HeldDelivered
  <2>8. HeldOnce'
    BY <1>b, <2>1, <2>2, <2>7 DEF HeldOnce
  <2>9. \A i \in 1..Len(Batch) : Batch[i] \notin handled
    BY <1>b, <1>c, <2>1 DEF HandledDelivered
  <2>10. UnseenUnhandled'
    BY <1>b, <2>2, <2>3, <2>9 DEF UnseenUnhandled, Unseen
  <2> QED
    BY <1>a, <2>4, <2>6, <2>8, <2>10 DEF OnceInv
<1>3. ASSUME UNCHANGED <<hand, handled>>, last <= last', last' \in Nat,
             \A d \in Consumers : pc'[d] \in {"handling", "acking"} => pc'[d] = pc[d]
      PROVE  OnceInv'
  <2>1. HandledDelivered'
    BY <1>3, <1>b, <1>c DEF HandledDelivered
  <2>2. HeldDelivered'
    BY <1>3, <1>b, <1>c, <1>d DEF HeldDelivered
  <2>3. HeldOnce'
    BY <1>3, <1>b DEF HeldOnce
  <2>4. UnseenUnhandled'
    BY <1>3, <1>b DEF UnseenUnhandled, Unseen
  <2> QED
    BY <1>a, <2>1, <2>2, <2>3, <2>4 DEF OnceInv
<1>4. ASSUME NEW c \in Consumers, ReadRaises(c) PROVE OnceInv'
  <2>1. last <= last' /\ last' \in Nat
    BY <1>4, <1>a, <1>c, DeliverTypes, ConsumerAssumption DEF ReadRaises
  <2>2. \A d \in Consumers : pc'[d] \in {"handling", "acking"} => pc'[d] = pc[d]
    BY <1>4, <1>a DEF ReadRaises, TypeOK
  <2> QED
    BY <1>3, <1>4, <2>1, <2>2 DEF ReadRaises
<1>5. ASSUME NEW c \in Consumers, EndPause(c) \/ Start(c) PROVE OnceInv'
  <2>1. \A d \in Consumers : pc'[d] \in {"handling", "acking"} => pc'[d] = pc[d]
    BY <1>5, <1>a DEF EndPause, Start, TypeOK
  <2> QED
    BY <1>3, <1>5, <1>c, <2>1 DEF EndPause, Start
<1>6. ASSUME NEW c \in Consumers, HandlerReturns(c) PROVE OnceInv'
  <2>1. Head(hand[c]) = hand[c][1] /\ 1 \in 1..Len(hand[c])
    BY <1>6, <1>a, TailShifts DEF HandlerReturns, TypeInv, TypeOK
  <2>2. pc'[c] = "acking" /\ \A d \in Consumers \ {c} : pc'[d] = pc[d]
    BY <1>6, <1>a DEF HandlerReturns, TypeOK
  <2>3. handled' = handled \cup {hand[c][1]} /\ UNCHANGED <<hand, last>> /\ pc[c] = "handling"
    BY <1>6, <2>1 DEF HandlerReturns
  <2>4. HandledDelivered'
    BY <1>b, <2>1, <2>3 DEF HandledDelivered, HeldDelivered
  <2>5. HeldDelivered' /\ HeldOnce'
    BY <1>b, <2>3 DEF HeldDelivered, HeldOnce
  <2>6. \A d \in Consumers : \A i \in 1..Len(hand[d]) :
          Unseen(d, i)' => Unseen(d, i) /\ (d # c \/ i # 1)
    BY <2>2, <2>3 DEF Unseen
  <2>7. \A d \in Consumers : \A i \in 1..Len(hand[d]) :
          d # c \/ i # 1 => hand[d][i] # hand[c][1]
    BY <1>b, <2>1 DEF HeldOnce
  <2>8. UnseenUnhandled'
    BY <1>b, <2>3, <2>6, <2>7 DEF UnseenUnhandled
  <2> QED
    BY <1>a, <2>4, <2>5, <2>8 DEF OnceInv
<1>7. ASSUME NEW c \in Consumers, NextEntry(c), pc[c] \in {"handling", "acking"},
             UNCHANGED <<last, handled>>
      PROVE  OnceInv'
  <2> DEFINE At(d, i) == IF d = c THEN i + 1 ELSE i
  <2>1. \A d \in Consumers : \A i \in 1..Len(hand'[d]) :
          At(d, i) \in 1..Len(hand[d]) /\ hand'[d][i] = hand[d][At(d, i)]
    BY <1>7, <1>a, NextEntryShifts
  <2>2. \A d \in Consumers : \A i \in 1..Len(hand'[d]) :
          Unseen(d, i)' => Unseen(d, At(d, i))
    BY <1>7, <1>a, NextEntryShifts DEF Unseen
  <2>3. \A d \in Consumers : \A i, j \in 1..Len(hand'[d]) : At(d, i) = At(d, j) => i = j
    OBVIOUS
  <2> HIDE DEF At
  <2>4. HandledDelivered' /\ HeldDelivered'
    <3>1. HandledDelivered'
      BY <1>7, <1>b DEF HandledDelivered
    <3>2. last' = last
      BY <1>7
    <3>3. HeldDelivered'
      BY <1>b, <2>1, <3>2 DEF HeldDelivered
    <3> QED
      BY <3>1, <3>3
  <2>5. HeldOnce'
    <3> SUFFICES ASSUME NEW d \in Consumers, NEW e \in Consumers,
                        NEW i \in 1..Len(hand'[d]), NEW j \in 1..Len(hand'[e]),
                        hand'[d][i] = hand'[e][j]
                 PROVE  d = e /\ i = j
      BY DEF HeldOnce
    <3>1. At(d, i) \in 1..Len(hand[d]) /\ At(e, j) \in 1..Len(hand[e])
      BY <2>1
    <3>2. hand[d][At(d, i)] = hand[e][At(e, j)]
      BY <2>1
    <3>3. d = e /\ At(d, i) = At(e, j)
      BY <1>b, <3>1, <3>2 DEF HeldOnce
    <3> QED
      BY <2>3, <3>3
  <2>6. UnseenUnhandled'
    BY <1>7, <1>b, <2>1, <2>2 DEF UnseenUnhandled
  <2> QED
    BY <1>a, <2>4, <2>5, <2>6 DEF OnceInv
<1>8. ASSUME NEW c \in Consumers, HandlerRaises(c) \/ Ack(c) \/ AckRaises(c) PROVE OnceInv'
  BY <1>7, <1>8 DEF HandlerRaises, Ack, AckRaises
<1>9. ASSUME NEW c \in Consumers, Stop(c) PROVE OnceInv'
  <2>1. last <= last' /\ last' \in Nat /\ handled' = handled
    BY <1>9, <1>a, <1>c, DeliverTypes, ConsumerAssumption DEF Stop
  <2>2. /\ hand'[c] = <<>>
        /\ \A d \in Consumers \ {c} : hand'[d] = hand[d] /\ pc'[d] = pc[d]
    BY <1>9, <1>a DEF Stop, TypeOK
  <2>3. \A d \in Consumers : \A i \in 1..Len(hand'[d]) :
          d # c /\ hand'[d] = hand[d] /\ pc'[d] = pc[d]
    BY <2>2, EmptySeq
  <2>4. HandledDelivered'
    BY <1>b, <1>c, <2>1 DEF HandledDelivered
  <2>5. \A d \in Consumers : \A i \in 1..Len(hand[d]) : hand[d][i] <= last'
    BY <1>b, <1>c, <1>d, <2>1 DEF HeldDelivered
  <2>6. HeldDelivered'
    BY <2>3, <2>5 DEF HeldDelivered
  <2>7. HeldOnce'
    BY <1>b, <2>3 DEF HeldOnce
  <2>8. UnseenUnhandled'
    BY <1>b, <2>1, <2>3 DEF UnseenUnhandled, Unseen
  <2> QED
    BY <1>a, <2>4, <2>6, <2>7, <2>8 DEF OnceInv
<1>10. CASE UNCHANGED vars
  <2>1. UNCHANGED <<last, handled, hand, pc>>
    BY <1>10 DEF vars
  <2> QED
    BY <1>a, <1>b, <2>1
       DEF OnceInv, HandledDelivered, HeldDelivered, HeldOnce, UnseenUnhandled, Unseen
<1> QED
  BY <1>1, <1>2, <1>4, <1>5, <1>6, <1>8, <1>9, <1>10 DEF Next, Work

LEMMA OnceInit == Init => OnceInv
<1> SUFFICES ASSUME Init PROVE OnceInv
  OBVIOUS
<1>1. TypeInv
  BY AckInit DEF AckInv
<1>2. \A c \in Consumers : Len(hand[c]) = 0
  BY EmptySeq DEF Init
<1> QED
  BY <1>1, <1>2
     DEF Init, OnceInv, HandledDelivered, HeldDelivered, HeldOnce, UnseenUnhandled

(* No entry is handled twice, by any consumers, across lost replies,       *)
(* failed acknowledgements and restarts (consume(), redis_streams.py).     *)
THEOREM EntriesAreHandledOnce == Spec => HandledOnce
<1>1. OnceInv /\ [Next]_vars =>
        [\A c \in Consumers : HandlerReturns(c) => Head(hand[c]) \notin handled]_vars
  <2> SUFFICES ASSUME OnceInv, NEW c \in Consumers, HandlerReturns(c)
               PROVE  Head(hand[c]) \notin handled
    OBVIOUS
  <2>1. Head(hand[c]) = hand[c][1] /\ 1 \in 1..Len(hand[c])
    BY TailShifts DEF HandlerReturns, OnceInv, TypeInv, TypeOK
  <2> QED
    BY <2>1 DEF HandlerReturns, OnceInv, UnseenUnhandled, Unseen
<1> QED
  BY <1>1, OnceInit, OnceInductive, PTL DEF Spec, HandledOnce
=============================================================================
