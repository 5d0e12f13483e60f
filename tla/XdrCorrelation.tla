---------------------------- MODULE XdrCorrelation ----------------------------
(***************************************************************************)
(* The two correlators of control-plane/src/xdr: the chains of one address *)
(* over the kill chain (causality_builder.py, POST /api/v1/xdr/events)     *)
(* and the incidents of one identity (event_stitcher.py).  An event may    *)
(* carry a time of its own, older than the moment it arrives.  The engines *)
(* share no state.                                                         *)
(***************************************************************************)
EXTENDS Naturals, Sequences, SequencesExt, FiniteSets, FiniteSetsExt, Functions, Ordering

CONSTANTS
  EventSources,  \* addresses events come from
  Phase,         \* threat type -> phase of its technique, NoPhase when unmapped
  NoPhase,
  ChainWindow,   \* CORRELATION_WINDOW_SECONDS
  RawEvents,     \* the identity keys of the events given to the stitcher: sequences of <<kind, value>>
  Windows,       \* WINDOWS: kind of key -> time
  MaxLate,       \* bounds of this model: how late an event arrives,
  LastMinute,    \* the last moment,
  MaxEventsIn    \* and the events that arrive at each correlator

ASSUME XdrAssumption ==
  /\ ChainWindow \in Nat /\ MaxLate \in Nat /\ LastMinute \in Nat /\ MaxEventsIn \in Nat
  /\ \A keys \in RawEvents :
       keys \in Seq(Range(keys)) /\ \A k \in Range(keys) : Windows[k[1]] \in Nat

VARIABLES
  minute,
  waiting,          \* _pending: address -> sequence of events by time, absent keys missing
  chains,           \* _completed_chains: [id, events]
  identityBuckets,  \* _buckets: key -> sequence of events in order of arrival
  incidents,        \* _incidents: [key, events]
  arrived,          \* history: the events of the builder, [n, src, type, at, when]
  raw               \* history: the events of the stitcher, [n, keys, at, when]

xdrAllVars == <<minute, waiting, chains, identityBuckets, incidents, arrived, raw>>
builderVars == <<waiting, chains, arrived>>
stitcherVars == <<identityBuckets, incidents, raw>>

XdrInit ==
  /\ minute = 0
  /\ waiting = <<>> /\ chains = <<>> /\ arrived = <<>>
  /\ identityBuckets = <<>> /\ incidents = <<>> /\ raw = <<>>

NextMinute ==
  /\ minute < LastMinute
  /\ minute' = minute + 1
  /\ UNCHANGED <<builderVars, stitcherVars>>

(* Events of the last w; time is shifted by MaxLate to stay a natural.     *)
Inside(es, w) == AtPositions(es, {i \in DOMAIN es : es[i].at + w > minute + MaxLate})

ValueOf(f, k) == IF k \in DOMAIN f THEN f[k] ELSE <<>>
Put(f, k, v) == [x \in DOMAIN f \cup {k} |-> IF x = k THEN v ELSE f[x]]

-----------------------------------------------------------------------------
(* list.sort is stable: the event goes behind those of its own time.       *)
PutInOrder(es, e) ==
  LET earlier == {i \in DOMAIN es : es[i].at <= e.at}
  IN  Append(AtPositions(es, earlier), e) \o AtPositions(es, DOMAIN es \ earlier)

PhasesOf(es) == {Phase[x.type] : x \in Range(es)} \ {NoPhase}

(* _try_build_chain: two events, of two phases; the id is the address and  *)
(* the time of the first.  Risk, severity and the summary are left out.    *)
ChainOf(src, es) ==
  IF Len(es) >= 2 /\ Cardinality(PhasesOf(es)) >= 2
    THEN <<[id |-> <<src, es[1].at>>, events |-> es]>>
    ELSE <<>>

(* Mutant: the events of a chain leave once it is built.                   *)
UsedUp(es, chain) == IF chain = <<>> THEN es ELSE <<>>

Staying(es, chain) == es

(* CausalityChainBuilder.add_event: the old events leave, the new one      *)
(* enters however old it is.                                               *)
IngestEvent(src, type, late) ==
  /\ Len(arrived) < MaxEventsIn
  /\ LET e == [n |-> Len(arrived) + 1, src |-> src, type |-> type,
               at |-> minute + MaxLate - late, when |-> minute + MaxLate]
         es == PutInOrder(Inside(ValueOf(waiting, src), ChainWindow), e)
         chain == ChainOf(src, es)
     IN  /\ arrived' = Append(arrived, e)
         /\ waiting' = Put(waiting, src, Staying(es, chain))
         /\ chains' = chains \o chain
  /\ UNCHANGED <<minute, stitcherVars>>

(* clear_old_pending                                                       *)
ClearOldPending ==
  /\ waiting # <<>>
  /\ waiting' = [k \in {k \in DOMAIN waiting : Inside(waiting[k], ChainWindow) # <<>>} |->
                   Inside(waiting[k], ChainWindow)]
  /\ UNCHANGED <<minute, chains, arrived, stitcherVars>>

-----------------------------------------------------------------------------
(* EventStitcher.ingest: an event enters the bucket of each of its keys,   *)
(* and every bucket that has two then is an incident again.  A key that    *)
(* comes twice (source and target are one address) takes the event twice.  *)
Stitched(acc, k, e) ==
  LET es == Append(Inside(ValueOf(acc.buckets, k), Windows[k[1]]), e)
  IN  [buckets |-> Put(acc.buckets, k, es),
       incidents |-> IF Len(es) >= 2 THEN Append(acc.incidents, [key |-> k, events |-> es])
                     ELSE acc.incidents]

Ingest(keys, late) ==
  /\ Len(raw) < MaxEventsIn
  /\ LET e == [n |-> Len(raw) + 1, keys |-> keys,
               at |-> minute + MaxLate - late, when |-> minute + MaxLate]
         all == FoldLeft(LAMBDA acc, k : Stitched(acc, k, e),
                         [buckets |-> identityBuckets, incidents |-> incidents], keys)
     IN  /\ raw' = Append(raw, e)
         /\ identityBuckets' = all.buckets
         /\ incidents' = all.incidents
  /\ UNCHANGED <<minute, builderVars>>

BuilderNext ==
  \/ \E src \in EventSources, type \in DOMAIN Phase, late \in 0..MaxLate : IngestEvent(src, type, late)
  \/ ClearOldPending

StitcherNext == \E keys \in RawEvents, late \in 0..MaxLate : Ingest(keys, late)

XdrNext == NextMinute \/ BuilderNext \/ StitcherNext

XdrSpec == XdrInit /\ [][XdrNext]_xdrAllVars

-----------------------------------------------------------------------------
XdrTypeOK ==
  /\ minute \in 0..LastMinute
  /\ DOMAIN waiting \subseteq EventSources
  /\ \A k \in DOMAIN waiting : \A e \in Range(waiting[k]) : e \in Range(arrived) /\ e.src = k
  /\ \A k \in DOMAIN identityBuckets :
       \A e \in Range(identityBuckets[k]) : e \in Range(raw) /\ k \in Range(e.keys)

Holds(es, a, b) == {a, b} \subseteq Range(es)

(* No attack in two phases is missed: when an event arrives while another  *)
(* of its address and of another phase is in the window, a chain holds     *)
(* both, whatever came or was cleared between them.  A chain is in the     *)
(* order of time, and all of it but the event that completed it was in the *)
(* window then (add_event, clear_old_pending).                             *)
ChainsAreWhole ==
  /\ \A j \in DOMAIN arrived : \A i \in 1..(j - 1) :
       LET a == arrived[i]  b == arrived[j]
       IN  /\ a.src = b.src /\ a.at + ChainWindow > b.when
           /\ Phase[a.type] # Phase[b.type] /\ NoPhase \notin {Phase[a.type], Phase[b.type]}
           => \E c \in Range(chains) : Holds(c.events, a, b)
  /\ \A c \in Range(chains) :
       /\ \A i \in 1..(Len(c.events) - 1) : c.events[i].at <= c.events[i + 1].at
       /\ LET last == CHOOSE e \in Range(c.events) : \A x \in Range(c.events) : x.n <= e.n
          IN  \A e \in Range(c.events) \ {last} : e.at + ChainWindow > last.when

(* Two events that share an identity within its window are in an incident  *)
(* of that identity together (EventStitcher.ingest).                       *)
IncidentsAreWhole ==
  \A j \in DOMAIN raw : \A i \in 1..(j - 1) :
    \A k \in Range(raw[i].keys) \cap Range(raw[j].keys) :
      raw[i].at + Windows[k[1]] > raw[j].when =>
        \E c \in Range(incidents) : c.key = k /\ Holds(c.events, raw[i], raw[j])

XdrSound == XdrTypeOK /\ ChainsAreWhole /\ IncidentsAreWhole
=============================================================================
