------------------------------ MODULE FlowTable ------------------------------
(***************************************************************************)
(* The agent's flow table: agent/src/flow_manager.rs.                      *)
(*                                                                         *)
(* FlowManager is a DashMap from flow hash to FlowRecord plus one atomic   *)
(* counter, active_count, which is what the admission check reads.  The    *)
(* map and the counter are each thread-safe, their combination is not one  *)
(* atomic operation: looking a flow up, reading the counter, inserting     *)
(* the record and incrementing the counter are separate steps of a worker, *)
(* and the background cleanup task removes records one by one and only     *)
(* then subtracts what it removed.  Every one of these steps is an action. *)
(*                                                                         *)
(* Time is the age of a record (now - last_seen, saturating just above the *)
(* idle timeout).  A packet's timestamp may trail the wall clock by up to  *)
(* MaxLag.  active_count is a usize: it is modelled as the integer it      *)
(* stands for, and a negative value is the wrapped image of 2^64 + value,  *)
(* which compares above every max_flows (see Full).                        *)
(***************************************************************************)
EXTENDS Integers, FiniteSets

CONSTANTS
  Flows,        \* flow hashes (keys of the DashMap)
  Workers,      \* threads that call process_packet
  Serves,       \* Serves[w]: the flows whose packets reach worker w
  MaxFlows,     \* FlowConfig.max_flows
  Timeout,      \* FlowConfig.idle_timeout_secs, in ticks
  MaxLag,       \* how far a packet's timestamp may trail the clock
  MirrorEvery   \* every MirrorEvery-th packet of a suspicious flow is mirrored

ASSUME FlowsAssumption   == IsFiniteSet(Flows)
ASSUME WorkersAssumption == IsFiniteSet(Workers) /\ Workers # {}
ASSUME ServesAssumption  == Serves \in [Workers -> SUBSET Flows]
ASSUME BoundsAssumption  ==
  /\ MaxFlows \in Nat \ {0}
  /\ Timeout \in Nat
  /\ MaxLag \in Nat
  /\ MirrorEvery \in Nat \ {0}

VARIABLES
  state,         \* FlowRecord.state of each flow, "Absent" when not in the map
  age,           \* now - last_seen of each flow, 0 when absent
  packets,       \* FlowRecord.stats.packets modulo MirrorEvery
  active_count,  \* the AtomicUsize
  pc,            \* where each worker is inside process_packet
  flow,          \* the flow each worker is handling
  sweeping,      \* whether the cleanup task is inside its sweep
  unvisited,     \* the keys flows.retain has not reached yet
  removed        \* the cleanup task's local counter

table == <<state, age, packets>>
worker == <<pc, flow>>
cleaner == <<sweeping, unvisited, removed>>
vars == <<state, age, packets, active_count, pc, flow, sweeping, unvisited, removed>>

-----------------------------------------------------------------------------
(* FlowState::Terminated exists in the enum, but nothing assigns it.       *)
Undecided == {"New", "Analyzing"}
Decided == {"Allowed", "Blocked", "Suspicious"}
FlowState == Undecided \cup Decided
Decision == {"Allow", "Block", "Throttle", "Mirror", "Redirect"}

AgeCap == Timeout + 1
Present == {f \in Flows : state[f] # "Absent"}
At(step) == {w \in Workers : pc[w] = step}

(* Mutant: the admission test lets one flow too many in.                   *)
FullLate(count) == count > MaxFlows

(* The admission test count >= max_flows, on the unsigned image of count.  *)
Full(count) == count < 0 \/ count >= MaxFlows

(* Mutant: the sampling test never holds.                                  *)
NeverSamples(s, n) == IF s = "Blocked" THEN "Block" ELSE "Allow"

(* What process_packet returns for a known flow, n its packet count.       *)
Verdict(s, n) ==
  CASE s = "Blocked" -> "Block"
    [] s = "Suspicious" /\ n = 0 -> "Mirror"
    [] OTHER -> "Allow"

(* The state that apply_decision stores for a decision.                    *)
StateFor(d) ==
  CASE d = "Allow" -> "Allowed"
    [] d = "Block" -> "Blocked"
    [] OTHER -> "Suspicious"

Init ==
  /\ state = [f \in Flows |-> "Absent"]
  /\ age = [f \in Flows |-> 0]
  /\ packets = [f \in Flows |-> 0]
  /\ active_count = 0
  /\ pc = [w \in Workers |-> "idle"]
  /\ flow \in [Workers -> Flows]
  /\ sweeping = FALSE
  /\ unvisited = {}
  /\ removed = 0

-----------------------------------------------------------------------------
(* process_packet, step by step.                                           *)

AgeOf(lag) == IF lag > AgeCap THEN AgeCap ELSE lag

(* get_mut finds the flow: the whole fast path runs under its shard lock.  *)
Hit(w, f) ==
  /\ pc[w] = "idle"
  /\ f \in Serves[w]
  /\ state[f] # "Absent"
  /\ packets' = [packets EXCEPT ![f] = (@ + 1) % MirrorEvery]
  /\ \E lag \in 0..MaxLag : age' = [age EXCEPT ![f] = AgeOf(lag)]
  /\ UNCHANGED <<state, active_count, pc, flow, sweeping, unvisited, removed>>

(* Mutant: every packet takes the slow path.                               *)
AlwaysMiss(w, f) ==
  /\ pc[w] = "idle"
  /\ f \in Serves[w]
  /\ pc' = [pc EXCEPT ![w] = "missed"]
  /\ flow' = [flow EXCEPT ![w] = f]
  /\ UNCHANGED <<state, age, packets, active_count, sweeping, unvisited, removed>>

(* get_mut finds nothing: the worker goes on to handle_new_flow.           *)
Miss(w, f) ==
  /\ pc[w] = "idle"
  /\ f \in Serves[w]
  /\ state[f] = "Absent"
  /\ pc' = [pc EXCEPT ![w] = "missed"]
  /\ flow' = [flow EXCEPT ![w] = f]
  /\ UNCHANGED <<state, age, packets, active_count, sweeping, unvisited, removed>>

(* active_count.load: below the maximum, the flow will be inserted.        *)
AdmitFlow(w) ==
  /\ pc[w] = "missed"
  /\ ~Full(active_count)
  /\ pc' = [pc EXCEPT ![w] = "admitted"]
  /\ UNCHANGED <<state, age, packets, active_count, flow, sweeping, unvisited, removed>>

(* Mutant: a refused packet is counted all the same.                       *)
RefuseAndCount(w) ==
  /\ pc[w] = "missed"
  /\ Full(active_count)
  /\ pc' = [pc EXCEPT ![w] = "idle"]
  /\ active_count' = active_count + 1
  /\ UNCHANGED <<state, age, packets, flow, sweeping, unvisited, removed>>

(* active_count.load: "Flow table full", the packet is answered Block.     *)
RefuseFlow(w) ==
  /\ pc[w] = "missed"
  /\ Full(active_count)
  /\ pc' = [pc EXCEPT ![w] = "idle"]
  /\ UNCHANGED <<state, age, packets, active_count, flow, sweeping, unvisited, removed>>

(* flows.insert: replaces whatever record another worker has put there.    *)
InsertFlow(w) ==
  LET f == flow[w] IN
  /\ pc[w] = "admitted"
  /\ \E s \in Undecided : state' = [state EXCEPT ![f] = s]
  /\ \E lag \in 0..MaxLag : age' = [age EXCEPT ![f] = AgeOf(lag)]
  /\ packets' = [packets EXCEPT ![f] = 1 % MirrorEvery]
  /\ pc' = [pc EXCEPT ![w] = "inserted"]
  /\ UNCHANGED <<active_count, flow, sweeping, unvisited, removed>>

(* Mutant: the inserted flow is not counted.                               *)
ForgetCount(w) ==
  /\ pc[w] = "inserted"
  /\ pc' = [pc EXCEPT ![w] = "idle"]
  /\ UNCHANGED <<state, age, packets, active_count, flow, sweeping, unvisited, removed>>

(* active_count.fetch_add(1): the packet is answered Allow.                *)
CountFlow(w) ==
  /\ pc[w] = "inserted"
  /\ active_count' = active_count + 1
  /\ pc' = [pc EXCEPT ![w] = "idle"]
  /\ UNCHANGED <<state, age, packets, flow, sweeping, unvisited, removed>>

-----------------------------------------------------------------------------
(* apply_decision: silently nothing when the flow is no longer there.      *)
ApplyDecision(f, d) ==
  /\ state[f] # "Absent"
  /\ state' = [state EXCEPT ![f] = StateFor(d)]
  /\ UNCHANGED <<age, packets, active_count, pc, flow, sweeping, unvisited, removed>>

-----------------------------------------------------------------------------
(* cleanup_loop: one tick of its interval, the retain, the fetch_sub.      *)

StartSweep ==
  /\ ~sweeping
  /\ sweeping' = TRUE
  /\ unvisited' = Flows
  /\ removed' = 0
  /\ UNCHANGED <<state, age, packets, active_count, pc, flow>>

Expired(f) == state[f] # "Absent" /\ age[f] > Timeout

RemoveExpired(f) ==
  /\ sweeping
  /\ f \in unvisited
  /\ Expired(f)
  /\ state' = [state EXCEPT ![f] = "Absent"]
  /\ age' = [age EXCEPT ![f] = 0]
  /\ packets' = [packets EXCEPT ![f] = 0]
  /\ removed' = removed + 1
  /\ unvisited' = unvisited \ {f}
  /\ UNCHANGED <<active_count, pc, flow, sweeping>>

(* Mutant: the sweep may keep a record that has expired.                   *)
RetainAny(f) ==
  /\ sweeping
  /\ f \in unvisited
  /\ unvisited' = unvisited \ {f}
  /\ UNCHANGED <<state, age, packets, active_count, pc, flow, sweeping, removed>>

RetainFlow(f) ==
  /\ sweeping
  /\ f \in unvisited
  /\ ~Expired(f)
  /\ unvisited' = unvisited \ {f}
  /\ UNCHANGED <<state, age, packets, active_count, pc, flow, sweeping, removed>>

EndSweep ==
  /\ sweeping
  /\ unvisited = {}
  /\ sweeping' = FALSE
  /\ active_count' = active_count - removed
  /\ removed' = 0
  /\ UNCHANGED <<state, age, packets, pc, flow, unvisited>>

(* Time passes.  A sweep is far shorter than a tick and reads the clock    *)
(* once, before it starts, so no tick falls inside one; ticks do fall      *)
(* between the steps of a worker, which the scheduler may delay.           *)
Tick ==
  /\ ~sweeping
  /\ age' = [f \in Flows |-> IF state[f] = "Absent" THEN 0
                             ELSE AgeOf(age[f] + 1)]
  /\ UNCHANGED <<state, packets, active_count, pc, flow, sweeping, unvisited, removed>>

-----------------------------------------------------------------------------
Packet(w) ==
  \/ \E f \in Flows : Hit(w, f) \/ Miss(w, f)
  \/ AdmitFlow(w) \/ RefuseFlow(w) \/ InsertFlow(w) \/ CountFlow(w)

Sweep ==
  \/ StartSweep
  \/ \E f \in Flows : RemoveExpired(f) \/ RetainFlow(f)
  \/ EndSweep

Next ==
  \/ \E w \in Workers : Packet(w)
  \/ \E f \in Flows, d \in Decision : ApplyDecision(f, d)
  \/ Sweep
  \/ Tick

Spec == Init /\ [][Next]_vars

(* The interval timer re-arms forever and retain visits every key, so the  *)
(* cleanup task always takes its next step.  Nothing makes packets or      *)
(* decisions arrive.                                                       *)
FairSpec == Spec /\ WF_vars(Sweep)

-----------------------------------------------------------------------------
(* The variables keep their types; absent flows have no age and no count.  *)
TypeOK ==
  /\ state \in [Flows -> FlowState \cup {"Absent"}]
  /\ age \in [Flows -> 0..AgeCap]
  /\ packets \in [Flows -> 0..(MirrorEvery - 1)]
  /\ active_count \in Int
  /\ pc \in [Workers -> {"idle", "missed", "admitted", "inserted"}]
  /\ flow \in [Workers -> Flows]
  /\ sweeping \in BOOLEAN
  /\ unvisited \in SUBSET Flows
  /\ removed \in Nat

(* However the steps of workers and cleanup interleave, the counter never  *)
(* falls below the table: what it lacks is exactly explained by insertions *)
(* whose fetch_add is still to come and removals not yet subtracted.       *)
CountCoversTable ==
  Cardinality(Present) + removed <= active_count + Cardinality(At("inserted"))

(* Of a run: the types hold, and the counter covers the table.             *)
CounterSound == TypeOK /\ CountCoversTable

(* The check-then-insert of handle_new_flow can overshoot max_flows, but   *)
(* by no more than one flow for every other worker.                        *)
TableBounded ==
  Cardinality(Present) <= MaxFlows + Cardinality(Workers) - 1

(* The inductive invariant behind the two: between sweeps nothing is       *)
(* waiting to be subtracted, and every worker that passed the admission    *)
(* check is already charged to the bound before it inserts.                *)
IInv ==
  /\ TypeOK
  /\ ~sweeping => removed = 0
  /\ CountCoversTable
  /\ Cardinality(Present) + Cardinality(At("admitted"))
       <= MaxFlows + Cardinality(Workers) - 1

(* RSS: no flow reaches two workers.                                       *)
Affinity == \A v, w \in Workers : v # w => Serves[v] \cap Serves[w] = {}

(* With flow affinity the counter is exact up to the steps in flight:      *)
(* no insertion replaced a record that was already counted.                *)
CountExact ==
  Affinity =>
    Cardinality(Present) + removed = active_count + Cardinality(At("inserted"))

(* With flow affinity a verdict that apply_decision has stored stays until *)
(* another decision or the removal of the flow: no packet brings the flow  *)
(* back to New or Analyzing.                                               *)
VerdictKept ==
  [][Affinity => \A f \in Flows : state[f] \in Decided => state'[f] \notin Undecided]_vars

(* The inductive invariant behind these two: while a worker is between its *)
(* miss and its insertion, nobody else can have inserted that flow.        *)
AffineInv ==
  /\ \A w \in Workers : pc[w] # "idle" => flow[w] \in Serves[w]
  /\ Affinity => \A w \in At("missed") \cup At("admitted") : state[flow[w]] = "Absent"
  /\ CountExact

(* A record idle for longer than the timeout is removed, or traffic        *)
(* refreshed it: the sweep cannot starve behind the workers.               *)
IdleReclaimed ==
  \A f \in Flows : Expired(f) ~> ~Expired(f)

(* A flow that stays suspicious and keeps sending is mirrored again and    *)
(* again for the deeper analysis, whoever handles its packets.             *)
HitOn(f) == \E w \in Workers : Hit(w, f)
Mirrored(f) == HitOn(f) /\ Verdict(state[f], packets'[f]) = "Mirror"
SuspiciousSampled ==
  \A f \in Flows :
    (<>[](state[f] = "Suspicious") /\ []<><<HitOn(f)>>_vars) => []<><<Mirrored(f)>>_vars

-----------------------------------------------------------------------------
(* What the source says and the code does not keep (violation run).        *)

(* flow_manager.rs calls active_count "the number of currently active      *)
(* flows"; with every step finished it should equal the table.             *)
CountIsTableAtRest ==
  (At("inserted") = {} /\ ~sweeping) => active_count = Cardinality(Present)
=============================================================================
