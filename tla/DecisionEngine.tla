--------------------------- MODULE DecisionEngine ---------------------------
(***************************************************************************)
(* The brain: ml/brain/decision_engine.py with its behavioural analyser,   *)
(* threat correlator and zero-day detector.                                *)
(*                                                                         *)
(* A risk is its log-odds in tenths: 0.0 and 1.0, which the fusion clips   *)
(* to 1e-9 and 1 - 1e-9, are -207 and 207.  decide() lets others run at    *)
(* the gather of the four scores and while the explainer writes.           *)
(***************************************************************************)
EXTENDS Naturals, Integers, Sequences, FiniteSets, SequencesExt, FiniteSetsExt, Ordering

CONSTANTS
  Calls,           \* 1..n: calls of decide(), in the order they are made
  FlowIds,         \* flow keys
  Requests,        \* <<flow, require_explain>>
  Src(_), Dst(_),  \* addresses of a flow
  Pattern(_),      \* what its features look like: a threat type, or "none"
  Signs(_),        \* those that _heuristic_risk() finds in it
  MarlRisks, BehaviorRisks, ZeroDayRisks,  \* log-odds they may report, given data
  HorizonOf,       \* bound of this model: the clock
  TtlClean, TtlThreat,  \* _cache_ttl, and the ttl of HIGH and above
  MinSamples, MaxEntities, KeepEntities, EvictEvery,   \* BehavioralAnalyzer
  Warmup, ForestAt, WindowSize,                        \* ZeroDayDetector
  MinEvents, MaxChains, ChainWindow, ActiveFor         \* ThreatCorrelator

(* Flows are asked about, times are natural numbers, and bayesian_fusion() *)
(* clips every risk it is given.                                           *)
ASSUME BrainAssumption ==
  /\ Requests \subseteq FlowIds \X BOOLEAN
  /\ MarlRisks \cup BehaviorRisks \cup ZeroDayRisks \subseteq -207..207
  /\ HorizonOf \in Nat /\ TtlClean \in Nat /\ TtlThreat \in Nat
  /\ WindowSize \in Nat

VARIABLES
  now,        \* time
  call,       \* call[c]: a call of decide()
  cache,      \* _cache: set of [flow, level, expires, put]
  profiles,   \* _profiles, least recently used first: [id, n]
  updates,    \* _update_count
  chains,     \* _chains in order of insertion
  hot,        \* _hot_ips
  seen,       \* ZeroDayDetector._n_processed
  window,     \* length of the forest's window
  forest      \* OnlineIsolationForest._trained

brainVars == <<now, call, cache, profiles, updates, chains, hot, seen, window, forest>>

-----------------------------------------------------------------------------
Impossible == -207
Certain == 207
NoCall == [phase |-> "none", flow |-> "none", explain |-> FALSE, risks |-> <<>>,
           level |-> 0, kind |-> "none", age |-> 0]

(* bayesian_fusion(), and the thresholds 0.90, 0.72, 0.45, 0.20.           *)
FinalRisk(r) == r[1] * 15 + r[2] * 12 + r[3] * 10 + r[4] * 8
Level(fused) == Cardinality({t \in {220, 95, -20, -138} : fused >= t})

(* _classify_threat_type(): "c2-comm" needs a behavioural risk above 0.6,  *)
(* "zero-day" a MARL risk below 0.3 and a final risk above 0.5.            *)
ThreatType(f, r) ==
  LET fused == FinalRisk(r)
  IN CASE fused < -138 -> "none"
       [] fused >= -138 /\ Pattern(f) # "none" /\ (Pattern(f) = "c2-comm" => r[2] > 4) -> Pattern(f)
       [] OTHER -> IF r[1] < -8 /\ fused > 0 THEN "zero-day" ELSE "anomaly"

(* ThreatCorrelator: stages of the kill chain and chain_score in percent.  *)
Stage(kind) == CASE kind = "port-scan" -> {0} [] kind = "brute-force" -> {2}
                 [] kind = "c2-comm" -> {5} [] kind = "data-exfil" -> {7}
                 [] kind = "syn-flood" -> {8} [] OTHER -> {}
StageScore == <<5, 10, 20, 30, 40, 55, 70, 85, 95>>
ChainScore(ch) ==
  IF ch.stages = {} THEN 0
  ELSE LET sum == StageScore[Max(ch.stages) + 1]
                    + Min({30, Cardinality(ch.stages) * 7})
                    + Min({15, (Cardinality(ch.targets) - 1) * 3})
       IN Min({100, sum})

(* Log-odds of a percentage, to the precision of the thresholds.           *)
LogOdds(p) == CASE p = 0 -> Impossible [] p \in 1..19 -> -20 [] p \in 20..44 -> -8
                [] p \in 45..71 -> 3 [] p \in 72..89 -> 15 [] p \in 90..99 -> 30
                [] OTHER -> Certain

ChainsOf(s) == {k \in 1..Len(chains) : chains[k].src = s}
IsActive(ch) == now - ch.last < ActiveFor
Recent(ch) == AtPositions(ch.events, {i \in DOMAIN ch.events : ch.events[i] >= now - ChainWindow})
HotNow(s) == s \in hot /\ \E k \in ChainsOf(s) : IsActive(chains[k])

CorrelationRisk(s) ==
  LET ch == chains[CHOOSE k \in ChainsOf(s) : TRUE]
  IN CASE ChainsOf(s) = {} -> Impossible
       [] HotNow(s) -> LogOdds(Min({100, (ChainScore(ch) * 12) \div 10}))
       [] OTHER -> IF Len(Recent(ch)) < MinEvents THEN Impossible ELSE LogOdds(ChainScore(ch))

BrainInit ==
  /\ now = 0
  /\ call = [c \in Calls |-> NoCall]
  /\ cache = {}
  /\ profiles = <<>>
  /\ updates = 0
  /\ chains = <<>>
  /\ hot = {}
  /\ seen = 0
  /\ window = 0
  /\ forest = FALSE

TimePasses ==
  /\ now < HorizonOf
  /\ now' = now + 1
  /\ UNCHANGED <<call, cache, profiles, updates, chains, hot, seen, window, forest>>

Made(c) == call[c].phase # "none"
Entries(f) == {e \in cache : e.flow = f}

(* Mutant: _cache_get() does not look at the time.                         *)
NeverExpires(e) == FALSE

CacheExpired(e) == now > e.expires

(* decide() up to the gather: a hit is the answer, a late entry goes.      *)
Decide(c, f, explain) ==
  /\ ~Made(c)
  /\ \A d \in Calls : d < c => Made(d)
  /\ LET hits == {e \in Entries(f) : ~CacheExpired(e)} IN
       /\ cache' = cache \ {e \in Entries(f) : CacheExpired(e)}
       /\ call' = [call EXCEPT ![c] =
            IF hits = {}
            THEN [NoCall EXCEPT !.phase = "gather", !.flow = f, !.explain = explain]
            ELSE LET e == CHOOSE x \in hits : TRUE
                 IN [NoCall EXCEPT !.phase = "cached", !.flow = e.flow,
                                   !.level = e.level, !.age = now - e.put]]
  /\ UNCHANGED <<now, profiles, updates, chains, hot, seen, window, forest>>

(* _run_marl(): without a checkpoint, or when it raises, the heuristics.   *)
SignWeight == [risky |-> 25, c2port |-> 40, exfil |-> 35, scan |-> 30, syn |-> 45,
               dns |-> 35, entropy |-> 15]
HeuristicRisk(f) == Min({100, MapThenSumSet(LAMBDA g : SignWeight[g], Signs(f))})
MarlScores(f) == MarlRisks \cup {LogOdds(HeuristicRisk(f))}

(* BehavioralAnalyzer: a profile judges when it has enough samples; it     *)
(* learns every flow, and every so often the least recently used ones go.  *)
ProfileOf(s) == {k \in 1..Len(profiles) : profiles[k].id = s}
Samples(s) == SumSet({profiles[k].n : k \in ProfileOf(s)})
BehaviorScores(s) == IF Samples(s) < MinSamples THEN {Impossible} ELSE BehaviorRisks
Learn(s) ==
  LET touched == Append(SelectSeq(profiles, LAMBDA p : p.id # s), [id |-> s, n |-> Samples(s) + 1])
  IN /\ updates' = updates + 1
     /\ profiles' = IF updates' % EvictEvery = 0 /\ Len(touched) > MaxEntities
                    THEN SubSeq(touched, Len(touched) - KeepEntities + 1, Len(touched))
                    ELSE touched

(* ZeroDayDetector: the first samples only train it; the forest is built   *)
(* whenever the window holds a multiple of 256 samples.                    *)
ZeroDayScores == IF seen + 1 < Warmup THEN {Impossible} ELSE ZeroDayRisks
TrainZeroDay ==
  /\ seen' = seen + 1
  /\ window' = Min({WindowSize, window + 1})
  /\ forest' = (forest \/ (window' >= ForestAt /\ window' % ForestAt = 0))

(* The four scores: each sub-engine runs to its end, one after the other.  *)
Score(c) ==
  LET f == call[c].flow
      s == Src(f)
  IN /\ call[c].phase = "gather"
     /\ \E m \in MarlScores(f), b \in BehaviorScores(s), z \in ZeroDayScores :
          call' = [call EXCEPT ![c].phase = "scored",
                               ![c].risks = <<m, b, CorrelationRisk(s), z>>]
     /\ Learn(s)
     /\ TrainZeroDay
     /\ chains' = [k \in DOMAIN chains |->
          IF k \in ChainsOf(s) /\ ~HotNow(s)
          THEN [chains[k] EXCEPT !.events = Recent(chains[k])] ELSE chains[k]]
     /\ UNCHANGED <<now, cache, hot>>

(* _evict_inactive(): the first half of the inactive chains goes.          *)
Evicted ==
  LET inactive == AtPositions(chains, {k \in DOMAIN chains : ~IsActive(chains[k])})
  IN {inactive[k].src : k \in 1..(Len(inactive) \div 2)}

(* ThreatCorrelator.record()                                               *)
Record(f, level, kind) ==
  LET s == Src(f)
      gone == IF ChainsOf(s) = {} /\ Len(chains) >= MaxChains THEN Evicted ELSE {}
      kept == AtPositions(chains, {k \in DOMAIN chains : chains[k].src \notin gone})
      known == IF ChainsOf(s) # {} THEN kept
               ELSE Append(kept, [src |-> s, last |-> now, stages |-> {},
                                  targets |-> {}, events |-> <<>>])
      i == CHOOSE k \in DOMAIN known : known[k].src = s
      ch == [src |-> s, last |-> now, stages |-> known[i].stages \cup Stage(kind),
             targets |-> known[i].targets \cup {Dst(f)}, events |-> Append(known[i].events, now)]
  IN IF level < 1 THEN UNCHANGED <<chains, hot>>
     ELSE /\ chains' = [known EXCEPT ![i] = ch]
          /\ hot' = (hot \ gone) \cup (IF ChainScore(ch) >= 55 THEN {s} ELSE {})

(* _cache_put(): a later answer takes the place of an earlier one.         *)
CachePut(f, level) ==
  cache' = (cache \ Entries(f)) \cup
    {[flow |-> f, level |-> level, put |-> now,
      expires |-> now + (IF level >= 3 THEN TtlThreat ELSE TtlClean)]}

(* The rest of decide(), from the scores on.                               *)
Conclude(c) ==
  LET x == call[c]
      level == Level(FinalRisk(x.risks))
      kind == ThreatType(x.flow, x.risks)
  IN /\ x.phase = "scored"
     /\ IF x.explain /\ level >= 2
        THEN /\ call' = [call EXCEPT ![c].phase = "explain", ![c].level = level, ![c].kind = kind,
                                     ![c].risks = <<>>]
             /\ UNCHANGED <<cache, chains, hot>>
        ELSE /\ call' = [call EXCEPT ![c] = [NoCall EXCEPT !.phase = "decided"]]
             /\ CachePut(x.flow, level)
             /\ Record(x.flow, level, kind)
     /\ UNCHANGED <<now, profiles, updates, seen, window, forest>>

(* The explainer answers, or raises and the fallback text is taken.        *)
Explained(c) ==
  /\ call[c].phase = "explain"
  /\ call' = [call EXCEPT ![c] = [NoCall EXCEPT !.phase = "decided"]]
  /\ CachePut(call[c].flow, call[c].level)
  /\ Record(call[c].flow, call[c].level, call[c].kind)
  /\ UNCHANGED <<now, profiles, updates, seen, window, forest>>

BrainNext ==
  \/ TimePasses
  \/ \E c \in Calls :
       \/ \E r \in Requests : Decide(c, r[1], r[2])
       \/ Score(c)
       \/ Conclude(c)
       \/ Explained(c)

BrainSpec == BrainInit /\ [][BrainNext]_brainVars

-----------------------------------------------------------------------------
(* The variables keep their types.                                         *)
BrainTypeOK ==
  /\ now \in 0..HorizonOf
  /\ \A c \in Calls : call[c].level \in 0..4
  /\ hot \subseteq {Src(f) : f \in FlowIds}
  /\ window \in 0..WindowSize

(* An answer from the cache was put there for the same flow, at most its   *)
(* own time to live ago, however calls overlap.                            *)
ServedFresh ==
  /\ \A c \in Calls : call[c].phase = "cached" =>
       call[c].age <= (IF call[c].level >= 3 THEN TtlThreat ELSE TtlClean)
  /\ \A d, e \in cache : d.flow = e.flow => d = e

(* A hot source has a chain that says why, and a source has one chain.     *)
HotHasChain ==
  /\ \A s \in hot : \E k \in ChainsOf(s) : ChainScore(chains[k]) >= 55
  /\ \A j, k \in DOMAIN chains : chains[j].src = chains[k].src => j = k

(* The risk 0.0 of an engine without data counts as near certainty: a      *)
(* verdict is CLEAN, whatever the others report, unless one of them        *)
(* reports more than 0.98, whose log-odds are above 4.1.                   *)
SilenceOutvotes ==
  \A c \in Calls :
    LET r == call[c].risks
    IN /\ call[c].phase = "scored" /\ Level(FinalRisk(r)) > 0
       /\ Impossible \in ToSet(r)
       => \E x \in ToSet(r) : x > 41

(* What the answers of decide() rest on.                                   *)
VerdictsBacked == ServedFresh /\ HotHasChain /\ SilenceOutvotes

(* Of a run: the types hold, and every answer is backed.                   *)
DecisionsSound == BrainTypeOK /\ VerdictsBacked
=============================================================================
