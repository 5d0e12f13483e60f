------------------------------ MODULE EntityRisk ------------------------------
(***************************************************************************)
(* The two engines that add up risk per entity: RiskEngine                 *)
(* (control-plane/src/xdr/risk_engine.py, routes/xdr.py) and               *)
(* EntityRiskScorer (ml/ueba/entity_scoring.py, routes/ueba.py).           *)
(*                                                                         *)
(* Both halve a score with every half life.  Time is counted in half       *)
(* lives; scores are the integers of the code, so a score is cut after it  *)
(* is halved.  No handler awaits while it holds state, so each is a step.  *)
(***************************************************************************)
EXTENDS Integers, Sequences, SequencesExt, FiniteSets, FiniteSetsExt, Functions, Ordering

CONSTANTS
  Entities,
  RiskEvents,     \* the pairs <<event type, score_delta>> posted to RiskEngine
  TypeCap,        \* MAX_RISK_PER_EVENT_TYPE = 50
  AlertAt,        \* ALERT_THRESHOLD = 75
  CriticalAt,     \* CRITICAL_THRESHOLD = 150
  HighAt,         \* 100
  Day,            \* 24 half lives
  Anomalies,      \* anomaly type -> ANOMALY_SCORE_MAP
  EntityTypes,
  MaxScore,       \* MAX_SCORE = 200
  Week,           \* 168 half lives
  MaxEvents,      \* 500 events kept in a profile
  TopN,           \* 50 entities listed
  LastScoreHour,  \* bounds of this model: the last half life,
  MaxPosts        \* and the events posted

ASSUME RiskAssumption ==
  /\ IsFiniteSet(Entities) /\ "user" \in EntityTypes
  /\ TypeCap <= AlertAt /\ AlertAt <= HighAt /\ HighAt <= CriticalAt
  /\ TypeCap \in Nat /\ AlertAt \in Nat /\ MaxScore \in Nat
  /\ Day \in Nat /\ Week \in Nat /\ MaxEvents \in Nat /\ TopN \in Nat
  /\ LastScoreHour \in Nat /\ MaxPosts \in Nat
  /\ \A x \in RiskEvents : x[2] \in Int
  /\ \A a \in DOMAIN Anomalies : Anomalies[a] \in Nat

VARIABLES
  hour,
  posts,      \* events posted so far
  risk,       \* _risk_history: entity -> sequence of [at, delta, type]
  pending,    \* _pending_alerts: a sequence of [id, entity, score, severity]
  drained,    \* history: the ids handed over by drain_alerts
  raised,     \* history: alerts raised so far
  profiles,   \* _profiles: entity -> [type, score, peak, alerts, kept], absent ones missing
  marks,      \* _history: entity -> sequence of [at, delta]
  since,      \* history: entity -> sum of the deltas since its last reset
  alertList,  \* the answer of get_active_alerts just given, {} once something moved
  verbose     \* INFO is logged (python -m src.main), or not (uvicorn src.main:app)

riskVars == <<hour, posts, risk, pending, drained, raised, profiles, marks, since, alertList, verbose>>
xdrVars == <<risk, pending, drained, raised>>
uebaVars == <<profiles, marks, since, alertList, verbose>>

(* Powers of two, up to the last half life.                                *)
TwoTo[n \in 0..LastScoreHour] == IF n = 0 THEN 1 ELSE 2 * TwoTo[n - 1]

-----------------------------------------------------------------------------
RiskInit ==
  /\ hour = 0 /\ posts = 0
  /\ risk = [e \in Entities |-> <<>>]
  /\ pending = <<>> /\ drained = <<>> /\ raised = 0
  /\ profiles = <<>>
  /\ marks = [e \in Entities |-> <<>>]
  /\ since = [e \in Entities |-> 0]
  /\ alertList = {} /\ verbose \in BOOLEAN

NextHour ==
  /\ hour < LastScoreHour
  /\ hour' = hour + 1
  /\ alertList' = {}
  /\ UNCHANGED <<posts, xdrVars, profiles, marks, since, verbose>>

(* int() cuts towards zero: nothing keeps a posted score_delta from being  *)
(* negative.                                                               *)
Halved(delta, age) ==
  IF delta >= 0 THEN delta \div TwoTo[age] ELSE - ((- delta) \div TwoTo[age])

(* _calculate_score: a type that has reached the cap adds nothing more;    *)
(* the event that takes it there adds all of its points.                   *)
Scored(h) ==
  LET add(acc, x) ==
        IF acc.types[x.type] < TypeCap
          THEN LET c == Halved(x.delta, hour - x.at)
               IN  [types |-> [acc.types EXCEPT ![x.type] = @ + c], total |-> acc.total + c]
          ELSE acc
  IN  FoldLeft(add, [types |-> [t \in {x.type : x \in Range(h)} |-> 0], total |-> 0], h).total

Severity(score) == IF score >= CriticalAt THEN "critical"
                   ELSE IF score >= HighAt THEN "high" ELSE "medium"

(* add_event: the points of one event are capped, events of another day    *)
(* leave, and every event that finds the entity at the threshold raises an *)
(* alert of its own.                                                       *)
AddRisk(e, type, delta) ==
  /\ posts < MaxPosts /\ posts' = posts + 1
  /\ LET all == Append(risk[e], [at |-> hour, delta |-> Min({delta, TypeCap}), type |-> type])
         h == AtPositions(all, {i \in DOMAIN all : hour - all[i].at < Day})
         score == Scored(h)
     IN  /\ risk' = [risk EXCEPT ![e] = h]
         /\ IF score >= AlertAt
              THEN /\ raised' = raised + 1
                   /\ pending' = Append(pending, [id |-> raised + 1, entity |-> e, score |-> score,
                                                  severity |-> Severity(score)])
              ELSE UNCHANGED <<raised, pending>>
  /\ UNCHANGED <<hour, drained, uebaVars>>

(* Mutant: the alerts are handed over and kept.                            *)
KeptAfterDrain == pending

LeftAfterDrain == <<>>

AlertIds(alerts) == [i \in DOMAIN alerts |-> alerts[i].id]

(* drain_alerts: copy and clear under the lock.                            *)
DrainAlerts ==
  /\ pending # <<>>
  /\ drained' = drained \o AlertIds(pending)
  /\ pending' = LeftAfterDrain
  /\ UNCHANGED <<hour, posts, risk, raised, uebaVars>>

-----------------------------------------------------------------------------
(* _compute_current_score: all of the history counts, then events of       *)
(* another week are trimmed.  Scaled so that only the sum is cut.          *)
Points(h, now) == [i \in DOMAIN h |-> h[i].delta * TwoTo[LastScoreHour - (now - h[i].at)]]

ScoreAt(h, now) == Min({SumFunction(Points(h, now)) \div TwoTo[LastScoreHour], MaxScore})

Score(h) == ScoreAt(h, hour)

Trimmed(h) == AtPositions(h, {i \in DOMAIN h : hour - h[i].at < Week})

IsAlert(p) == p.score >= AlertAt

(* add_ueba_event, EntityRiskScorer.add_event: a new profile is that of a  *)
(* user until the event is in, then takes the type of the last event.  The *)
(* log call of an alert has keywords that logging refuses: where INFO is   *)
(* logged the event is in, but the caller gets an error and the type stays. *)
AddAnomaly(e, type, anomaly) ==
  /\ posts < MaxPosts /\ posts' = posts + 1
  /\ LET h == Append(marks[e], [at |-> hour, delta |-> Anomalies[anomaly]])
         old == IF e \in DOMAIN profiles THEN profiles[e]
                ELSE [type |-> "user", score |-> 0, peak |-> 0, alerts |-> 0, kept |-> 0]
         score == Score(h)
         new == [old EXCEPT !.type = IF verbose /\ score >= AlertAt THEN @ ELSE type,
                            !.score = score, !.peak = Max({@, score}),
                            !.alerts = IF score >= AlertAt THEN @ + 1 ELSE @,
                            !.kept = Min({@ + 1, MaxEvents})]
     IN  /\ profiles' = [x \in DOMAIN profiles \cup {e} |-> IF x = e THEN new ELSE profiles[x]]
         /\ marks' = [marks EXCEPT ![e] = Trimmed(h)]
         /\ since' = [since EXCEPT ![e] = @ + Anomalies[anomaly]]
  /\ alertList' = {}
  /\ UNCHANGED <<hour, xdrVars, verbose>>

(* Every read brings the scores of the profiles it looks at up to date.    *)
Refreshed(es) ==
  /\ profiles' = [e \in DOMAIN profiles |->
                    IF e \in es THEN [profiles[e] EXCEPT !.score = Score(marks[e])] ELSE profiles[e]]
  /\ marks' = [e \in Entities |-> IF e \in es THEN Trimmed(marks[e]) ELSE marks[e]]

(* GET /entities/{entity_id}                                               *)
GetProfile(e) ==
  /\ e \in DOMAIN profiles
  /\ Refreshed({e})
  /\ alertList' = {}
  /\ UNCHANGED <<hour, posts, xdrVars, since, verbose>>

(* Mutant: the entities come in the order they were made.                  *)
TopsUnsorted(es, n) == kSubset(Min({n, Cardinality(es)}), es)

(* Entities of one score come in any order.                                *)
Tops(es, n) ==
  {top \in kSubset(Min({n, Cardinality(es)}), es) :
     \A a \in top, b \in es \ top : Score(marks[a]) >= Score(marks[b])}

(* GET /entities?entity_type                                               *)
GetTopEntities(type) ==
  /\ Refreshed({e \in DOMAIN profiles : profiles[e].type = type})
  /\ alertList' = {}
  /\ UNCHANGED <<hour, posts, xdrVars, since, verbose>>

AlertsAmong(top) == {e \in top : Score(marks[e]) >= AlertAt}

(* get_active_alerts looks at the first TopN only.                         *)
GetActiveAlerts ==
  /\ Refreshed(DOMAIN profiles)
  /\ \E top \in Tops(DOMAIN profiles, TopN) : alertList' = AlertsAmong(top)
  /\ UNCHANGED <<hour, posts, xdrVars, since, verbose>>

(* acknowledge_alert only logs.                                            *)
Acknowledge(e) ==
  /\ e \in DOMAIN profiles
  /\ UNCHANGED riskVars

(* reset_entity: peak, alerts and the events of the profile stay.          *)
ResetEntity(e) ==
  /\ e \in DOMAIN profiles
  /\ profiles' = [profiles EXCEPT ![e].score = 0]
  /\ marks' = [marks EXCEPT ![e] = <<>>]
  /\ since' = [since EXCEPT ![e] = 0]
  /\ alertList' = {}
  /\ UNCHANGED <<hour, posts, xdrVars, verbose>>

EngineNext ==
  \/ \E e \in Entities, x \in RiskEvents : AddRisk(e, x[1], x[2])
  \/ DrainAlerts

ScorerNext ==
  \/ \E e \in Entities, t \in EntityTypes, a \in DOMAIN Anomalies : AddAnomaly(e, t, a)
  \/ \E e \in Entities : GetProfile(e) \/ Acknowledge(e) \/ ResetEntity(e)
  \/ \E t \in EntityTypes : GetTopEntities(t)
  \/ GetActiveAlerts

RiskNext == NextHour \/ EngineNext \/ ScorerNext

RiskSpec == RiskInit /\ [][RiskNext]_riskVars

-----------------------------------------------------------------------------
RiskTypeOK ==
  /\ hour \in 0..LastScoreHour /\ posts \in 0..MaxPosts
  /\ DOMAIN profiles \subseteq Entities /\ alertList \subseteq DOMAIN profiles
  /\ \A e \in DOMAIN profiles : profiles[e].score \in 0..MaxScore /\ profiles[e].type \in EntityTypes

(* Every alert that was raised is waiting or was handed over, once and in  *)
(* the order it was raised (drain_alerts), and one type of event has at    *)
(* most twice the cap in a score (_calculate_score).                       *)
AlertsHandedOverOnce ==
  /\ drained \o AlertIds(pending) = [n \in 1..raised |-> n]
  /\ \A e \in Entities :
       Scored(risk[e]) < 2 * TypeCap * Cardinality({x.type : x \in Range(risk[e])}) + 1

(* The list of alerts holds just the entities whose score is at the        *)
(* threshold at that moment, all of them unless TopN others score as much; *)
(* a score never counts what was added before the last reset and never     *)
(* exceeds the peak (get_active_alerts, reset_entity).                     *)
ScoresAreCurrent ==
  /\ \A e \in DOMAIN profiles : /\ profiles[e].score <= profiles[e].peak
                                /\ profiles[e].score <= since[e]
                                /\ Score(marks[e]) <= profiles[e].score
  /\ \A e \in alertList : IsAlert(profiles[e])

RiskSound == RiskTypeOK /\ AlertsHandedOverOnce /\ ScoresAreCurrent

(* Every entity whose score is at the threshold is in the answer, unless   *)
(* TopN entities score at least as much (get_active_alerts).               *)
AlertsAreListed ==
  [][GetActiveAlerts =>
       \A e \in DOMAIN profiles :
         Score(marks[e]) >= AlertAt =>
           \/ e \in alertList'
           \/ Cardinality({x \in DOMAIN profiles \ {e} : Score(marks[x]) >= Score(marks[e])})
                >= TopN]_riskVars
=============================================================================
