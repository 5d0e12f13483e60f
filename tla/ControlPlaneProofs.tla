-------------------------- MODULE ControlPlaneProofs --------------------------
(***************************************************************************)
(* Proofs about components of the control plane, one after the other: they *)
(* share no variable, and each theorem is about the specification of one.  *)
(* For each, an inductive invariant whose conjuncts are named for what     *)
(* they say, one lemma per action (or group of actions that change the     *)
(* same variables), and the theorem.                                       *)
(***************************************************************************)
EXTENDS SoarOrchestrator, SoarEngine, EventHub, ThreatIntel, Authorizer, Ingester, CloudCollectors,
        SequenceLemmas

-----------------------------------------------------------------------------
(* SoarOrchestrator.  The stages of a plan share no action, and an action  *)
(* that may raise is alone in its stage: that is why nothing runs any more *)
(* when an execution is persisted.                                         *)
BuiltIn ==
  {"notify_security_team", "isolate_host", "block_ip", "force_logout", "ti_enrich_ip",
   "create_incident_ticket", "schedule_forensics", "EMERGENCY_isolate", "snapshot_volumes",
   "alert_critical_channel", "kill_pid", "disable_vss_deletion", "disable_scheduled_tasks",
   "revoke_smb_shares", "pagerduty_p1", "create_jira_p1", "notify_executives",
   "assess_recovery_options", "revoke_access", "preserve_evidence", "notify_hr_legal",
   "increase_monitoring", "notify_manager", "collect_dlp_evidence", "create_hr_ticket"}

Names == BuiltIn \cup ActionsOf(CustomPlan)

Staging(s) ==
  /\ s \in Seq(SUBSET Names)
  /\ \A i, j \in 1..Len(s) : i # j => s[i] \cap s[j] = {}
  /\ \A i \in 1..Len(s) : \A a \in s[i] \cap Raising : s[i] = {a}

LEMMA ActionsInStages ==
  ASSUME NEW s \in Seq(SUBSET Names)
  PROVE  \A x : x \in ActionsOf(s) <=> \E i \in 1..Len(s) : x \in s[i]
<1>1. ToSet(s) = {s[i] : i \in 1..Len(s)}
  BY ElementsOf
<1> QED
  BY <1>1 DEF ActionsOf

(* What a built-in playbook skips for an alert leaves a staging.           *)
LEMMA StagedIsStaging ==
  ASSUME NEW s \in Seq(SUBSET Names), NEW k \in 1..Len(s), s[k] # {},
         \A i, j \in 1..Len(s) : i # j => s[i] \cap s[j] = {},
         Raising \cap ActionsOf(Staged(s)) = {}
  PROVE  Staging(Staged(s)) /\ Len(Staged(s)) > 0
<1> DEFINE K == {i \in DOMAIN s : s[i] # {}}
           u == Staged(s)
<1>1. PICK l \in Nat : Len(s) = l /\ DOMAIN s = 1..l
  BY LenProperties
<1>2. K \in SUBSET (1..Len(s)) /\ k \in K
  BY <1>1
<1>3. u = AtPositions(s, K)
  BY DEF Staged
<1> HIDE DEF K
<1>4. PICK N \in Nat : N = Cardinality(K)
  BY <1>2, PositionsKept
<1>5. u \in Seq(SUBSET Names) /\ Len(u) = N
  BY <1>2, <1>3, <1>4, PositionsKept
<1>6. PICK p \in [1..N -> K] :
        /\ \A n \in 1..N : u[n] = s[p[n]]
        /\ \A m, n \in 1..N : m < n => p[m] < p[n]
        /\ \A i \in K : \E n \in 1..N : p[n] = i
  BY <1>2, <1>3, <1>4, PositionsKept
<1> HIDE DEF u
<1>7. N > 0
  BY <1>2, <1>6
<1>8. ASSUME NEW m \in 1..N, NEW n \in 1..N, m # n
      PROVE  u[m] \cap u[n] = {}
  <2>1. p[m] \in 1..l /\ p[n] \in 1..l
    BY <1>1, <1>2, <1>6
  <2>2. p[m] # p[n]
    BY <1>6, <1>8, <2>1
  <2> QED
    BY <1>1, <1>6, <2>1, <2>2
<1>9. \A n \in 1..N : u[n] \cap Raising = {}
  BY <1>5, ActionsInStages DEF u
<1> QED
  BY <1>7, <1>8, <1>9, <1>5 DEF Staging, u

LEMMA NoLookup ==
  ASSUME NEW s \in Seq(SUBSET Names)
  PROVE  "lookup_playbook" \notin ActionsOf(s)
<1>1. "lookup_playbook" \notin Names
  BY OrchAssumption DEF Names, BuiltIn
<1>2. \A i \in 1..Len(s) : s[i] \in SUBSET Names
  BY ElementOfSeq
<1> QED
  BY <1>1, <1>2, ActionsInStages

LEMMA PlansAreStagings ==
  ASSUME NEW p \in Playbooks, NEW a \in Alerts
  PROVE  Staging(Plan(p, a)) /\ Len(Plan(p, a)) > 0
<1>1. CASE p = "apt_lateral_movement"
  <2> DEFINE S1 == {"notify_security_team"}
             S2 == Only(a.host, {"isolate_host"}) \cup Only(a.ip, {"block_ip"})
             S3 == Only(a.user, {"force_logout"})
             S4 == Only(a.ip, {"ti_enrich_ip"})
             S5 == {"create_incident_ticket"}
             S6 == {"schedule_forensics"}
             s == <<S1, S2, S3, S4, S5, S6>>
  <2>1. /\ S1 \in SUBSET Names
        /\ S2 \in SUBSET Names
        /\ S3 \in SUBSET Names
        /\ S4 \in SUBSET Names
        /\ S5 \in SUBSET Names
        /\ S6 \in SUBSET Names
    BY DEF Only, Names, BuiltIn
  <2>2. \A i, j \in 1..6 : i # j => s[i] \cap s[j] = {}
    BY DEF Only
  <2>3. Plan(p, a) = Staged(s)
    BY <1>1 DEF Plan, AptPlan
  <2>4. s[1] # {}
    BY DEF Only
  <2> HIDE DEF S1, S2, S3, S4, S5, S6
  <2>5. s \in Seq(SUBSET Names) /\ Len(s) = 6
    BY <2>1
  <2> HIDE DEF s
  <2>6. Raising \cap ActionsOf(Staged(s)) = {}
    BY <1>1, <2>3, OrchAssumption
  <2>7. \A i, j \in 1..Len(s) : i # j => s[i] \cap s[j] = {}
    BY <2>2, <2>5
  <2>8. \E i \in 1..Len(s) : s[i] # {}
    <3>1. 1 \in 1..Len(s)
      BY <2>5
    <3> QED
      BY <2>4, <3>1
  <2>9. Staging(Staged(s)) /\ Len(Staged(s)) > 0
    BY <2>5, <2>6, <2>7, <2>8, StagedIsStaging
  <2> QED
    BY <2>3, <2>9
<1>2. CASE p = "ransomware_detected"
  <2> DEFINE S1 == {"EMERGENCY_isolate", "snapshot_volumes", "alert_critical_channel"}
             S2 == Only(a.pid, {"kill_pid"}) \cup
             {"disable_vss_deletion", "disable_scheduled_tasks", "revoke_smb_shares"}
             S3 == {"pagerduty_p1", "create_jira_p1", "notify_executives"}
             S4 == {"assess_recovery_options"}
             s == <<S1, S2, S3, S4>>
  <2>1. /\ S1 \in SUBSET Names
        /\ S2 \in SUBSET Names
        /\ S3 \in SUBSET Names
        /\ S4 \in SUBSET Names
    BY DEF Only, Names, BuiltIn
  <2>2. \A i, j \in 1..4 : i # j => s[i] \cap s[j] = {}
    BY DEF Only
  <2>3. Plan(p, a) = Staged(s)
    BY <1>2 DEF Plan, RansomwarePlan
  <2>4. s[1] # {}
    BY DEF Only
  <2> HIDE DEF S1, S2, S3, S4
  <2>5. s \in Seq(SUBSET Names) /\ Len(s) = 4
    BY <2>1
  <2> HIDE DEF s
  <2>6. Raising \cap ActionsOf(Staged(s)) = {}
    BY <1>2, <2>3, OrchAssumption
  <2>7. \A i, j \in 1..Len(s) : i # j => s[i] \cap s[j] = {}
    BY <2>2, <2>5
  <2>8. \E i \in 1..Len(s) : s[i] # {}
    <3>1. 1 \in 1..Len(s)
      BY <2>5
    <3> QED
      BY <2>4, <3>1
  <2>9. Staging(Staged(s)) /\ Len(Staged(s)) > 0
    BY <2>5, <2>6, <2>7, <2>8, StagedIsStaging
  <2> QED
    BY <2>3, <2>9
<1>3. CASE p = "insider_threat"
  <2> DEFINE S1 == Only(a.risk = "critical", {"revoke_access", "preserve_evidence", "notify_hr_legal"}) \cup
             Only(a.risk = "high", {"increase_monitoring", "notify_manager"})
             S2 == {"collect_dlp_evidence", "create_hr_ticket"}
             s == <<S1, S2>>
  <2>1. /\ S1 \in SUBSET Names
        /\ S2 \in SUBSET Names
    BY DEF Only, Names, BuiltIn
  <2>2. \A i, j \in 1..2 : i # j => s[i] \cap s[j] = {}
    BY DEF Only
  <2>3. Plan(p, a) = Staged(s)
    BY <1>3 DEF Plan, InsiderPlan
  <2>4. s[2] # {}
    BY DEF Only
  <2> HIDE DEF S1, S2
  <2>5. s \in Seq(SUBSET Names) /\ Len(s) = 2
    BY <2>1
  <2> HIDE DEF s
  <2>6. Raising \cap ActionsOf(Staged(s)) = {}
    BY <1>3, <2>3, OrchAssumption
  <2>7. \A i, j \in 1..Len(s) : i # j => s[i] \cap s[j] = {}
    BY <2>2, <2>5
  <2>8. \E i \in 1..Len(s) : s[i] # {}
    <3>1. 2 \in 1..Len(s)
      BY <2>5
    <3> QED
      BY <2>4, <3>1
  <2>9. Staging(Staged(s)) /\ Len(Staged(s)) > 0
    BY <2>5, <2>6, <2>7, <2>8, StagedIsStaging
  <2> QED
    BY <2>3, <2>9
<1>4. CASE p = "custom"
  <2>1. Plan(p, a) = CustomPlan
    BY <1>4 DEF Plan
  <2>2. CustomPlan \in Seq(ToSet(CustomPlan)) /\ CustomPlan # <<>>
    BY OrchAssumption
  <2>3. PICK l \in Nat : Len(CustomPlan) = l /\ l > 0
    BY <2>2, EmptySeq, LenProperties
  <2>4. ToSet(CustomPlan) \in SUBSET SUBSET Names
    BY DEF Names, ActionsOf
  <2>5. CustomPlan \in Seq(SUBSET Names)
    BY <2>2, <2>4
  <2>6. \A i \in 1..l : \E x \in CustomPlan[i] : CustomPlan[i] = {x}
    BY <2>3, OrchAssumption
  <2>7. \A i, j \in 1..l : i # j => CustomPlan[i] # CustomPlan[j]
    BY <2>3, OrchAssumption
  <2>8. \A i \in 1..l : \A x \in CustomPlan[i] : CustomPlan[i] = {x}
    BY <2>6
  <2>9. ASSUME NEW i \in 1..l, NEW j \in 1..l, i # j
        PROVE  CustomPlan[i] \cap CustomPlan[j] = {}
    <3>1. SUFFICES ASSUME NEW x \in CustomPlan[i], x \in CustomPlan[j]
                   PROVE  FALSE
      OBVIOUS
    <3>2. CustomPlan[i] = {x} /\ CustomPlan[j] = {x}
      BY <2>8, <3>1
    <3> QED
      BY <2>7, <2>9, <3>2
  <2> QED
    BY <2>1, <2>3, <2>5, <2>8, <2>9 DEF Staging
<1> QED
  BY <1>1, <1>2, <1>3, <1>4 DEF Playbooks

-----------------------------------------------------------------------------
Results == {"none", "running", "success", "failed"}
Finished == {"success", "partial", "failed"}

(* No playbook was found for e.                                            *)
Unplanned(e) ==
  /\ acts[e] \in [{"lookup_playbook"} -> {"failed"}]
  /\ plan[e] = <<>> /\ at[e] = 0
  /\ phase[e] = "over" /\ status[e] = "failed" /\ row[e] = NoRow

(* Only a playbook added by register() has actions that may raise late.    *)
PlanOK(e) == plan[e] = CustomPlan \/ Raising \cap ActionsOf(plan[e]) = {}

(* Where e stands, by its phase.                                           *)
PhaseOK(e) ==
  /\ phase[e] = "none" => plan[e] = <<>> /\ at[e] = 0
  /\ phase[e] = "created" => Len(plan[e]) > 0 /\ at[e] = 0
  /\ phase[e] = "running" => at[e] > 0
  /\ phase[e] \in {"none", "created"} => status[e] = "pending"
  /\ phase[e] = "running" => status[e] = "running"
  /\ phase[e] \in {"persisting", "announcing"} =>
       status[e] \in Finished /\ Recorded(e, "running") = {}
  /\ phase[e] \in {"none", "created", "running", "persisting"} => row[e] = NoRow

OutcomeOK(e) ==
  /\ StagesInOrder(e)
  /\ status[e] = "success" => Recorded(e, "success") = ActionsOf(plan[e])
  /\ status[e] = "partial" =>
       /\ Recorded(e, "failed") # {}
       /\ Recorded(e, "failed") \cup Recorded(e, "success") = ActionsOf(plan[e])
  /\ status[e] = "failed" <=> e \in aborted \/ "lookup_playbook" \in Recorded(e, "failed")
  /\ status[e] = "failed" /\ at[e] > 0 => plan[e] = CustomPlan
  /\ row[e] # NoRow => row[e] = status[e] /\ Recorded(e, "running") = {}

ExecutionOK(e) ==
  /\ Staging(plan[e]) /\ at[e] \in 0..Len(plan[e])
  /\ acts[e] \in [ActionsOf(plan[e]) -> Results] \/ Unplanned(e)
  /\ at[e] > 0 => \A x \in plan[e][at[e]] : acts[e][x] # "none"
  /\ PlanOK(e) /\ PhaseOK(e) /\ OutcomeOK(e)

OrchTypes ==
  /\ plan = [e \in Executions |-> plan[e]]
  /\ at = [e \in Executions |-> at[e]]
  /\ acts = [e \in Executions |-> acts[e]]
  /\ phase \in [Executions -> {"none", "created", "running", "persisting", "announcing", "over"}]
  /\ status \in [Executions -> {"pending", "running", "success", "partial", "failed"}]
  /\ row \in [Executions -> {"success", "partial", "failed", NoRow}]
  /\ announced \subseteq Executions
  /\ aborted \subseteq Executions
  /\ serving \in BOOLEAN

OrchInv == OrchTypes /\ \A e \in Executions : ExecutionOK(e)

LEMMA OrchInvReports == OrchInv => OutcomeIsReal
<1> SUFFICES ASSUME OrchInv
             PROVE  OutcomeIsReal
  OBVIOUS
<1>1. ASSUME NEW e \in Executions, NEW x \in DOMAIN acts[e]
      PROVE  acts[e][x] \in Results
  BY DEF OrchInv, ExecutionOK, Unplanned, Results
<1>2. OrchTypeOK
  BY <1>1 DEF OrchInv, OrchTypes, OrchTypeOK, ExecutionOK, Results
<1> QED
  BY <1>2 DEF OrchInv, ExecutionOK, OutcomeOK, OutcomeIsReal

(* A step that leaves e alone leaves what is true of it.                   *)
Same(e) ==
  /\ plan'[e] = plan[e] /\ phase'[e] = phase[e] /\ at'[e] = at[e]
  /\ acts'[e] = acts[e] /\ status'[e] = status[e] /\ row'[e] = row[e]
  /\ e \in aborted' <=> e \in aborted

LEMMA SameExecution ==
  ASSUME NEW e, ExecutionOK(e), Same(e)
  PROVE  ExecutionOK(e)'
BY DEF ExecutionOK, Same, Unplanned, PlanOK, PhaseOK, OutcomeOK, StagesInOrder, Recorded

LEMMA OneExecution ==
  ASSUME OrchInv, NEW e \in Executions, ExecutionOK(e)', OrchTypes',
         \A f \in Executions \ {e} : Same(f)
  PROVE  OrchInv'
<1>1. \A f \in Executions \ {e} : ExecutionOK(f)'
  BY SameExecution DEF OrchInv
<1> QED
  BY <1>1 DEF OrchInv

LEMMA TriggerKeeps ==
  ASSUME OrchInv, NEW e \in Executions, NEW p \in Playbooks, NEW a \in Alerts,
         TriggerPlaybook(e, p, a)
  PROVE  OrchInv'
<1>1. PICK s : s = Plan(p, a)
  OBVIOUS
<1>2. Staging(s) /\ Len(s) > 0
  BY <1>1, PlansAreStagings
<1>3. PICK l \in Nat : Len(s) = l /\ l > 0
  BY <1>2, LenProperties DEF Staging
<1>4. /\ phase[e] = "none" /\ ExecutionOK(e) /\ OrchTypes
      /\ plan' = [plan EXCEPT ![e] = s]
      /\ acts' = [acts EXCEPT ![e] = [x \in ActionsOf(s) |-> "none"]]
      /\ phase' = [phase EXCEPT ![e] = "created"]
      /\ UNCHANGED <<at, aborted, status, row, announced, serving>>
  BY <1>1 DEF TriggerPlaybook, OrchInv
<1>5. OrchTypes' /\ \A f \in Executions \ {e} : Same(f)
  BY <1>4 DEF OrchTypes, Same
<1>6. /\ plan'[e] = s /\ acts'[e] = [x \in ActionsOf(s) |-> "none"]
      /\ phase'[e] = "created" /\ at'[e] = 0 /\ status'[e] = "pending" /\ row'[e] = NoRow
  BY <1>4 DEF OrchTypes, ExecutionOK, PhaseOK
<1>7. \A i \in 1..l : \A x \in s[i] : x \in ActionsOf(s)
  BY <1>2, <1>3, ActionsInStages DEF Staging
<1>8. OutcomeOK(e)'
  <2>1. Recorded(e, "failed")' = {}
    BY <1>6 DEF Recorded
  <2>2. e \notin aborted'
    BY <1>4 DEF ExecutionOK, PhaseOK, OutcomeOK
  <2> QED
    BY <1>3, <1>6, <1>7, <2>1, <2>2 DEF OutcomeOK, StagesInOrder
<1>9. PhaseOK(e)' /\ PlanOK(e)'
  <2>1. s = CustomPlan \/ Raising \cap ActionsOf(s) = {}
    <3>1. CASE p = "custom"
      BY <1>1, <3>1 DEF Plan
    <3>2. CASE p # "custom"
      BY <1>1, <3>2, OrchAssumption
    <3> QED
      BY <3>1, <3>2
  <2> QED
    BY <1>2, <1>6, <2>1 DEF PhaseOK, PlanOK
<1>10. ExecutionOK(e)'
  BY <1>2, <1>3, <1>6, <1>8, <1>9 DEF ExecutionOK, Results
<1> QED
  BY <1>5, <1>10, OneExecution

LEMMA TriggerUnknownKeeps ==
  ASSUME OrchInv, NEW e \in Executions, TriggerUnknown(e)
  PROVE  OrchInv'
<1>1. /\ phase[e] = "none" /\ ExecutionOK(e) /\ OrchTypes
      /\ status' = [status EXCEPT ![e] = "failed"]
      /\ acts' = [acts EXCEPT ![e] = [x \in {"lookup_playbook"} |-> "failed"]]
      /\ phase' = [phase EXCEPT ![e] = "over"]
      /\ UNCHANGED <<plan, at, aborted, row, announced, serving>>
  BY DEF TriggerUnknown, OrchInv
<1>2. OrchTypes' /\ \A f \in Executions \ {e} : Same(f)
  BY <1>1 DEF OrchTypes, Same
<1>3. /\ plan'[e] = <<>> /\ acts'[e] = [x \in {"lookup_playbook"} |-> "failed"]
      /\ phase'[e] = "over" /\ at'[e] = 0 /\ status'[e] = "failed" /\ row'[e] = NoRow
      /\ plan[e] = <<>>
  BY <1>1 DEF OrchTypes, ExecutionOK, PhaseOK
<1>4. Recorded(e, "failed")' = {"lookup_playbook"}
  BY <1>3 DEF Recorded
<1>5. Staging(plan'[e]) /\ Len(plan'[e]) = 0
  BY <1>1, <1>3 DEF ExecutionOK
<1>6. OutcomeOK(e)' /\ PhaseOK(e)' /\ Unplanned(e)'
  <2>1. StagesInOrder(e)'
    BY <1>5 DEF StagesInOrder
  <2>2. "lookup_playbook" \in Recorded(e, "failed")'
    BY <1>4
  <2>3. OutcomeOK(e)'
    BY <1>3, <2>1, <2>2 DEF OutcomeOK
  <2>4. PhaseOK(e)'
    BY <1>3 DEF PhaseOK
  <2>5. Unplanned(e)'
    BY <1>3 DEF Unplanned
  <2> QED
    BY <2>3, <2>4, <2>5
<1>7. PlanOK(e)'
  <2>1. ActionsOf(plan'[e]) = {}
    BY <1>3, EmptyHasNone DEF ActionsOf
  <2> QED
    BY <2>1 DEF PlanOK
<1>8. ExecutionOK(e)'
  BY <1>3, <1>5, <1>6, <1>7 DEF ExecutionOK
<1> QED
  BY <1>2, <1>8, OneExecution

(* A stage starts when those in front of it have ended.                    *)
LEMMA EnterKeepsOrder ==
  ASSUME NEW e \in Executions, OrchTypes, ExecutionOK(e),
         acts[e] \in [ActionsOf(plan[e]) -> Results],
         NEW n \in 1..Len(plan[e]), n = at[e] + 1, EnterStage(e, n), plan' = plan,
         at[e] > 0 => StageOver(e)
  PROVE  /\ acts'[e] \in [ActionsOf(plan'[e]) -> Results] /\ StagesInOrder(e)'
         /\ at'[e] = n /\ \A x \in plan'[e][n] : acts'[e][x] # "none"
         /\ acts' = [f \in Executions |-> acts'[f]] /\ at' = [f \in Executions |-> at'[f]]
         /\ \A f \in Executions \ {e} : acts'[f] = acts[f] /\ at'[f] = at[f]
<1>1. PICK s : s = plan[e]
  OBVIOUS
<1>2. Staging(s) /\ StagesInOrder(e)
  BY <1>1 DEF ExecutionOK, OutcomeOK
<1>3. PICK l \in Nat : Len(s) = l
  BY <1>2, LenProperties DEF Staging
<1>4. PICK k \in 0..l : at[e] = k
  BY <1>1, <1>3 DEF ExecutionOK
<1>5. /\ acts'[e] = StartedStage(e, n) /\ at'[e] = n /\ plan'[e] = s
      /\ acts' = [f \in Executions |-> acts'[f]] /\ at' = [f \in Executions |-> at'[f]]
      /\ \A f \in Executions \ {e} : acts'[f] = acts[f] /\ at'[f] = at[f]
  BY <1>1 DEF EnterStage, OrchTypes
<1>6. \A i \in 1..l : \A x \in s[i] : x \in ActionsOf(s)
  BY <1>2, <1>3, ActionsInStages DEF Staging
<1>7. \A x \in ActionsOf(s) : /\ x \in s[n] => acts'[e][x] \in {"running", "success", "failed"}
                              /\ x \notin s[n] => acts'[e][x] = acts[e][x]
  BY <1>1, <1>5 DEF StartedStage
<1>8. acts'[e] \in [ActionsOf(s) -> Results]
  BY <1>1, <1>5, <1>7 DEF StartedStage, Results
<1>9. ASSUME NEW i \in 1..l, NEW x \in s[i]
      PROVE  /\ i < n => acts'[e][x] \in {"success", "failed"}
             /\ i > n => acts'[e][x] = "none"
  <2>1. i # n => acts'[e][x] = acts[e][x]
    <3>1. n \in 1..l
      BY <1>1, <1>3
    <3>2. i # n => s[i] \cap s[n] = {}
      BY <1>2, <1>3, <3>1 DEF Staging
    <3> QED
      BY <1>6, <1>7, <3>2
  <2>2. CASE i < k
    BY <1>1, <1>2, <1>3, <1>4, <2>1, <2>2 DEF StagesInOrder
  <2>3. CASE i = k
    BY <1>1, <1>3, <1>4, <2>1, <2>3 DEF StageOver
  <2>4. CASE i > k
    BY <1>1, <1>2, <1>3, <1>4, <2>1, <2>4 DEF StagesInOrder
  <2> QED
    BY <1>4, <2>2, <2>3, <2>4
<1>10. StagesInOrder(e)'
  BY <1>3, <1>5, <1>9 DEF StagesInOrder
<1>11. \A x \in s[n] : acts'[e][x] # "none"
  BY <1>1, <1>3, <1>6, <1>7
<1> QED
  BY <1>5, <1>8, <1>10, <1>11

LEMMA BeginKeeps ==
  ASSUME OrchInv, NEW e \in Executions, Begin(e)
  PROVE  OrchInv'
<1>1. /\ phase[e] = "created" /\ ExecutionOK(e) /\ OrchTypes
      /\ EnterStage(e, 1) /\ plan' = plan
      /\ phase' = [phase EXCEPT ![e] = "running"]
      /\ status' = [status EXCEPT ![e] = "running"]
      /\ UNCHANGED <<plan, aborted, row, announced, serving>>
  BY DEF Begin, OrchInv
<1>2. /\ at[e] = 0 /\ acts[e] \in [ActionsOf(plan[e]) -> Results] /\ row[e] = NoRow
      /\ Len(plan[e]) > 0
  BY <1>1 DEF ExecutionOK, PhaseOK, Unplanned
<1>3. 1 \in 1..Len(plan[e])
  BY <1>1, <1>2, LenProperties DEF ExecutionOK, Staging
<1>4. /\ acts'[e] \in [ActionsOf(plan'[e]) -> Results] /\ StagesInOrder(e)'
      /\ at'[e] = 1 /\ \A x \in plan'[e][1] : acts'[e][x] # "none"
      /\ acts' = [f \in Executions |-> acts'[f]] /\ at' = [f \in Executions |-> at'[f]]
      /\ \A f \in Executions \ {e} : acts'[f] = acts[f] /\ at'[f] = at[f]
  BY <1>1, <1>2, <1>3, EnterKeepsOrder
<1>5. OrchTypes' /\ \A f \in Executions \ {e} : Same(f)
  BY <1>1, <1>4 DEF OrchTypes, Same
<1>6. phase'[e] = "running" /\ status'[e] = "running" /\ row'[e] = NoRow /\ plan'[e] = plan[e]
  BY <1>1, <1>2 DEF OrchTypes
<1>7. OutcomeOK(e)' /\ PhaseOK(e)' /\ PlanOK(e)'
  <2>1. e \notin aborted' /\ "lookup_playbook" \notin Recorded(e, "failed")'
    BY <1>1, <1>4, <1>6, NoLookup DEF ExecutionOK, PhaseOK, OutcomeOK, Recorded, Staging
  <2> QED
    BY <1>1, <1>4, <1>6, <2>1 DEF ExecutionOK, OutcomeOK, PhaseOK, PlanOK
<1>8. ExecutionOK(e)'
  BY <1>1, <1>3, <1>4, <1>6, <1>7 DEF ExecutionOK
<1> QED
  BY <1>5, <1>8, OneExecution

LEMMA NextStageKeeps ==
  ASSUME OrchInv, NEW e \in Executions, NextStage(e)
  PROVE  OrchInv'
<1>1. /\ phase[e] = "running" /\ ExecutionOK(e) /\ OrchTypes
      /\ EnterStage(e, at[e] + 1) /\ StageOver(e) /\ at[e] < Len(plan[e])
      /\ UNCHANGED <<plan, phase, aborted, status, row, announced, serving>>
  BY DEF NextStage, OrchInv
<1>2. acts[e] \in [ActionsOf(plan[e]) -> Results] /\ row[e] = NoRow /\ status[e] = "running"
  BY <1>1 DEF ExecutionOK, PhaseOK, Unplanned
<1>3. PICK n \in 1..Len(plan[e]) : n = at[e] + 1
  <2>1. PICK l \in Nat : Len(plan[e]) = l
    BY <1>1, LenProperties DEF ExecutionOK, Staging
  <2> QED
    BY <1>1, <2>1 DEF ExecutionOK
<1>4. /\ acts'[e] \in [ActionsOf(plan'[e]) -> Results] /\ StagesInOrder(e)'
      /\ at'[e] = n /\ \A x \in plan'[e][n] : acts'[e][x] # "none"
      /\ acts' = [f \in Executions |-> acts'[f]] /\ at' = [f \in Executions |-> at'[f]]
      /\ \A f \in Executions \ {e} : acts'[f] = acts[f] /\ at'[f] = at[f]
  <2>1. EnterStage(e, n) /\ plan' = plan
    BY <1>1, <1>3
  <2> QED
    BY <1>1, <1>2, <1>3, <2>1, EnterKeepsOrder
<1>5. OrchTypes' /\ \A f \in Executions \ {e} : Same(f)
  BY <1>1, <1>4 DEF OrchTypes, Same
<1>6. OutcomeOK(e)' /\ PhaseOK(e)' /\ PlanOK(e)'
  <2>1. e \notin aborted' /\ "lookup_playbook" \notin Recorded(e, "failed")'
    BY <1>1, <1>2, <1>4, NoLookup DEF ExecutionOK, OutcomeOK, Recorded, Staging
  <2> QED
    BY <1>1, <1>2, <1>4, <2>1 DEF ExecutionOK, OutcomeOK, PhaseOK, PlanOK
<1>7. ExecutionOK(e)'
  BY <1>1, <1>3, <1>4, <1>6 DEF ExecutionOK
<1> QED
  BY <1>5, <1>7, OneExecution

(* An action that ends is one of the stage that runs.                      *)
LEMMA RunningInStage ==
  ASSUME NEW e, ExecutionOK(e), acts[e] \in [ActionsOf(plan[e]) -> Results],
         NEW a, a \in DOMAIN acts[e], acts[e][a] = "running"
  PROVE  at[e] > 0 /\ a \in plan[e][at[e]]
<1>1. PICK s : s = plan[e]
  OBVIOUS
<1>2. Staging(s) /\ StagesInOrder(e)
  BY <1>1 DEF ExecutionOK, OutcomeOK
<1>3. PICK l \in Nat : Len(s) = l
  BY <1>2, LenProperties DEF Staging
<1>4. PICK k \in 0..l : at[e] = k
  BY <1>1, <1>3 DEF ExecutionOK
<1>5. PICK i \in 1..l : a \in s[i]
  BY <1>1, <1>2, <1>3, ActionsInStages DEF Staging
<1>6. i = k
  BY <1>1, <1>2, <1>3, <1>4, <1>5 DEF StagesInOrder
<1> QED
  BY <1>1, <1>4, <1>5, <1>6

(* What is true of the plan after a running action ended with result r.    *)
LEMMA EndingKeepsOrder ==
  ASSUME NEW e \in Executions, OrchTypes, ExecutionOK(e),
         acts[e] \in [ActionsOf(plan[e]) -> Results],
         NEW a, a \in DOMAIN acts[e], acts[e][a] = "running", NEW r \in {"success", "failed"},
         acts' = [acts EXCEPT ![e][a] = r], plan' = plan, at' = at
  PROVE  /\ acts'[e] \in [ActionsOf(plan'[e]) -> Results] /\ StagesInOrder(e)'
         /\ \A x \in plan'[e][at'[e]] : acts'[e][x] # "none"
         /\ acts'[e] = [acts[e] EXCEPT ![a] = r]
         /\ acts' = [f \in Executions |-> acts'[f]]
         /\ \A f \in Executions \ {e} : acts'[f] = acts[f]
<1>1. PICK s : s = plan[e]
  OBVIOUS
<1>2. Staging(s) /\ StagesInOrder(e)
  BY <1>1 DEF ExecutionOK, OutcomeOK
<1>3. PICK l \in Nat : Len(s) = l
  BY <1>2, LenProperties DEF Staging
<1>4. PICK k \in 0..l : at[e] = k
  BY <1>1, <1>3 DEF ExecutionOK
<1>5. k > 0 /\ a \in s[k]
  BY <1>1, <1>4, RunningInStage
<1>6. /\ acts'[e] = [acts[e] EXCEPT ![a] = r] /\ plan'[e] = s /\ at'[e] = k
      /\ acts' = [f \in Executions |-> acts'[f]]
      /\ \A f \in Executions \ {e} : acts'[f] = acts[f]
  BY <1>1, <1>4 DEF OrchTypes
<1>7. acts'[e] \in [ActionsOf(s) -> Results]
  BY <1>1, <1>6 DEF Results
<1>8. \A i \in 1..l : \A x \in s[i] : x \in ActionsOf(s)
  BY <1>2, <1>3, ActionsInStages DEF Staging
<1>9. \A x \in ActionsOf(s) : acts'[e][x] = IF x = a THEN r ELSE acts[e][x]
  BY <1>1, <1>6
<1>10. ASSUME NEW i \in 1..l, NEW x \in s[i]
       PROVE  /\ i < k => acts'[e][x] \in {"success", "failed"}
              /\ i > k => acts'[e][x] = "none"
  <2>1. i # k => x # a
    BY <1>2, <1>3, <1>4, <1>5 DEF Staging
  <2> QED
    BY <1>1, <1>2, <1>3, <1>4, <1>8, <1>9, <2>1 DEF StagesInOrder
<1>11. StagesInOrder(e)'
  BY <1>3, <1>6, <1>10 DEF StagesInOrder
<1>12. \A x \in s[k] : acts'[e][x] # "none"
  <2>1. \A x \in s[k] : acts[e][x] # "none"
    BY <1>1, <1>4, <1>5 DEF ExecutionOK
  <2> QED
    BY <1>4, <1>5, <1>8, <1>9, <2>1
<1> QED
  BY <1>6, <1>7, <1>11, <1>12

LEMMA ActionReturnsKeeps ==
  ASSUME OrchInv, NEW e \in Executions, NEW a \in DOMAIN acts[e], ActionReturns(e, a)
  PROVE  OrchInv'
<1>1. /\ phase[e] = "running" /\ ExecutionOK(e) /\ OrchTypes /\ acts[e][a] = "running"
      /\ acts' = [acts EXCEPT ![e][a] = "success"]
      /\ UNCHANGED <<plan, phase, at, aborted, status, row, announced, serving>>
  BY DEF ActionReturns, OrchInv
<1>2. /\ acts[e] \in [ActionsOf(plan[e]) -> Results] /\ row[e] = NoRow
      /\ status[e] = "running" /\ at[e] \in 0..Len(plan[e])
  BY <1>1 DEF ExecutionOK, PhaseOK, Unplanned
<1>3. /\ acts'[e] \in [ActionsOf(plan'[e]) -> Results] /\ StagesInOrder(e)'
      /\ \A x \in plan'[e][at'[e]] : acts'[e][x] # "none"
      /\ acts' = [f \in Executions |-> acts'[f]]
      /\ \A f \in Executions \ {e} : acts'[f] = acts[f]
  BY <1>1, <1>2, EndingKeepsOrder
<1>4. OrchTypes' /\ \A f \in Executions \ {e} : Same(f)
  BY <1>1, <1>3 DEF OrchTypes, Same
<1>5. OutcomeOK(e)' /\ PhaseOK(e)' /\ PlanOK(e)'
  <2>1. e \notin aborted' /\ "lookup_playbook" \notin Recorded(e, "failed")'
    BY <1>1, <1>2, <1>3, NoLookup DEF ExecutionOK, OutcomeOK, Recorded, Staging
  <2> QED
    BY <1>1, <1>2, <1>3, <2>1 DEF OutcomeOK, PhaseOK, PlanOK, ExecutionOK
<1>6. ExecutionOK(e)'
  BY <1>1, <1>2, <1>3, <1>5 DEF ExecutionOK
<1> QED
  BY <1>4, <1>6, OneExecution

LEMMA ActionRaisesKeeps ==
  ASSUME OrchInv, NEW e \in Executions, NEW a \in DOMAIN acts[e], ActionRaises(e, a)
  PROVE  OrchInv'
<1>1. /\ phase[e] = "running" /\ ExecutionOK(e) /\ OrchTypes /\ acts[e][a] = "running"
      /\ a \in Raising /\ acts' = [acts EXCEPT ![e][a] = "failed"]
      /\ IF a \in Critical
         THEN RunnerFails(e) ELSE UNCHANGED <<status, aborted, phase>>
      /\ UNCHANGED <<plan, at, row, announced, serving>>
  BY DEF ActionRaises, OrchInv
<1>2. /\ acts[e] \in [ActionsOf(plan[e]) -> Results] /\ row[e] = NoRow
      /\ status[e] = "running" /\ at[e] \in 0..Len(plan[e])
  BY <1>1 DEF ExecutionOK, PhaseOK, Unplanned
<1>3. /\ acts'[e] \in [ActionsOf(plan'[e]) -> Results] /\ StagesInOrder(e)'
      /\ \A x \in plan'[e][at'[e]] : acts'[e][x] # "none"
      /\ acts'[e] = [acts[e] EXCEPT ![a] = "failed"]
      /\ acts' = [f \in Executions |-> acts'[f]]
      /\ \A f \in Executions \ {e} : acts'[f] = acts[f]
  BY <1>1, <1>2, EndingKeepsOrder
<1>4. OrchTypes' /\ \A f \in Executions \ {e} : Same(f)
  BY <1>1, <1>3 DEF OrchTypes, Same, RunnerFails
<1>5. CASE a \notin Critical
  <2>1. status'[e] = "running" /\ phase'[e] = "running"
    BY <1>1, <1>2, <1>5
  <2>2. OutcomeOK(e)' /\ PhaseOK(e)' /\ PlanOK(e)'
    <3>1. e \notin aborted' /\ "lookup_playbook" \notin Recorded(e, "failed")'
      BY <1>1, <1>2, <1>3, <1>5, NoLookup DEF ExecutionOK, OutcomeOK, Recorded, Staging
    <3> QED
      BY <1>1, <1>2, <1>3, <2>1, <3>1 DEF OutcomeOK, PhaseOK, PlanOK, ExecutionOK
  <2>3. ExecutionOK(e)'
    BY <1>1, <1>2, <1>3, <2>2 DEF ExecutionOK
  <2> QED
    BY <1>4, <2>3, OneExecution
<1>6. CASE a \in Critical
  <2>1. /\ status'[e] = "failed" /\ phase'[e] = "persisting" /\ row'[e] = NoRow /\ at'[e] = at[e]
        /\ e \in aborted' /\ plan'[e] = plan[e]
    BY <1>1, <1>2, <1>6 DEF OrchTypes, RunnerFails
  <2>2. at[e] > 0 /\ a \in plan[e][at[e]]
    BY <1>1, <1>2, RunningInStage
  <2>3. plan[e][at[e]] = {a}
    <3>1. PICK l \in Nat : Len(plan[e]) = l
      BY <1>1, LenProperties DEF ExecutionOK, Staging
    <3>2. at[e] \in 1..Len(plan[e])
      BY <1>2, <2>2, <3>1
    <3> QED
      BY <1>1, <2>2, <3>2 DEF ExecutionOK, Staging
  <2>4. \A x \in DOMAIN acts[e] : acts[e][x] = "running" => x = a
    BY <1>1, <1>2, <2>3, RunningInStage
  <2>5. Recorded(e, "running")' = {}
    BY <1>2, <1>3, <2>4 DEF Recorded
  <2>6. plan[e] = CustomPlan
    <3>1. a \in ActionsOf(plan[e])
      BY <1>2
    <3> QED
      BY <1>1, <3>1 DEF ExecutionOK, PlanOK
  <2>7. OutcomeOK(e)' /\ PhaseOK(e)' /\ PlanOK(e)'
    BY <1>3, <1>6, <2>1, <2>5, <2>6 DEF OutcomeOK, PhaseOK, PlanOK, Finished
  <2>8. ExecutionOK(e)'
    BY <1>1, <1>2, <1>3, <2>7 DEF ExecutionOK
  <2> QED
    BY <1>4, <2>8, OneExecution
<1> QED
  BY <1>5, <1>6

(* run() raises while none of its actions runs.                            *)
LEMMA RunRaisesKeeps ==
  ASSUME OrchInv, NEW e \in Executions, RunRaises(e)
  PROVE  OrchInv'
<1>1. /\ phase[e] \in {"created", "running"} /\ ExecutionOK(e) /\ OrchTypes
      /\ phase[e] = "running" => StageOver(e) /\ plan[e] = CustomPlan
      /\ RunnerFails(e)
      /\ UNCHANGED <<plan, at, acts, row, announced, serving>>
  BY DEF RunRaises, OrchInv
<1>2. /\ acts[e] \in [ActionsOf(plan[e]) -> Results] /\ row[e] = NoRow
      /\ StagesInOrder(e) /\ Staging(plan[e]) /\ at[e] \in 0..Len(plan[e])
      /\ phase[e] = "created" => at[e] = 0
  BY <1>1 DEF ExecutionOK, PhaseOK, OutcomeOK, Unplanned
<1>3. PICK l \in Nat : Len(plan[e]) = l
  BY <1>2, LenProperties DEF Staging
<1>4. PICK k \in 0..l : at[e] = k
  BY <1>2, <1>3
<1>5. ASSUME NEW x \in ActionsOf(plan[e]) PROVE acts[e][x] # "running"
  <2>1. PICK i \in 1..l : x \in plan[e][i]
    BY <1>2, <1>3, ActionsInStages DEF Staging
  <2>2. CASE i # k
    BY <1>2, <1>3, <1>4, <2>1, <2>2 DEF StagesInOrder
  <2>3. CASE i = k
    <3>1. phase[e] = "running"
      BY <1>1, <1>2, <1>4, <2>3
    <3> QED
      BY <1>1, <1>4, <2>1, <2>3, <3>1 DEF StageOver
  <2> QED
    BY <2>2, <2>3
<1>6. Recorded(e, "running") = {}
  BY <1>2, <1>5 DEF Recorded
<1>7. /\ status'[e] = "failed" /\ phase'[e] = "persisting" /\ e \in aborted'
      /\ plan'[e] = plan[e] /\ at'[e] = at[e] /\ acts'[e] = acts[e] /\ row'[e] = NoRow
      /\ OrchTypes' /\ \A f \in Executions \ {e} : Same(f)
  BY <1>1, <1>2 DEF RunnerFails, OrchTypes, Same
<1>8. at[e] > 0 => plan[e] = CustomPlan
  BY <1>1, <1>2
<1>9. OutcomeOK(e)' /\ PhaseOK(e)' /\ PlanOK(e)'
  BY <1>1, <1>2, <1>6, <1>7, <1>8
     DEF ExecutionOK, OutcomeOK, PhaseOK, PlanOK, Finished, Recorded, StagesInOrder
<1>10. ExecutionOK(e)'
  BY <1>1, <1>2, <1>7, <1>9 DEF ExecutionOK
<1> QED
  BY <1>7, <1>10, OneExecution

LEMMA FinishKeeps ==
  ASSUME OrchInv, NEW e \in Executions, Finish(e)
  PROVE  OrchInv'
<1>1. /\ phase[e] = "running" /\ ExecutionOK(e) /\ OrchTypes
      /\ StageOver(e) /\ at[e] = Len(plan[e])
      /\ status' = [status EXCEPT ![e] = OutcomeOf(e)]
      /\ phase' = [phase EXCEPT ![e] = "persisting"]
      /\ UNCHANGED <<plan, at, acts, aborted, row, announced, serving>>
  BY DEF Finish, OrchInv
<1>2. /\ acts[e] \in [ActionsOf(plan[e]) -> Results] /\ row[e] = NoRow
      /\ StagesInOrder(e) /\ at[e] > 0
  BY <1>1 DEF ExecutionOK, PhaseOK, OutcomeOK, Unplanned
<1>3. PICK l \in Nat : Len(plan[e]) = l
  BY <1>1, LenProperties DEF ExecutionOK, Staging
<1>4. ASSUME NEW x \in ActionsOf(plan[e])
      PROVE  acts[e][x] \in {"success", "failed"}
  <2>1. PICK i \in 1..l : x \in plan[e][i]
    BY <1>1, <1>3, ActionsInStages DEF ExecutionOK, Staging
  <2>2. CASE i < l
    BY <1>1, <1>2, <1>3, <2>1, <2>2 DEF StagesInOrder
  <2>3. CASE i = l
    BY <1>1, <1>3, <2>1, <2>3 DEF StageOver
  <2> QED
    BY <2>2, <2>3
<1>5. /\ Recorded(e, "running") = {}
      /\ Recorded(e, "failed") \cup Recorded(e, "success") = ActionsOf(plan[e])
  BY <1>2, <1>4 DEF Recorded
<1>6. /\ status'[e] = OutcomeOf(e) /\ phase'[e] = "persisting" /\ row'[e] = NoRow
      /\ \A f \in Executions \ {e} : Same(f)
  BY <1>1, <1>2 DEF OrchTypes, Same
<1>7. OrchTypes'
  BY <1>1 DEF OrchTypes, OutcomeOf
<1>8. OutcomeOK(e)' /\ PhaseOK(e)' /\ PlanOK(e)'
  <2>1. e \notin aborted /\ "lookup_playbook" \notin Recorded(e, "failed")
    BY <1>1 DEF ExecutionOK, PhaseOK, OutcomeOK
  <2> QED
    BY <1>1, <1>2, <1>5, <1>6, <2>1
       DEF ExecutionOK, PlanOK, OutcomeOK, PhaseOK, Finished, OutcomeOf, Recorded, StagesInOrder
<1>9. ExecutionOK(e)'
  BY <1>1, <1>2, <1>8 DEF ExecutionOK
<1> QED
  BY <1>6, <1>7, <1>9, OneExecution

(* The steps that only tell of an execution that has ended.                *)
LEMMA TellingKeeps ==
  ASSUME OrchInv, NEW e \in Executions, Persist(e) \/ PersistRaises(e) \/ Announce(e)
  PROVE  OrchInv'
<1>1. /\ phase[e] \in {"persisting", "announcing"} /\ ExecutionOK(e) /\ OrchTypes
      /\ UNCHANGED <<plan, at, acts, aborted, status, serving>>
      /\ phase'[e] \in {"announcing", "over"}
      /\ row'[e] \in {row[e], status[e]}
      /\ \A f \in Executions \ {e} : Same(f)
  BY DEF Persist, PersistRaises, Announce, OrchInv, OrchTypes, Same
<1>2. status[e] \in Finished /\ Recorded(e, "running") = {} /\ OutcomeOK(e)
  BY <1>1 DEF ExecutionOK, PhaseOK
<1>3. OrchTypes'
  <2>1. phase' \in [Executions -> {"none", "created", "running", "persisting", "announcing", "over"}]
    BY <1>1 DEF Persist, PersistRaises, Announce, OrchTypes
  <2>2. row' \in [Executions -> {"success", "partial", "failed", NoRow}] /\ announced' \subseteq Executions
    BY <1>1, <1>2 DEF Persist, PersistRaises, Announce, OrchTypes, Finished
  <2> QED
    BY <1>1, <2>1, <2>2 DEF OrchTypes
<1>4. OutcomeOK(e)'
  BY <1>1, <1>2 DEF OutcomeOK, Recorded, StagesInOrder
<1>5. PhaseOK(e)' /\ PlanOK(e)'
  BY <1>1, <1>2 DEF ExecutionOK, PhaseOK, PlanOK, Recorded
<1>6. acts[e] \in [ActionsOf(plan[e]) -> Results]
  BY <1>1 DEF ExecutionOK, Unplanned
<1>7. ExecutionOK(e)'
  BY <1>1, <1>4, <1>5, <1>6 DEF ExecutionOK
<1> QED
  BY <1>1, <1>3, <1>7, OneExecution

LEMMA ShutdownKeeps ==
  ASSUME OrchInv, Shutdown
  PROVE  OrchInv'
<1>1. /\ OrchTypes /\ UNCHANGED <<plan, at, acts, aborted, status, announced>> /\ serving' = FALSE
      /\ phase' = [e \in Executions |-> IF phase[e] = "none" THEN "none" ELSE "over"]
  BY DEF Shutdown, OrchInv
<1>2. PICK done \in SUBSET {e \in Executions : phase[e] = "persisting"} :
        row' = [e \in Executions |-> IF e \in done THEN status[e] ELSE row[e]]
  BY DEF Shutdown
<1>3. ASSUME NEW e \in Executions
      PROVE  ExecutionOK(e)' /\ row'[e] \in {"success", "partial", "failed", NoRow}
  <2>1. ExecutionOK(e) /\ (e \in done => status[e] \in Finished /\ Recorded(e, "running") = {})
    BY <1>2 DEF OrchInv, ExecutionOK, PhaseOK
  <2>2. /\ row'[e] = IF e \in done THEN status[e] ELSE row[e]
        /\ phase'[e] = IF phase[e] = "none" THEN "none" ELSE "over"
        /\ e \in done => phase[e] = "persisting"
    BY <1>1, <1>2
  <2>3. OutcomeOK(e)'
    BY <1>1, <2>1, <2>2 DEF ExecutionOK, OutcomeOK, Recorded, StagesInOrder
  <2>4. PhaseOK(e)' /\ PlanOK(e)'
    BY <1>1, <2>1, <2>2 DEF ExecutionOK, PhaseOK, PlanOK
  <2>5. acts[e] \in [ActionsOf(plan[e]) -> Results] \/ Unplanned(e)'
    BY <1>1, <2>1, <2>2 DEF ExecutionOK, Unplanned
  <2>6. row[e] \in {"success", "partial", "failed", NoRow}
    BY <1>1 DEF OrchTypes
  <2> QED
    BY <1>1, <2>1, <2>2, <2>3, <2>4, <2>5, <2>6 DEF ExecutionOK, Finished
<1>4. OrchTypes'
  BY <1>1, <1>2, <1>3 DEF OrchTypes
<1> QED
  BY <1>3, <1>4 DEF OrchInv

(* The reported outcome of a playbook is the one of its actions, whatever  *)
(* raises, and however many playbooks run when the loop is shut down.      *)
THEOREM OutcomeIsAlwaysReal == OrchSpec => []OutcomeIsReal
<1>1. OrchInit => OrchInv
  <2> SUFFICES ASSUME OrchInit
               PROVE  OrchInv
    OBVIOUS
  <2>1. OrchTypes
    BY DEF OrchInit, OrchTypes
  <2>2. ASSUME NEW e \in Executions
        PROVE  ExecutionOK(e)
    <3>1. /\ plan[e] = <<>> /\ at[e] = 0 /\ acts[e] = <<>> /\ phase[e] = "none"
          /\ status[e] = "pending" /\ row[e] = NoRow /\ e \notin aborted
      BY DEF OrchInit
    <3>2. ActionsOf(plan[e]) = {}
      BY <3>1, EmptyHasNone DEF ActionsOf
    <3>3. acts[e] \in [ActionsOf(plan[e]) -> Results]
      BY <3>1, <3>2
    <3>4. plan[e] \in Seq(SUBSET Names) /\ Len(plan[e]) = 0
      BY <3>1
    <3>5. Staging(plan[e])
      BY <3>4 DEF Staging
    <3>6. OutcomeOK(e) /\ PhaseOK(e) /\ PlanOK(e)
      BY <3>1, <3>2, <3>3, <3>4 DEF OutcomeOK, PhaseOK, PlanOK, StagesInOrder, Recorded
    <3> QED
      BY <3>1, <3>3, <3>4, <3>5, <3>6 DEF ExecutionOK
  <2> QED
    BY <2>1, <2>2 DEF OrchInv
<1>2. OrchInv /\ [OrchNext]_orchVars => OrchInv'
  <2> SUFFICES ASSUME OrchInv, [OrchNext]_orchVars
               PROVE  OrchInv'
    OBVIOUS
  <2>1. CASE \E e \in Executions, p \in Playbooks, a \in Alerts : TriggerPlaybook(e, p, a)
    BY <2>1, TriggerKeeps
  <2>2. CASE \E e \in Executions : TriggerUnknown(e)
    BY <2>2, TriggerUnknownKeeps
  <2>3. CASE \E e \in Executions : Begin(e)
    BY <2>3, BeginKeeps
  <2>4. CASE \E e \in Executions : NextStage(e)
    BY <2>4, NextStageKeeps
  <2>5. CASE \E e \in Executions : Finish(e)
    BY <2>5, FinishKeeps
  <2>6. CASE \E e \in Executions : \E a \in DOMAIN acts[e] : ActionReturns(e, a)
    BY <2>6, ActionReturnsKeeps
  <2>7. CASE \E e \in Executions : \E a \in DOMAIN acts[e] : ActionRaises(e, a)
    BY <2>7, ActionRaisesKeeps
  <2>8. CASE \E e \in Executions : Persist(e) \/ PersistRaises(e) \/ Announce(e)
    BY <2>8, TellingKeeps
  <2>9. CASE Shutdown \/ \E e \in Executions : RunRaises(e)
    BY <2>9, ShutdownKeeps, RunRaisesKeeps
  <2>10. CASE UNCHANGED orchVars
    <3>1. UNCHANGED <<plan, phase, at, acts, aborted, status, row, announced, serving>>
      BY <2>10 DEF orchVars
    <3>2. \A e \in Executions : ExecutionOK(e)'
      BY <3>1, SameExecution DEF Same, OrchInv
    <3>3. OrchTypes'
      BY <3>1 DEF OrchTypes, OrchInv
    <3> QED
      BY <3>2, <3>3 DEF OrchInv
  <2> QED
    BY <2>1, <2>2, <2>3, <2>4, <2>5, <2>6, <2>7, <2>8, <2>9, <2>10 DEF OrchNext, OrchStep
<1> QED
  BY <1>1, <1>2, OrchInvReports, PTL DEF OrchSpec

-----------------------------------------------------------------------------
(* SoarEngine.  Only alert_soc makes a second round of calls, to the SIEM; *)
(* until then that call has neither been made nor failed.                  *)
Siem == << {"siem"} >>

LEMMA RoundsOfHandlers ==
  ASSUME NEW a \in Handled, Rounds(a) # <<>>
  PROVE  /\ Head(Rounds(a)) # {}
         /\ Tail(Rounds(a)) \in {<<>>, Siem}
         /\ Tail(Rounds(a)) # <<>> => Head(Rounds(a)) = {"slack"}
<1>1. CASE a = "alert_soc_team"
  <2>1. Rounds(a) = Asked("slack") \o Asked("siem")
    BY <1>1 DEF Rounds, AlertSoc
  <2>2. CASE "slack" \in Configured /\ "siem" \in Configured
    <3>1. Rounds(a) = << {"slack"} >> \o << {"siem"} >>
      BY <2>1, <2>2 DEF Asked
    <3>2. << {"slack"} >> \o << {"siem"} >> = << {"slack"}, {"siem"} >>
      <4>1. PICK x, y : x = {"slack"} /\ y = {"siem"}
        OBVIOUS
      <4>2. << x >> \in Seq({x, y}) /\ << y >> \in Seq({x, y}) /\ << x, y >> \in Seq({x, y})
        OBVIOUS
      <4>3. PICK u, v, w \in Seq({x, y}) : u = << x >> /\ v = << y >> /\ w = << x, y >>
        BY <4>2
      <4>4. /\ Len(u) = 1 /\ u[1] = x
            /\ Len(v) = 1 /\ v[1] = y
            /\ Len(w) = 2 /\ w[1] = x /\ w[2] = y
        BY <4>3
      <4>5. /\ u \o v \in Seq({x, y})
            /\ Len(u \o v) = Len(u) + Len(v)
            /\ \A i \in 1..(Len(u) + Len(v)) :
                 (u \o v)[i] = IF i <= Len(u) THEN u[i] ELSE v[i - Len(u)]
        BY ConcatProperties
      <4>6. /\ u \o v \in Seq({x, y}) /\ Len(u \o v) = 2
            /\ (u \o v)[1] = x /\ (u \o v)[2] = y
        BY <4>4, <4>5
      <4>7. \A i \in 1..2 : (u \o v)[i] = w[i]
        BY <4>4, <4>6
      <4>8. u \o v = w
        BY <4>4, <4>6, <4>7, SeqEqual
      <4> QED
        BY <4>1, <4>3, <4>8
    <3>3. Rounds(a) = << {"slack"}, {"siem"} >>
      BY <3>1, <3>2
    <3> QED
      BY <3>3 DEF Siem
  <2>3. CASE "slack" \in Configured /\ "siem" \notin Configured
    <3>1. Rounds(a) = << {"slack"} >>
      BY <2>1, <2>3 DEF Asked
    <3> QED
      BY <3>1
  <2>4. CASE "slack" \notin Configured /\ "siem" \in Configured
    <3>1. Rounds(a) = << {"siem"} >>
      BY <2>1, <2>4 DEF Asked
    <3> QED
      BY <3>1
  <2>5. CASE "slack" \notin Configured /\ "siem" \notin Configured
    <3>1. Rounds(a) = <<>>
      BY <2>1, <2>5 DEF Asked
    <3> QED
      BY <3>1
  <2> QED
    BY <2>2, <2>3, <2>4, <2>5
<1>2. CASE a # "alert_soc_team"
  <2>1. PICK r : r # {} /\ Rounds(a) = << r >>
    <3>1. {"rule"} # {} /\ {"rule_in", "rule_out"} # {} /\ {"misp"} # {} /\ {"ticket"} # {}
      OBVIOUS
    <3>2. \/ Rounds(a) = << {"rule"} >> \/ Rounds(a) = << {"rule_in", "rule_out"} >>
          \/ Rounds(a) = << {"misp"} >> \/ Rounds(a) = << {"ticket"} >>
      BY <1>2 DEF Rounds, Handled, BlockIp, QuarantineHost, CreateIoc, CreateTicket
    <3> QED
      BY <3>1, <3>2
  <2> QED
    BY <2>1
<1> QED
  BY <1>1, <1>2

(* What the calls of action a have come to.                                *)
ActionOK(i, a) ==
  /\ result[i][a] \in {"pending", "success", "failed", "skipped"}
  /\ result[i][a] = "success" /\ a \in Checked => AppliedOf(i, a) # {}
  /\ result[i][a] = "skipped" => AppliedOf(i, a) = {}
  /\ result[i][a] = "pending" <=> OpenOf(i, a) # {}
  /\ result[i][a] = "pending" => a \in DOMAIN round[i]

RoundsOK(i) ==
  \A a \in DOMAIN round[i] :
    /\ round[i][a] \in {<<>>, Siem}
    /\ round[i][a] = Siem => <<i, a, "siem">> \notin errors \cup open

IncidentOK(i) ==
  /\ DOMAIN result[i] = IF stage[i] = "new" THEN {} ELSE Recommended[i]
  /\ stage[i] = "over" => Ended(i)
  /\ stage[i] = "running" => Recommended[i] # {}
  /\ RoundsOK(i)
  /\ \A a \in DOMAIN result[i] : ActionOK(i, a)

CallsOK ==
  /\ dryRun => open = {} /\ applied = {}
  /\ \A c \in open : c[1] \in Incidents /\ c[2] \in DOMAIN result[c[1]]
  /\ \A c \in errors \cup applied : c[1] \in Incidents /\ stage[c[1]] # "new"
  /\ errors \cap open = {}

SoarTypes ==
  /\ dryRun \in BOOLEAN
  /\ stage \in [Incidents -> {"new", "running", "over"}]
  /\ result = [i \in Incidents |-> result[i]]
  /\ round = [i \in Incidents |-> round[i]]

StoreOK == \A id \in Stored : id \in RuleIds /\ rules[id] \in RuleRecords

Entries == [id : Incidents, success : SUBSET UNION {Recommended[i] : i \in Incidents},
            failed : SUBSET UNION {Recommended[i] : i \in Incidents}]
Concluded == {i \in Incidents : stage[i] = "over" /\ Recommended[i] # {}}

AuditOK ==
  /\ audit \in Seq(Entries)
  /\ \A k \in 1..Len(audit) :
       /\ stage[audit[k].id] = "over"
       /\ audit[k].success = Having(audit[k].id, "success")
       /\ audit[k].failed = Having(audit[k].id, "failed")
  /\ \A j, k \in 1..Len(audit) : audit[j].id = audit[k].id => j = k
  /\ IsFiniteSet(Concluded)
  /\ Len(audit) = IF Cardinality(Concluded) > AuditMax THEN AuditMax ELSE Cardinality(Concluded)

SoarInv ==
  SoarTypes /\ CallsOK /\ StoreOK /\ AuditOK /\ \A i \in Incidents : IncidentOK(i)

LEMMA SoarInvReports == SoarInv => SoarReportsAreReal
<1> SUFFICES ASSUME SoarInv
             PROVE  SoarReportsAreReal
  OBVIOUS
<1>1. Len(audit) <= AuditMax
  <2>1. Cardinality(Concluded) \in Nat /\ AuditMax \in Nat
    BY FS_CardinalityType, SoarAssumption DEF SoarInv, AuditOK
  <2> QED
    BY <2>1 DEF SoarInv, AuditOK
<1>2. SoarTypeOK
  BY <1>1 DEF SoarInv, SoarTypes, CallsOK, StoreOK, IncidentOK, ActionOK, SoarTypeOK
<1>3. ResultsAreReal
  BY DEF SoarInv, CallsOK, IncidentOK, ActionOK, ResultsAreReal
<1>4. AuditTellsAll
  <2>1. {i \in Incidents : stage[i] = "over" /\ Recommended[i] # {}} = Concluded
    BY DEF Concluded
  <2> QED
    BY <2>1 DEF SoarInv, AuditOK, AuditTellsAll
<1> QED
  BY <1>2, <1>3, <1>4 DEF SoarReportsAreReal

LEMMA AuditedIncidents ==
  ASSUME AuditOK
  PROVE  \A k \in 1..Len(audit) : audit[k].id \in Incidents
<1>1. \A k \in 1..Len(audit) : audit[k] \in Entries
  BY ElementOfSeq DEF AuditOK
<1> QED
  BY <1>1 DEF Entries

(* The audit log tells of incidents that are over, and their results stay. *)
LEMMA AuditStays ==
  ASSUME AuditOK, SoarTypes, stage' = stage, audit' = audit,
         \A i \in Incidents : stage[i] = "over" => result'[i] = result[i]
  PROVE  AuditOK'
<1>1. Concluded' = Concluded
  BY DEF Concluded
<1>2. \A k \in 1..Len(audit) : audit[k].id \in Incidents
  BY AuditedIncidents
<1>3. \A k \in 1..Len(audit) : result'[audit[k].id] = result[audit[k].id]
  BY <1>2 DEF AuditOK
<1> QED
  BY <1>1, <1>3 DEF AuditOK, Having

(* The rule store is apart from the incidents.                             *)
LEMMA StoreKeeps ==
  ASSUME SoarInv, StoreNext
  PROVE  SoarInv'
<1>1. UNCHANGED <<dryRun, stage, result, round, open, errors, applied, audit>>
  BY DEF StoreNext, CreateRule, ImportRule, UpdateRule, DeleteRule, ToggleRule, RuleStep
<1>2. StoreOK'
  <2>1. PICK id \in RuleIds :
          \/ \E on \in BOOLEAN : CreateRule(id, on)
          \/ \E r \in RuleRecords : ImportRule(id, r) \/ UpdateRule(id, r)
          \/ DeleteRule(id) \/ ToggleRule(id)
    BY DEF StoreNext
  <2>2. ASSUME NEW r \in RuleRecords, rules' = With(id, r)
        PROVE  StoreOK'
    BY <2>2 DEF SoarInv, StoreOK, With, Stored
  <2>3. CASE \E on \in BOOLEAN : CreateRule(id, on)
    BY <2>2, <2>3 DEF CreateRule, RuleStep, RuleRecords
  <2>4. CASE \E r \in RuleRecords : ImportRule(id, r)
    BY <2>2, <2>4 DEF ImportRule, RuleStep
  <2>5. CASE \E r \in RuleRecords : UpdateRule(id, r)
    BY <2>5 DEF UpdateRule, RuleStep, SoarInv, StoreOK, Stored
  <2>6. CASE DeleteRule(id)
    BY <2>6 DEF DeleteRule, RuleStep, SoarInv, StoreOK, Stored
  <2>7. CASE ToggleRule(id)
    <3>1. rules[id] \in RuleRecords /\ rules' = [rules EXCEPT ![id].enabled = ~@]
      BY <2>7 DEF ToggleRule, RuleStep, SoarInv, StoreOK
    <3>2. [rules[id] EXCEPT !.enabled = ~rules[id].enabled] \in RuleRecords
      BY <3>1 DEF RuleRecords
    <3> QED
      BY <3>1, <3>2 DEF SoarInv, StoreOK, Stored
  <2> QED
    BY <2>1, <2>3, <2>4, <2>5, <2>6, <2>7
<1>3. AuditOK'
  BY <1>1, AuditStays DEF SoarInv
<1>4. CallsOK' /\ SoarTypes'
  BY <1>1 DEF SoarInv, CallsOK, SoarTypes
<1>5. \A i \in Incidents : IncidentOK(i)'
  BY <1>1 DEF SoarInv, IncidentOK, RoundsOK, ActionOK, Ended, OpenOf, AppliedOf
<1> QED
  BY <1>2, <1>3, <1>4, <1>5 DEF SoarInv

LEMMA ExecuteKeeps ==
  ASSUME SoarInv, NEW i \in Incidents, Execute(i)
  PROVE  SoarInv'
<1> DEFINE as == Recommended[i]
           calling == {a \in as : ~Skips(a) /\ Rounds(a) # <<>>}
           first(a) == IF Skips(a) THEN "skipped" ELSE IF a \in calling THEN "pending" ELSE "success"
           calls == UNION {Calls(i, a, Head(Rounds(a))) : a \in calling}
<1>1. /\ stage[i] = "new"
      /\ stage' = [stage EXCEPT ![i] = IF as = {} THEN "over" ELSE "running"]
      /\ result' = [result EXCEPT ![i] = [a \in as |-> first(a)]]
      /\ round' = [round EXCEPT ![i] = [a \in calling |-> Tail(Rounds(a))]]
      /\ open' = open \cup calls
      /\ UNCHANGED <<dryRun, errors, applied, audit, rules>>
  BY DEF Execute
<1>2. calling \subseteq as /\ (\A a \in as : Skips(a) <=> Skips(a)') /\ (dryRun => calling = {})
  BY <1>1 DEF Skips
<1>3. \A a \in calling :
        /\ Head(Rounds(a)) # {} /\ Tail(Rounds(a)) \in {<<>>, Siem}
        /\ Tail(Rounds(a)) # <<>> => Head(Rounds(a)) = {"slack"}
  BY RoundsOfHandlers DEF Skips
<1>4. /\ \A a \in as : a \in calling => first(a) = "pending"
      /\ \A a \in as : a \notin calling => first(a) \in {"skipped", "success"}
      /\ \A a \in as : first(a) = "success" => a \notin Checked
  <2>1. \A a \in Checked : a \in Handled /\ Rounds(a) # <<>>
    BY DEF Checked, Handled, Rounds, BlockIp, CreateIoc, CreateTicket
  <2>2. \A a \in as : a \in calling <=> ~Skips(a) /\ Rounds(a) # <<>>
    OBVIOUS
  <2> QED
    BY <2>1, <2>2
<1>5. /\ \A c \in calls : c[1] = i /\ c[2] \in calling
      /\ \A a \in calling : Calls(i, a, Head(Rounds(a))) \subseteq calls
      /\ \A a \in calling : \A x : <<i, a, x>> \in calls <=> x \in Head(Rounds(a))
  BY DEF Calls
<1> HIDE DEF as, calling, first, calls
<1>6. SoarTypes'
  BY <1>1 DEF SoarInv, SoarTypes
<1>7. /\ \A c \in open : c[1] # i
      /\ \A c \in errors \cup applied : c[1] # i
  BY <1>1 DEF SoarInv, IncidentOK, CallsOK
<1>8. result'[i] = [a \in as |-> first(a)] /\ \A j \in Incidents \ {i} : result'[j] = result[j]
  BY <1>1 DEF SoarInv, SoarTypes
<1>9. /\ round'[i] = [a \in calling |-> Tail(Rounds(a))]
      /\ \A j \in Incidents \ {i} : round'[j] = round[j] /\ stage'[j] = stage[j]
  BY <1>1 DEF SoarInv, SoarTypes
<1>10. CallsOK'
  <2>1. dryRun' => open' = {} /\ applied' = {}
    <3>1. dryRun => calls = {}
      BY <1>2, <1>5
    <3> QED
      BY <1>1, <3>1 DEF SoarInv, CallsOK
  <2>2. \A c \in open' : c[1] \in Incidents /\ c[2] \in DOMAIN result'[c[1]]
    <3>1. DOMAIN result'[i] = as
      BY <1>8
    <3>2. \A c \in calls : c[1] \in Incidents /\ c[2] \in DOMAIN result'[c[1]]
      BY <1>2, <1>5, <3>1
    <3>3. \A c \in open : c[1] \in Incidents \ {i} /\ c[2] \in DOMAIN result[c[1]]
      BY <1>7 DEF SoarInv, CallsOK
    <3>4. \A c \in open : c[1] \in Incidents /\ c[2] \in DOMAIN result'[c[1]]
      BY <1>8, <3>3
    <3> QED
      BY <1>1, <3>2, <3>4
  <2>3. \A c \in errors' \cup applied' : c[1] \in Incidents /\ stage'[c[1]] # "new"
    BY <1>1, <1>7, <1>9 DEF SoarInv, CallsOK
  <2>4. errors' \cap open' = {}
    BY <1>1, <1>5, <1>7 DEF SoarInv, CallsOK
  <2> QED
    BY <2>1, <2>2, <2>3, <2>4 DEF CallsOK
<1>11. StoreOK'
  BY <1>1 DEF SoarInv, StoreOK, Stored
<1>12. AuditOK'
  <2>1. Concluded' = Concluded
    BY <1>1, <1>9 DEF Concluded, as, SoarInv, SoarTypes
  <2>2. \A k \in 1..Len(audit) : audit[k].id \in Incidents \ {i}
    BY <1>1, AuditedIncidents DEF SoarInv, AuditOK
  <2>3. \A k \in 1..Len(audit) : /\ result'[audit[k].id] = result[audit[k].id]
                                 /\ stage'[audit[k].id] = stage[audit[k].id]
    BY <1>8, <1>9, <2>2
  <2>4. ASSUME NEW k \in 1..Len(audit)
        PROVE  /\ stage'[audit[k].id] = "over"
               /\ audit[k].success = Having(audit[k].id, "success")'
               /\ audit[k].failed = Having(audit[k].id, "failed")'
    <3>1. PICK j : j = audit[k].id
      OBVIOUS
    <3>2. /\ stage[j] = "over"
          /\ audit[k].success = Having(j, "success") /\ audit[k].failed = Having(j, "failed")
      BY <3>1 DEF SoarInv, AuditOK
    <3>3. Having(j, "success")' = Having(j, "success") /\ Having(j, "failed")' = Having(j, "failed")
      BY <2>3, <3>1 DEF Having
    <3>4. audit' = audit /\ stage'[j] = stage[j]
      BY <1>1, <2>3, <3>1
    <3> QED
      BY <3>1, <3>2, <3>3, <3>4
  <2> QED
    BY <1>1, <2>1, <2>4 DEF SoarInv, AuditOK
<1>13. IncidentOK(i)'
  <2>1. stage'[i] = IF as = {} THEN "over" ELSE "running"
    BY <1>1 DEF SoarInv, SoarTypes
  <2>2. Ended(i)' \/ as # {}
    BY <1>8 DEF Ended
  <2>3. RoundsOK(i)'
    <3>1. ASSUME NEW a \in calling, Tail(Rounds(a)) = Siem
          PROVE  <<i, a, "siem">> \notin errors' \cup open'
      <4>1. Head(Rounds(a)) = {"slack"}
        BY <1>3, <3>1 DEF Siem
      <4>2. <<i, a, "siem">> \notin calls
        BY <1>5, <4>1
      <4> QED
        BY <1>1, <1>7, <4>2
    <3> QED
      BY <1>3, <1>9, <3>1 DEF RoundsOK
  <2>4. ASSUME NEW a \in as
        PROVE  ActionOK(i, a)'
    <3>1. AppliedOf(i, a)' = {}
      BY <1>1, <1>7 DEF AppliedOf
    <3>2. OpenOf(i, a)' # {} <=> a \in calling
      <4>1. ASSUME a \in calling
            PROVE  OpenOf(i, a)' # {}
        <5>1. PICK x \in Head(Rounds(a)) : TRUE
          BY <1>3, <4>1
        <5>2. <<i, a, x>> \in open'
          BY <1>1, <1>5, <4>1, <5>1
        <5> QED
          BY <5>2 DEF OpenOf
      <4>2. ASSUME a \notin calling
            PROVE  OpenOf(i, a)' = {}
        BY <1>1, <1>5, <1>7, <4>2 DEF OpenOf
      <4> QED
        BY <4>1, <4>2
    <3>3. result'[i][a] = first(a)
      BY <1>8
    <3>4. a \in calling => a \in DOMAIN round'[i]
      BY <1>9
    <3> QED
      BY <1>4, <3>1, <3>2, <3>3, <3>4 DEF ActionOK
  <2> QED
    BY <1>8, <2>1, <2>2, <2>3, <2>4 DEF IncidentOK, as
<1>14. ASSUME NEW j \in Incidents \ {i}
       PROVE  IncidentOK(j)'
  <2>1. \A a : OpenOf(j, a)' = OpenOf(j, a) /\ AppliedOf(j, a)' = AppliedOf(j, a)
    BY <1>1, <1>5 DEF OpenOf, AppliedOf
  <2>2. \A a : <<j, a, "siem">> \in errors' \cup open' <=> <<j, a, "siem">> \in errors \cup open
    BY <1>1, <1>5
  <2>3. IncidentOK(j) /\ result'[j] = result[j] /\ round'[j] = round[j] /\ stage'[j] = stage[j]
    BY <1>8, <1>9 DEF SoarInv
  <2> QED
    BY <2>1, <2>2, <2>3 DEF IncidentOK, RoundsOK, ActionOK, Ended
<1> QED
  BY <1>6, <1>10, <1>11, <1>12, <1>13, <1>14 DEF SoarInv

(* An answered call: what GoOn makes of its action.                        *)
LEMMA GoOnKeeps ==
  ASSUME SoarInv, NEW made \in open, NEW errs, GoOn(made, errs),
         errs = errors \/ errs = errors \cup {made},
         applied \subseteq applied', applied' \subseteq applied \cup {made},
         errs = errors => made \in applied',
         UNCHANGED <<dryRun, stage, audit, rules>>
  PROVE  SoarInv'
<1> DEFINE i == made[1]
           a == made[2]
           mine == {c \in errs : c[1] = made[1] /\ c[2] = made[2]}
<1>1. i \in Incidents /\ a \in DOMAIN result[i]
  BY DEF SoarInv, CallsOK
<1>2. PICK quiet \in BOOLEAN : quiet <=> OpenOf(i, a) = {made}
  OBVIOUS
<1>3. PICK next : next = round[i][a]
  OBVIOUS
<1>4. /\ IncidentOK(i) /\ ActionOK(i, a) /\ made \in OpenOf(i, a) /\ result[i][a] = "pending"
      /\ a \in DOMAIN round[i] /\ next \in {<<>>, Siem}
      /\ next = Siem => <<i, a, "siem">> \notin errors \cup open
  BY <1>1, <1>3 DEF SoarInv, IncidentOK, RoundsOK, ActionOK, OpenOf
<1>5. stage[i] = "running" /\ Siem # <<>> /\ Head(Siem) = {"siem"} /\ Tail(Siem) = <<>>
  <2>1. stage[i] # "over"
    BY <1>1, <1>4 DEF IncidentOK, Ended
  <2>2. stage[i] # "new"
    BY <1>1, <1>4 DEF IncidentOK
  <2> QED
    BY <1>1, <2>1, <2>2 DEF SoarInv, SoarTypes, Siem
<1> DEFINE more == IF quiet /\ next # <<>> THEN {<<i, a, "siem">>} ELSE {}
<1>6. /\ errors' = errs
      /\ open' = (open \ {made}) \cup more
      /\ round' = IF quiet /\ next # <<>> THEN [round EXCEPT ![i][a] = <<>>] ELSE round
      /\ result' = IF quiet /\ next = <<>> THEN [result EXCEPT ![i][a] = Returned(a, mine)]
                   ELSE result
  <2>1. next # <<>> => Calls(i, a, Head(next)) = {<<i, a, "siem">>} /\ Tail(next) = <<>>
    BY <1>4, <1>5 DEF Calls
  <2>2. /\ errors' = errs
        /\ open' = IF quiet /\ next # <<>> THEN (open \ {made}) \cup Calls(i, a, Head(next)) ELSE open \ {made}
        /\ round' = IF quiet /\ next # <<>> THEN [round EXCEPT ![i][a] = Tail(next)] ELSE round
        /\ result' = IF quiet /\ next = <<>> THEN [result EXCEPT ![i][a] = Returned(a, mine)]
                     ELSE result
    BY <1>2, <1>3 DEF GoOn
  <2> QED
    BY <2>1, <2>2
<1>7. /\ \A c \in more : c[1] = i /\ c[2] = a /\ c \notin errs /\ c \notin open
      /\ more # {} => more = {<<i, a, "siem">>} /\ quiet /\ next = Siem
  <2>1. more # {} => quiet /\ next = Siem /\ more = {<<i, a, "siem">>}
    BY <1>4
  <2>2. next = Siem => <<i, a, "siem">> \notin errs
    BY <1>4
  <2> QED
    BY <1>4, <2>1, <2>2
<1>8. mine \subseteq errs /\ (made \in errs => mine # {}) /\ (errs = errors => made \in applied')
  OBVIOUS
<1>9. Returned(a, mine) = "success" \/ Returned(a, mine) = "failed"
  BY DEF Returned
<1>10. a \in Checked /\ Returned(a, mine) = "success" => AppliedOf(i, a)' # {}
  <2>1. a \in Checked /\ Returned(a, mine) = "success" => mine = {}
    BY DEF Returned
  <2>2. mine = {} => made \in applied'
    BY <1>8
  <2>3. made \in applied' => made \in AppliedOf(i, a)'
    BY DEF AppliedOf
  <2> QED
    BY <2>1, <2>2, <2>3
<1> HIDE DEF i, a, mine, more
<1>11. /\ \A j \in Incidents : \A b \in DOMAIN result[j] : <<j, b>> # <<i, a>> => result'[j][b] = result[j][b]
       /\ \A j \in Incidents : j # i => result'[j] = result[j]
       /\ \A j \in Incidents : DOMAIN result'[j] = DOMAIN result[j]
       /\ result'[i][a] = IF quiet /\ next = <<>> THEN Returned(a, mine) ELSE "pending"
  BY <1>1, <1>4, <1>6 DEF SoarInv, SoarTypes
<1>12. /\ \A j \in Incidents : DOMAIN round'[j] = DOMAIN round[j]
       /\ \A j \in Incidents : \A b \in DOMAIN round[j] : <<j, b>> # <<i, a>> => round'[j][b] = round[j][b]
       /\ round'[i][a] = IF quiet /\ next # <<>> THEN <<>> ELSE next
  BY <1>1, <1>3, <1>4, <1>6 DEF SoarInv, SoarTypes
<1>13. SoarTypes'
  BY <1>6 DEF SoarInv, SoarTypes
<1>14. CallsOK'
  <2>1. ~dryRun
    BY DEF SoarInv, CallsOK
  <2>2. \A c \in open' : c[1] \in Incidents /\ c[2] \in DOMAIN result'[c[1]]
    BY <1>1, <1>6, <1>7, <1>11 DEF SoarInv, CallsOK
  <2>3. \A c \in errors' \cup applied' : c[1] \in Incidents /\ stage'[c[1]] # "new"
    <3>1. stage[made[1]] # "new" /\ made[1] \in Incidents
      BY <1>1, <1>5 DEF i
    <3> QED
      BY <1>6, <3>1 DEF SoarInv, CallsOK
  <2>4. errors' \cap open' = {}
    BY <1>6, <1>7 DEF SoarInv, CallsOK
  <2> QED
    BY <2>1, <2>2, <2>3, <2>4 DEF CallsOK
<1>15. StoreOK'
  BY DEF SoarInv, StoreOK, Stored
<1>16. AuditOK'
  <2>1. \A j \in Incidents : stage[j] = "over" => result'[j] = result[j]
    BY <1>5, <1>11
  <2> QED
    BY <2>1, AuditStays DEF SoarInv
<1>17. ASSUME NEW j \in Incidents
       PROVE  IncidentOK(j)'
  <2>1. RoundsOK(j)'
    <3>1. ASSUME NEW b \in DOMAIN round[j]
          PROVE  /\ round'[j][b] \in {<<>>, Siem}
                 /\ round'[j][b] = Siem => <<j, b, "siem">> \notin errors' \cup open'
      <4>1. /\ round[j][b] \in {<<>>, Siem}
            /\ round[j][b] = Siem => <<j, b, "siem">> \notin errors \cup open
        BY DEF SoarInv, IncidentOK, RoundsOK
      <4>2. CASE <<j, b>> # <<i, a>>
        <5>1. round'[j][b] = round[j][b]
          BY <1>12, <4>2
        <5>2. <<j, b, "siem">> \notin more
          BY <1>7, <4>2
        <5>3. round[j][b] = Siem => <<j, b, "siem">> # made
          BY <4>1
        <5> QED
          BY <1>6, <4>1, <5>1, <5>2, <5>3
      <4>3. CASE j = i /\ b = a
        <5>1. round'[j][b] = Siem => next = Siem /\ more = {}
          BY <1>4, <1>5, <1>12, <4>3 DEF more
        <5>2. next = Siem => <<j, b, "siem">> # made
          BY <1>4, <4>3
        <5> QED
          BY <1>4, <1>6, <1>12, <4>3, <5>1, <5>2
      <4> QED
        BY <4>2, <4>3
    <3> QED
      BY <1>12, <3>1 DEF RoundsOK
  <2>2. ASSUME NEW b \in DOMAIN result[j]
        PROVE  ActionOK(j, b)'
    <3>1. ActionOK(j, b)
      BY DEF SoarInv, IncidentOK
    <3>2. CASE <<j, b>> # <<i, a>>
      <4>1. OpenOf(j, b)' = OpenOf(j, b)
        BY <1>6, <1>7, <3>2 DEF OpenOf, i, a
      <4>2. AppliedOf(j, b)' = AppliedOf(j, b)
        BY <3>2 DEF AppliedOf, i, a
      <4>3. result'[j][b] = result[j][b] /\ DOMAIN round'[j] = DOMAIN round[j]
        BY <1>11, <1>12, <3>2
      <4> QED
        BY <3>1, <4>1, <4>2, <4>3 DEF ActionOK
    <3>3. CASE j = i /\ b = a
      <4>1. CASE quiet /\ next = <<>>
        <5>1. OpenOf(i, a)' = {}
          BY <1>2, <1>6, <4>1 DEF OpenOf, more
        <5>2. result'[i][a] = Returned(a, mine)
          BY <1>11, <4>1
        <5> QED
          BY <1>9, <1>10, <3>3, <5>1, <5>2 DEF ActionOK
      <4>2. CASE ~(quiet /\ next = <<>>)
        <5>1. OpenOf(i, a)' # {}
          <6>1. CASE quiet
            <7>1. <<i, a, "siem">> \in open'
              BY <1>6, <4>2, <6>1 DEF more
            <7> QED
              BY <7>1 DEF OpenOf
          <6>2. CASE ~quiet
            <7>1. PICK c \in OpenOf(i, a) : c # made
              BY <1>2, <1>4, <6>2
            <7> QED
              BY <1>6, <7>1 DEF OpenOf
          <6> QED
            BY <6>1, <6>2
        <5>2. result'[i][a] = "pending" /\ a \in DOMAIN round'[i]
          BY <1>1, <1>4, <1>11, <1>12, <4>2
        <5> QED
          BY <3>3, <5>1, <5>2 DEF ActionOK
      <4> QED
        BY <4>1, <4>2
    <3> QED
      BY <3>2, <3>3
  <2>3. stage[j] = "over" => Ended(j)'
    <3>1. stage[j] = "over" => Ended(j) /\ result'[j] = result[j]
      BY <1>5, <1>11 DEF SoarInv, IncidentOK
    <3> QED
      BY <3>1 DEF Ended
  <2>4. DOMAIN result'[j] = IF stage'[j] = "new" THEN {} ELSE Recommended[j]
    BY <1>11 DEF SoarInv, IncidentOK
  <2>5. stage'[j] = "running" => Recommended[j] # {}
    BY <1>11 DEF SoarInv, IncidentOK
  <2> QED
    BY <1>11, <2>1, <2>2, <2>3, <2>4, <2>5 DEF IncidentOK
<1> QED
  BY <1>13, <1>14, <1>15, <1>16, <1>17 DEF SoarInv

LEMMA AnswerKeeps ==
  ASSUME SoarInv, NEW made \in open, AnswerOk(made) \/ CallRaises(made)
  PROVE  SoarInv'
<1>1. CASE AnswerOk(made)
  BY <1>1, GoOnKeeps DEF AnswerOk
<1>2. CASE CallRaises(made)
  <2>1. errors \cup {made} # errors
    BY DEF SoarInv, CallsOK
  <2>2. /\ GoOn(made, errors \cup {made})
        /\ applied \subseteq applied' /\ applied' \subseteq applied \cup {made}
        /\ UNCHANGED <<dryRun, stage, audit, rules>>
    BY <1>2 DEF CallRaises
  <2> QED
    BY <2>1, <2>2, GoOnKeeps
<1> QED
  BY <1>1, <1>2

LEMMA TimeoutKeeps ==
  ASSUME SoarInv, NEW i \in Incidents, NEW a \in DOMAIN result[i], ActionTimesOut(i, a)
  PROVE  SoarInv'
<1>1. /\ open' = open \ OpenOf(i, a) /\ OpenOf(i, a) # {}
      /\ result' = [result EXCEPT ![i][a] = "failed"]
      /\ applied \subseteq applied' /\ applied' \subseteq applied \cup OpenOf(i, a)
      /\ UNCHANGED <<dryRun, stage, round, errors, audit, rules>>
  BY DEF ActionTimesOut
<1>2. IncidentOK(i) /\ ActionOK(i, a) /\ result[i][a] = "pending" /\ OpenOf(i, a) \subseteq open
  BY <1>1 DEF SoarInv, IncidentOK, ActionOK, OpenOf
<1>3. stage[i] = "running"
  BY <1>2 DEF IncidentOK, Ended, SoarInv, SoarTypes
<1>4. /\ \A j \in Incidents : \A b \in DOMAIN result[j] : <<j, b>> # <<i, a>> => result'[j][b] = result[j][b]
      /\ \A j \in Incidents : j # i => result'[j] = result[j]
      /\ \A j \in Incidents : DOMAIN result'[j] = DOMAIN result[j]
      /\ result'[i][a] = "failed"
  BY <1>1 DEF SoarInv, SoarTypes
<1>5. SoarTypes'
  BY <1>1 DEF SoarInv, SoarTypes
<1>6. CallsOK'
  <2>1. ~dryRun
    BY <1>1, <1>2 DEF SoarInv, CallsOK
  <2>2. \A c \in OpenOf(i, a) : c[1] = i
    BY DEF OpenOf
  <2> QED
    BY <1>1, <1>2, <1>3, <1>4, <2>1, <2>2 DEF SoarInv, CallsOK
<1>7. StoreOK'
  BY <1>1 DEF SoarInv, StoreOK, Stored
<1>8. AuditOK'
  <2>1. \A j \in Incidents : stage[j] = "over" => result'[j] = result[j]
    BY <1>3, <1>4
  <2> QED
    BY <1>1, <2>1, AuditStays DEF SoarInv
<1>9. ASSUME NEW j \in Incidents
      PROVE  IncidentOK(j)'
  <2>1. RoundsOK(j)'
    BY <1>1 DEF SoarInv, IncidentOK, RoundsOK
  <2>2. ASSUME NEW b \in DOMAIN result[j]
        PROVE  ActionOK(j, b)'
    <3>1. ActionOK(j, b)
      BY DEF SoarInv, IncidentOK
    <3>2. CASE <<j, b>> # <<i, a>>
      <4>1. OpenOf(j, b)' = OpenOf(j, b)
        BY <1>1, <3>2 DEF OpenOf
      <4>2. AppliedOf(j, b)' = AppliedOf(j, b)
        BY <1>1, <3>2 DEF AppliedOf, OpenOf
      <4>3. result'[j][b] = result[j][b]
        BY <1>4, <3>2
      <4> QED
        BY <1>1, <3>1, <4>1, <4>2, <4>3 DEF ActionOK
    <3>3. CASE j = i /\ b = a
      <4>1. OpenOf(i, a)' = {}
        BY <1>1 DEF OpenOf
      <4> QED
        BY <1>4, <3>3, <4>1 DEF ActionOK
    <3> QED
      BY <3>2, <3>3
  <2>3. stage[j] = "over" => Ended(j)'
    <3>1. stage[j] = "over" => Ended(j) /\ result'[j] = result[j]
      BY <1>3, <1>4 DEF SoarInv, IncidentOK
    <3> QED
      BY <3>1 DEF Ended
  <2>4. DOMAIN result'[j] = IF stage'[j] = "new" THEN {} ELSE Recommended[j]
    BY <1>1, <1>4 DEF SoarInv, IncidentOK
  <2>5. stage'[j] = "running" => Recommended[j] # {}
    BY <1>1 DEF SoarInv, IncidentOK
  <2> QED
    BY <1>1, <1>4, <2>1, <2>2, <2>3, <2>4, <2>5 DEF IncidentOK
<1> QED
  BY <1>5, <1>6, <1>7, <1>8, <1>9 DEF SoarInv

(* A log that is one entry too long loses its first.                       *)
LEMMA KeptLog ==
  ASSUME NEW S, NEW log \in Seq(S), Len(log) \in 1..(AuditMax + 1)
  PROVE  /\ Kept(log) \in Seq(S)
         /\ \E d \in {0, 1} : /\ d = IF Len(log) > AuditMax THEN 1 ELSE 0
                              /\ Len(Kept(log)) = Len(log) - d
                              /\ \A k \in 1..(Len(log) - d) : Kept(log)[k] = log[k + d]
<1>1. AuditMax \in Nat /\ AuditMax > 0
  BY SoarAssumption
<1>2. PICK n \in Nat : Len(log) = n
  BY LenProperties
<1>3. CASE n <= AuditMax
  <2>1. Kept(log) = log
    BY <1>1, <1>2, <1>3 DEF Kept
  <2>2. \A k \in 1..(n - 0) : k + 0 = k
    OBVIOUS
  <2> QED
    BY <1>1, <1>2, <1>3, <2>1, <2>2
<1>4. CASE n = AuditMax + 1
  <2>1. Kept(log) = SubSeq(log, 2, n)
    BY <1>1, <1>2, <1>4 DEF Kept
  <2>2. \A i \in 2..n : log[i] \in S
    BY <1>2, ElementOfSeq
  <2>3. 2 \in Int /\ n \in Int /\ n >= 2
    BY <1>1, <1>4
  <2>4. PICK u : u = SubSeq(log, 2, n)
    OBVIOUS
  <2>5. /\ u \in Seq(S)
        /\ Len(u) = IF 2 <= n THEN n - 2 + 1 ELSE 0
        /\ \A i \in 1..(n - 2 + 1) : u[i] = log[2 + i - 1]
    BY <2>2, <2>3, <2>4, SubSeqProperties
  <2>6. Len(u) = n - 1 /\ \A k \in 1..(n - 1) : u[k] = log[k + 1]
    BY <2>3, <2>5
  <2> QED
    BY <1>1, <1>2, <1>4, <2>1, <2>4, <2>5, <2>6
<1> QED
  BY <1>1, <1>2, <1>3, <1>4

LEMMA ConcludeKeeps ==
  ASSUME SoarInv, NEW i \in Incidents, Conclude(i)
  PROVE  SoarInv'
<1> DEFINE entry == [id |-> i, success |-> Having(i, "success"), failed |-> Having(i, "failed")]
           log == Append(audit, entry)
<1>1. /\ stage[i] = "running" /\ Ended(i)
      /\ stage' = [stage EXCEPT ![i] = "over"]
      /\ audit' = Kept(log)
      /\ UNCHANGED <<dryRun, result, round, open, errors, applied, rules>>
  BY DEF Conclude
<1>2. /\ stage'[i] = "over" /\ \A j \in Incidents \ {i} : stage'[j] = stage[j]
      /\ SoarTypes'
  BY <1>1 DEF SoarInv, SoarTypes
<1>3. CallsOK' /\ StoreOK'
  <2>1. \A j \in Incidents : stage[j] # "new" => stage'[j] # "new"
    BY <1>2
  <2> QED
    BY <1>1, <2>1 DEF SoarInv, CallsOK, StoreOK, Stored
<1>4. ASSUME NEW j \in Incidents
      PROVE  IncidentOK(j)'
  <2>1. IncidentOK(j) /\ (stage'[j] = "new" <=> stage[j] = "new")
    BY <1>1, <1>2 DEF SoarInv
  <2>2. stage'[j] = "over" => Ended(j)
    BY <1>1, <1>2, <2>1 DEF IncidentOK
  <2>3. RoundsOK(j)' /\ (\A a \in DOMAIN result[j] : ActionOK(j, a)') /\ (Ended(j)' <=> Ended(j))
    BY <1>1, <2>1 DEF IncidentOK, RoundsOK, ActionOK, Ended, OpenOf, AppliedOf
  <2> QED
    BY <1>1, <2>1, <2>2, <2>3 DEF IncidentOK
<1>5. AuditOK'
  <2>1. Recommended[i] # {} /\ DOMAIN result[i] = Recommended[i]
    <3>1. CallsOK /\ IncidentOK(i)
      BY DEF SoarInv
    <3>2. DOMAIN result[i] = Recommended[i]
      BY <1>1, <3>1 DEF IncidentOK
    <3>3. Recommended[i] # {}
      BY <1>1, <3>1 DEF IncidentOK
    <3> QED
      BY <3>2, <3>3
  <2>2. entry \in Entries
    BY <2>1 DEF Entries, Having
  <2>3. PICK n \in Nat : Len(audit) = n /\ audit \in Seq(Entries)
    BY LenProperties DEF SoarInv, AuditOK
  <2>4. AuditMax \in Nat /\ AuditMax > 0 /\ IsFiniteSet(Concluded) /\ i \notin Concluded
    BY <1>1, SoarAssumption DEF SoarInv, AuditOK, Concluded
  <2>5. PICK m \in Nat : Cardinality(Concluded) = m
    BY <2>4, FS_CardinalityType
  <2>6. n = IF m > AuditMax THEN AuditMax ELSE m
    BY <2>3, <2>5 DEF SoarInv, AuditOK
  <2>7. Concluded' = Concluded \cup {i}
    BY <1>1, <1>2, <2>1 DEF Concluded
  <2>8. IsFiniteSet(Concluded') /\ Cardinality(Concluded') = m + 1
    BY <2>4, <2>5, <2>7, FS_AddElement
  <2>9. PICK l \in Seq(Entries) : l = log
    BY <2>2, <2>3, AppendProperties
  <2> HIDE DEF log
  <2>10. /\ Len(l) = n + 1 /\ l[n + 1] = entry
         /\ \A k \in 1..n : l[k] = audit[k]
    BY <2>2, <2>3, <2>9, AppendProperties DEF log
  <2>11. Len(l) \in 1..(AuditMax + 1)
    BY <2>4, <2>6, <2>10
  <2>12. PICK d \in {0, 1} : /\ d = IF Len(l) > AuditMax THEN 1 ELSE 0
                             /\ Len(Kept(l)) = Len(l) - d
                             /\ \A k \in 1..(Len(l) - d) : Kept(l)[k] = l[k + d]
    BY <2>11, KeptLog
  <2>13. PICK u : u = Kept(l)
    OBVIOUS
  <2>14. u \in Seq(Entries) /\ audit' = u /\ Len(u) = n + 1 - d
    BY <1>1, <2>9, <2>10, <2>11, <2>12, <2>13, KeptLog
  <2>15. \A k \in 1..(n + 1 - d) : k + d \in 1..(n + 1) /\ u[k] = l[k + d]
    BY <2>10, <2>12, <2>13
  <2> HIDE DEF entry
  <2>16. \A k \in 1..(n + 1) : /\ stage'[l[k].id] = "over"
                               /\ l[k].success = Having(l[k].id, "success")
                               /\ l[k].failed = Having(l[k].id, "failed")
    <3>1. ASSUME NEW k \in 1..n
          PROVE  /\ stage'[l[k].id] = "over"
                 /\ l[k].success = Having(l[k].id, "success")
                 /\ l[k].failed = Having(l[k].id, "failed")
      <4>1. PICK j \in Incidents : j = audit[k].id
        BY <2>3, AuditedIncidents DEF SoarInv
      <4>2. /\ stage[j] = "over" /\ audit[k].success = Having(j, "success")
            /\ audit[k].failed = Having(j, "failed")
        BY <2>3, <4>1 DEF SoarInv, AuditOK
      <4>3. stage'[j] = "over"
        BY <1>2, <4>2
      <4> QED
        BY <2>10, <4>1, <4>2, <4>3
    <3>2. /\ stage'[entry.id] = "over"
          /\ entry.success = Having(entry.id, "success")
          /\ entry.failed = Having(entry.id, "failed")
      BY <1>2 DEF entry
    <3> QED
      BY <2>10, <3>1, <3>2
  <2>17. \A j, k \in 1..(n + 1) : l[j].id = l[k].id => j = k
    <3>1. \A k \in 1..n : l[k].id # i
      BY <1>1, <2>3, <2>10 DEF SoarInv, AuditOK
    <3>2. l[n + 1].id = i
      BY <2>10 DEF entry
    <3>3. \A j, k \in 1..n : l[j].id = l[k].id => j = k
      BY <2>3, <2>10 DEF SoarInv, AuditOK
    <3> QED
      BY <3>1, <3>2, <3>3
  <2>18. \A k \in 1..(n + 1 - d) :
           /\ stage'[u[k].id] = "over"
           /\ u[k].success = Having(u[k].id, "success")
           /\ u[k].failed = Having(u[k].id, "failed")
    BY <2>15, <2>16
  <2>19. \A j, k \in 1..(n + 1 - d) : u[j].id = u[k].id => j = k
    <3> SUFFICES ASSUME NEW j \in 1..(n + 1 - d), NEW k \in 1..(n + 1 - d), u[j].id = u[k].id
                 PROVE  j = k
      OBVIOUS
    <3>1. /\ j + d \in 1..(n + 1) /\ l[j + d] = u[j]
          /\ k + d \in 1..(n + 1) /\ l[k + d] = u[k]
      BY <2>15
    <3>2. \A x, y \in 1..(n + 1) : x = y \/ l[x].id # l[y].id
      BY <2>17
    <3>3. l[j + d].id = l[k + d].id
      BY <3>1
    <3>4. j + d = k + d
      BY <3>1, <3>2, <3>3
    <3> QED
      BY <3>4
  <2>20. n + 1 - d = IF m + 1 > AuditMax THEN AuditMax ELSE m + 1
    BY <2>4, <2>6, <2>10, <2>12
  <2>21. \A j, s : Having(j, s)' = Having(j, s)
    BY <1>1 DEF Having
  <2> QED
    BY <2>8, <2>14, <2>18, <2>19, <2>20, <2>21 DEF AuditOK
<1> QED
  BY <1>2, <1>3, <1>4, <1>5 DEF SoarInv

(* A reported success was carried out, a skipped action touched nothing,   *)
(* and the audit log says what came of every incident, however calls fail, *)
(* time out or are carried out although they failed.                       *)
THEOREM SoarReportsAreAlwaysReal == SoarSpec => []SoarReportsAreReal
<1>1. SoarInit => SoarInv
  <2> SUFFICES ASSUME SoarInit
               PROVE  SoarInv
    OBVIOUS
  <2>1. SoarTypes /\ CallsOK
    BY SoarAssumption DEF SoarInit, SoarTypes, CallsOK
  <2>2. StoreOK
    BY DEF SoarInit, StoreOK, Stored
  <2>3. AuditOK
    <3>1. Concluded = {}
      BY DEF SoarInit, Concluded
    <3>2. IsFiniteSet(Concluded) /\ Cardinality(Concluded) = 0
      BY <3>1, FS_EmptySet
    <3>3. audit \in Seq(Entries) /\ Len(audit) = 0
      BY DEF SoarInit
    <3> QED
      BY <3>2, <3>3, SoarAssumption DEF AuditOK
  <2>4. \A i \in Incidents : IncidentOK(i)
    BY DEF SoarInit, IncidentOK, RoundsOK
  <2> QED
    BY <2>1, <2>2, <2>3, <2>4 DEF SoarInv
<1>2. SoarInv /\ [SoarNext]_soarVars => SoarInv'
  <2> SUFFICES ASSUME SoarInv, [SoarNext]_soarVars
               PROVE  SoarInv'
    OBVIOUS
  <2>1. CASE \E i \in Incidents : Execute(i)
    BY <2>1, ExecuteKeeps
  <2>2. CASE \E made \in open : AnswerOk(made) \/ CallRaises(made)
    BY <2>2, AnswerKeeps
  <2>3. CASE \E i \in Incidents : \E a \in DOMAIN result[i] : ActionTimesOut(i, a)
    BY <2>3, TimeoutKeeps
  <2>4. CASE \E i \in Incidents : Conclude(i)
    BY <2>4, ConcludeKeeps
  <2>5. CASE StoreNext
    BY <2>5, StoreKeeps
  <2>6. CASE UNCHANGED soarVars
    <3>1. UNCHANGED <<dryRun, stage, result, round, open, errors, applied, audit, rules>>
      BY <2>6 DEF soarVars
    <3>2. AuditOK'
      BY <3>1, AuditStays DEF SoarInv
    <3> QED
      BY <3>1, <3>2 DEF SoarInv, SoarTypes, CallsOK, StoreOK, Stored, IncidentOK, RoundsOK, ActionOK,
                        Ended, OpenOf, AppliedOf
  <2> QED
    BY <2>1, <2>2, <2>3, <2>4, <2>5, <2>6 DEF SoarNext, IncidentNext, SoarStep
<1> QED
  BY <1>1, <1>2, SoarInvReports, PTL DEF SoarSpec

-----------------------------------------------------------------------------
(* EventHub.  What a client has received lies before the message that is   *)
(* being broadcast, for every client that the iterator has still to reach: *)
(* a removal only moves clients towards the part that is done.             *)
HubTypes ==
  /\ socket \in [Clients -> {"none", "open", "closed"}]
  /\ endpoint \in [Clients -> {"none", "on", "gone"}]
  /\ connections \in Seq(Clients)
  /\ gauge \in Int /\ index \in Nat \ {0}
  /\ sent \in 0..Published /\ current \in 0..sent
  /\ channel \in Seq(1..sent)
  /\ dead \in Seq(Clients)
  /\ got \in [Clients -> Seq(Nat)]

Listed ==
  /\ Distinct(connections)
  /\ \A c \in Clients : /\ socket[c] = "open" => c \in ToSet(connections)
                        /\ socket[c] = "none" => c \notin ToSet(connections) /\ got[c] = <<>>
  /\ \A c \in ToSet(dead) : socket[c] = "closed"
  /\ gauge <= Len(connections)

Coming ==
  /\ \A i, j \in 1..Len(channel) : i < j => channel[i] < channel[j]
  /\ \A i \in 1..Len(channel) : current < channel[i]

Received ==
  \A c \in Clients : \A j \in 1..Len(got[c]) :
    /\ \A i \in 1..Len(got[c]) : i < j => got[c][i] < got[c][j]
    /\ \A i \in 1..Len(channel) : got[c][j] < channel[i]
    /\ got[c][j] <= sent
    /\ current # 0 => got[c][j] <= current

Unserved ==
  current # 0 =>
    \A i \in 1..Len(connections) : i >= index =>
      \A j \in 1..Len(got[connections[i]]) : got[connections[i]][j] < current

HubInv == HubTypes /\ Listed /\ Coming /\ Received /\ Unserved

LEMMA HubInvOrders == HubInv => OrderedOnce
<1> SUFFICES ASSUME HubInv
             PROVE  OrderedOnce
  OBVIOUS
<1>1. ToSet(connections) \subseteq Clients
  BY ElementsOf DEF HubInv, HubTypes
<1>2. current \in 0..Published
  BY HubAssumption DEF HubInv, HubTypes
<1>3. HubTypeOK
  BY <1>1, <1>2 DEF HubInv, HubTypes, HubTypeOK
<1>4. \A c \in Clients : \A i, j \in 1..Len(got[c]) : i < j => got[c][i] < got[c][j]
  BY DEF HubInv, Received
<1>5. \A i, j \in 1..Len(connections) : connections[i] = connections[j] => i = j
  BY DEF HubInv, Listed, Distinct
<1> QED
  BY <1>3, <1>4, <1>5 DEF HubInv, Listed, OrderedOnce

(* Those who are removed have closed their sockets; the others stay in     *)
(* their order, none of them further from the head of the list.            *)
LEMMA DisconnectRemoves ==
  ASSUME HubTypes, Listed, NEW cs \in Seq(Clients), Disconnect(cs)
  PROVE  /\ connections' \in Seq(Clients) /\ Distinct(connections')
         /\ ToSet(connections') = ToSet(connections) \ ToSet(cs)
         /\ gauge' \in Int /\ gauge' <= Len(connections')
         /\ \A n \in 1..Len(connections') :
              \E i \in 1..Len(connections) : n <= i /\ connections'[n] = connections[i]
<1> DEFINE K == {i \in 1..Len(connections) : connections[i] \notin ToSet(cs)}
           u == AtPositions(connections, K)
<1>1. PICK l \in Nat : Len(connections) = l /\ DOMAIN connections = 1..l
  BY LenProperties DEF HubTypes
<1>2. connections' = u
  BY <1>1 DEF Disconnect
<1>3. connections \in Seq(Clients) /\ Distinct(connections) /\ K \in SUBSET (1..Len(connections))
  BY DEF HubTypes, Listed
<1>4. /\ Cardinality(K) \in Nat /\ Cardinality(K) >= l - Len(cs)
  BY <1>1, <1>3, RemovedAtMost
<1> HIDE DEF K
<1>5. PICK N \in Nat : N = Cardinality(K)
  BY <1>4
<1>6. u \in Seq(Clients) /\ Len(u) = N
  BY <1>3, <1>5, PositionsKept
<1>7. PICK p \in [1..N -> K] :
        /\ \A n \in 1..N : u[n] = connections[p[n]]
        /\ \A m, n \in 1..N : m < n => p[m] < p[n]
        /\ \A i \in K : \E n \in 1..N : p[n] = i
  BY <1>3, <1>5, PositionsKept, SMTT(30)
<1>8. Distinct(u) /\ ToSet(u) = {connections[i] : i \in K}
  BY <1>3, KeptOfDistinct
<1> HIDE DEF u
<1>9. ToSet(u) = ToSet(connections) \ ToSet(cs)
  <2>1. ToSet(connections) = {connections[i] : i \in 1..Len(connections)}
    BY <1>3, ElementsOf
  <2> QED
    BY <1>8, <2>1 DEF K
<1>10. gauge' \in Int /\ gauge' <= Len(u)
  <2>1. PICK n \in Nat : Len(cs) = n
    BY LenProperties
  <2>2. gauge' = gauge - n
    BY <2>1 DEF Disconnect
  <2> QED
    BY <1>1, <1>4, <1>6, <1>5, <2>1, <2>2 DEF HubTypes, Listed
<1>11. ASSUME NEW n \in 1..N
       PROVE  \E i \in 1..Len(connections) : n <= i /\ u[n] = connections[i]
  <2>1. K \in SUBSET (1..l)
    BY <1>1, <1>3
  <2>2. n <= p[n]
    BY <1>7, <2>1, KeptComeEarlier
  <2>3. p[n] \in 1..Len(connections)
    BY <1>3
  <2> QED
    BY <1>7, <2>2, <2>3
<1> QED
  BY <1>2, <1>6, <1>8, <1>9, <1>10, <1>11

LEMMA ConnectKeeps ==
  ASSUME HubInv, NEW c \in Clients, Connect(c)
  PROVE  HubInv'
<1>1. /\ socket[c] = "none"
      /\ socket' = [socket EXCEPT ![c] = "open"]
      /\ endpoint' = [endpoint EXCEPT ![c] = "on"]
      /\ connections' = Append(connections, c)
      /\ gauge' = gauge + 1
      /\ sent' = sent /\ channel' = channel /\ current' = current /\ index' = index
      /\ dead' = dead /\ got' = got
  BY DEF Connect
<1>2. PICK l \in Nat : Len(connections) = l
  BY LenProperties DEF HubInv, HubTypes
<1>3. PICK u : u = Append(connections, c)
  OBVIOUS
<1>4. c \notin ToSet(connections) /\ got[c] = <<>>
  BY <1>1 DEF HubInv, Listed
<1>5. /\ u \in Seq(Clients) /\ Distinct(u)
      /\ ToSet(u) = ToSet(connections) \cup {c}
  BY <1>3, <1>4, AppendedOfDistinct DEF HubInv, HubTypes, Listed
<1>6. /\ Len(u) = l + 1 /\ u[l + 1] = c
      /\ \A i \in 1..l : u[i] = connections[i]
  BY <1>2, <1>3, AppendProperties DEF HubInv, HubTypes
<1>7. connections' = u
  BY <1>1, <1>3
<1>8. HubTypes'
  BY <1>1, <1>5, <1>7 DEF HubInv, HubTypes
<1>9. Listed'
  <2>1. \A d \in Clients : socket'[d] = IF d = c THEN "open" ELSE socket[d]
    BY <1>1 DEF HubInv, HubTypes
  <2>2. \A d \in ToSet(dead) : d \in Clients
    BY ElementsOf DEF HubInv, HubTypes
  <2>3. \A d \in ToSet(dead) : socket'[d] = "closed"
    BY <1>1, <2>1, <2>2 DEF HubInv, Listed
  <2>4. gauge' <= Len(u)
    BY <1>1, <1>2, <1>6 DEF HubInv, HubTypes, Listed
  <2> QED
    BY <1>1, <1>5, <1>7, <2>1, <2>3, <2>4 DEF HubInv, Listed
<1>10. Coming' /\ Received'
  BY <1>1 DEF HubInv, Coming, Received
<1>11. Unserved'
  <2> SUFFICES ASSUME current # 0, NEW i \in 1..(l + 1), i >= index, NEW j \in 1..Len(got[u[i]])
               PROVE  got[u[i]][j] < current
    BY <1>1, <1>6, <1>7 DEF Unserved
  <2>1. CASE i = l + 1
    BY <1>4, <1>6, <2>1
  <2>2. CASE i \in 1..l
    BY <1>2, <1>6, <2>2 DEF HubInv, Unserved
  <2> QED
    BY <2>1, <2>2
<1> QED
  BY <1>8, <1>9, <1>10, <1>11 DEF HubInv

LEMMA LeaveKeeps ==
  ASSUME HubInv, NEW c \in Clients,
         \/ ClientLeaves(c)
         \/ EndpointFails(c)
  PROVE  HubInv'
<1>1. /\ socket' \in [Clients -> {"none", "open", "closed"}]
      /\ endpoint' \in [Clients -> {"none", "on", "gone"}]
      /\ \A d \in Clients : /\ socket'[d] = "open" => socket[d] = "open"
                            /\ socket'[d] = "none" => socket[d] = "none"
                            /\ socket[d] = "closed" => socket'[d] = "closed"
  BY DEF ClientLeaves, EndpointFails, HubInv, HubTypes
<1>2. /\ connections' = connections /\ gauge' = gauge /\ sent' = sent /\ channel' = channel
      /\ current' = current /\ index' = index /\ dead' = dead /\ got' = got
  BY DEF ClientLeaves, EndpointFails
<1>3. \A d \in ToSet(dead) : d \in Clients
  BY ElementsOf DEF HubInv, HubTypes
<1>4. HubTypes'
  BY <1>1, <1>2 DEF HubInv, HubTypes
<1>5. Listed'
  BY <1>1, <1>2, <1>3 DEF HubInv, Listed
<1> QED
  BY <1>2, <1>4, <1>5 DEF HubInv, Coming, Received, Unserved

LEMMA EndpointDisconnectsKeeps ==
  ASSUME HubInv, NEW c \in Clients, EndpointDisconnects(c)
  PROVE  HubInv'
<1>1. /\ socket[c] = "closed" /\ socket' = socket
      /\ endpoint' = [endpoint EXCEPT ![c] = "gone"]
      /\ Disconnect(<<c>>)
      /\ sent' = sent /\ channel' = channel /\ current' = current /\ index' = index
      /\ dead' = dead /\ got' = got
  BY DEF EndpointDisconnects
<1>2. PICK cs : cs = <<c>>
  OBVIOUS
<1>3. cs \in Seq(Clients) /\ ToSet(cs) = {c}
  <2>1. cs \in Seq(Clients) /\ Len(cs) = 1 /\ cs[1] = c
    BY <1>2
  <2>2. ToSet(cs) = {cs[i] : i \in 1..1}
    BY <2>1, ElementsOf
  <2> QED
    BY <2>1, <2>2
<1>4. PICK u : u = connections'
  OBVIOUS
<1>5. /\ u \in Seq(Clients) /\ Distinct(u)
      /\ ToSet(u) = ToSet(connections) \ {c}
      /\ gauge' \in Int /\ gauge' <= Len(u)
      /\ \A n \in 1..Len(u) : \E i \in 1..Len(connections) : n <= i /\ u[n] = connections[i]
  BY <1>1, <1>2, <1>3, <1>4, DisconnectRemoves DEF HubInv
<1>6. HubTypes'
  BY <1>1, <1>4, <1>5 DEF HubInv, HubTypes
<1>7. Listed'
  BY <1>1, <1>4, <1>5 DEF HubInv, Listed
<1>8. Unserved'
  <2> SUFFICES ASSUME current # 0, NEW n \in 1..Len(u), n >= index, NEW j \in 1..Len(got[u[n]])
               PROVE  got[u[n]][j] < current
    BY <1>1, <1>4 DEF Unserved
  <2>1. PICK i \in 1..Len(connections) : n <= i /\ u[n] = connections[i]
    BY <1>5
  <2>2. i >= index
    BY <2>1 DEF HubInv, HubTypes
  <2> QED
    BY <2>1, <2>2 DEF HubInv, Unserved
<1> QED
  BY <1>1, <1>6, <1>7, <1>8 DEF HubInv, Coming, Received

LEMMA PublishKeeps ==
  ASSUME HubInv, Publish
  PROVE  HubInv'
<1>1. /\ sent < Published /\ sent' = sent + 1
      /\ channel' = Append(channel, sent + 1)
      /\ socket' = socket /\ endpoint' = endpoint /\ connections' = connections /\ gauge' = gauge
      /\ current' = current /\ index' = index /\ dead' = dead /\ got' = got
  BY DEF Publish
<1>2. PICK m \in Nat : Len(channel) = m /\ channel \in Seq(1..(sent + 1))
  <2>1. channel \in Seq(1..sent) /\ 1..sent \subseteq 1..(sent + 1)
    BY DEF HubInv, HubTypes
  <2>2. channel \in Seq(1..(sent + 1))
    BY <2>1, WiderSeq
  <2>3. Len(channel) \in Nat
    BY <2>1, LenProperties
  <2> QED
    BY <2>2, <2>3
<1>3. \A i \in 1..m : channel[i] \in 1..sent
  BY <1>2, ElementOfSeq DEF HubInv, HubTypes
<1>4. PICK v : v = Append(channel, sent + 1)
  OBVIOUS
<1>5. sent + 1 \in 1..(sent + 1)
  BY DEF HubInv, HubTypes
<1>6. /\ v \in Seq(1..(sent + 1)) /\ Len(v) = m + 1 /\ v[m + 1] = sent + 1
      /\ \A i \in 1..m : v[i] = channel[i]
  BY <1>2, <1>4, <1>5, AppendProperties
<1>7. HubTypes'
  BY <1>1, <1>4, <1>6, HubAssumption DEF HubInv, HubTypes
<1>8. Coming'
  <2>1. \A i \in 1..(m + 1) : current < v[i]
    <3>1. \A i \in 1..m : current < v[i]
      BY <1>2, <1>6 DEF HubInv, Coming
    <3>2. current < sent + 1
      BY DEF HubInv, HubTypes
    <3>3. \A i \in 1..(m + 1) : i \in 1..m \/ i = m + 1
      BY <1>2
    <3> QED
      BY <1>6, <3>1, <3>2, <3>3
  <2>2. ASSUME NEW i \in 1..(m + 1), NEW j \in 1..(m + 1), i < j
        PROVE  v[i] < v[j]
    <3>1. i \in 1..m
      BY <2>2
    <3>2. CASE j \in 1..m
      BY <1>2, <1>6, <2>2, <3>1, <3>2 DEF HubInv, Coming
    <3>3. CASE j = m + 1
      <4>1. v[i] \in 1..sent
        BY <1>3, <1>6, <3>1
      <4> QED
        BY <1>6, <3>3, <4>1 DEF HubInv, HubTypes
    <3> QED
      BY <3>2, <3>3
  <2> QED
    BY <1>1, <1>4, <1>6, <2>1, <2>2 DEF Coming
<1>9. Received'
  <2> SUFFICES ASSUME NEW c \in Clients, NEW j \in 1..Len(got[c])
               PROVE  /\ \A i \in 1..Len(got[c]) : i < j => got[c][i] < got[c][j]
                      /\ \A i \in 1..(m + 1) : got[c][j] < v[i]
                      /\ got[c][j] <= sent + 1
                      /\ current # 0 => got[c][j] <= current
    BY <1>1, <1>4, <1>6 DEF Received
  <2>1. PICK x \in Nat : x = got[c][j]
    BY ElementOfSeq DEF HubInv, HubTypes
  <2>2. x <= sent /\ \A i \in 1..m : x < channel[i]
    BY <1>2, <2>1 DEF HubInv, Received
  <2>3. \A i \in 1..(m + 1) : x < v[i]
    <3>1. x < sent + 1
      BY <2>1, <2>2 DEF HubInv, HubTypes
    <3>2. \A i \in 1..(m + 1) : i \in 1..m \/ i = m + 1
      BY <1>2
    <3> QED
      BY <1>6, <2>2, <3>1, <3>2
  <2>4. x <= sent + 1
    BY <2>2 DEF HubInv, HubTypes
  <2> QED
    BY <2>1, <2>3, <2>4 DEF HubInv, Received
<1> QED
  BY <1>1, <1>7, <1>8, <1>9 DEF HubInv, Listed, Unserved

LEMMA TakeKeeps ==
  ASSUME HubInv, TakeMessage \/ DropMessage
  PROVE  HubInv'
<1>1. /\ current = 0 /\ channel # <<>>
      /\ channel' = Tail(channel)
      /\ socket' = socket /\ endpoint' = endpoint /\ connections' = connections /\ gauge' = gauge
      /\ sent' = sent /\ got' = got
      /\ \/ current' = Head(channel) /\ index' = 1 /\ dead' = <<>>
         \/ current' = current /\ index' = index /\ dead' = dead
  BY DEF TakeMessage, DropMessage
<1>2. PICK v : v = Tail(channel)
  OBVIOUS
<1>3. channel \in Seq(1..sent)
  BY DEF HubInv, HubTypes
<1>4. Head(channel) \in 1..sent /\ v \in Seq(1..sent) /\ Head(channel) = channel[1]
  BY <1>1, <1>2, <1>3, FirstAndRest
<1>5. PICK m \in Nat : /\ Len(channel) = m + 1 /\ Len(v) = m
                       /\ \A i \in 1..m : v[i] = channel[i + 1]
  BY <1>1, <1>2, <1>3, FirstAndRest
<1>6. \A i \in 1..m : i + 1 \in 1..(m + 1) /\ 1 \in 1..(m + 1) /\ 1 < i + 1
  OBVIOUS
<1>7. /\ dead' \in Seq(Clients)
      /\ \A c \in ToSet(dead') : socket[c] = "closed"
  <2>1. CASE dead' = dead
    BY <2>1 DEF HubInv, HubTypes, Listed
  <2>2. CASE dead' = <<>>
    BY <2>2, EmptyHasNone
  <2> QED
    BY <1>1, <2>1, <2>2
<1>8. HubTypes'
  BY <1>1, <1>2, <1>4, <1>7, SMTT(30) DEF HubInv, HubTypes
<1>9. Listed'
  BY <1>1, <1>7 DEF HubInv, Listed
<1>10. Coming'
  <2>1. \A i, j \in 1..m : i < j => v[i] < v[j]
    BY <1>4, <1>5, <1>6 DEF HubInv, Coming
  <2>2. \A i \in 1..m : Head(channel) < v[i] /\ current < v[i]
    BY <1>4, <1>5, <1>6 DEF HubInv, Coming
  <2> QED
    BY <1>1, <1>2, <1>5, <2>1, <2>2 DEF Coming
<1>11. Received'
  <2> SUFFICES ASSUME NEW c \in Clients, NEW j \in 1..Len(got[c])
               PROVE  /\ \A i \in 1..Len(got[c]) : i < j => got[c][i] < got[c][j]
                      /\ \A i \in 1..m : got[c][j] < v[i]
                      /\ got[c][j] <= sent
                      /\ current' # 0 => got[c][j] <= current'
    BY <1>1, <1>2, <1>5 DEF Received
  <2>1. PICK x \in Nat : x = got[c][j]
    BY ElementOfSeq DEF HubInv, HubTypes
  <2>2. \A i \in 1..(m + 1) : x < channel[i]
    BY <1>5, <2>1 DEF HubInv, Received
  <2>3. \A i \in 1..m : x < v[i]
    BY <1>5, <1>6, <2>2
  <2>4. x < Head(channel)
    BY <1>4, <1>5, <2>2
  <2>5. current' # 0 => x <= current'
    BY <1>1, <1>4, <2>4
  <2> QED
    BY <2>1, <2>3, <2>5 DEF HubInv, Received
<1>12. Unserved'
  <2> SUFFICES ASSUME current' # 0, NEW i \in 1..Len(connections),
                      NEW j \in 1..Len(got[connections[i]])
               PROVE  got[connections[i]][j] < current'
    BY <1>1 DEF Unserved
  <2>1. connections[i] \in Clients
    BY ElementOfSeq DEF HubInv, HubTypes
  <2>2. got[connections[i]][j] < channel[1]
    BY <1>5, <2>1 DEF HubInv, Received
  <2> QED
    BY <1>1, <1>4, <1>5, <2>2
<1> QED
  BY <1>8, <1>9, <1>10, <1>11, <1>12 DEF HubInv

LEMMA SendKeeps ==
  ASSUME HubInv, SendNext
  PROVE  HubInv'
<1> DEFINE c == connections[index]
<1>1. /\ current # 0 /\ index <= Len(connections)
      /\ index' = index + 1
      /\ IF socket[c] = "open"
         THEN got' = [got EXCEPT ![c] = Append(@, current)] /\ dead' = dead
         ELSE dead' = Append(dead, c) /\ got' = got
      /\ socket' = socket /\ endpoint' = endpoint /\ connections' = connections /\ gauge' = gauge
      /\ sent' = sent /\ channel' = channel /\ current' = current
  BY DEF SendNext
<1>2. PICK l \in Nat : Len(connections) = l /\ index \in 1..l
  BY <1>1, LenProperties DEF HubInv, HubTypes
<1>3. c \in Clients /\ c \in ToSet(connections)
  <2>1. connections \in Seq(Clients)
    BY DEF HubInv, HubTypes
  <2>2. ToSet(connections) = {connections[i] : i \in 1..l} /\ ToSet(connections) \subseteq Clients
    BY <1>2, <2>1, ElementsOf
  <2> QED
    BY <1>2, <2>2
<1> HIDE DEF c
<1>4. CASE socket[c] = "open"
  <2>1. PICK m \in Nat : Len(got[c]) = m /\ got[c] \in Seq(Nat)
    BY <1>3, LenProperties DEF HubInv, HubTypes
  <2>2. PICK v : v = Append(got[c], current)
    OBVIOUS
  <2>3. current \in Nat
    BY DEF HubInv, HubTypes
  <2>4. /\ v \in Seq(Nat) /\ Len(v) = m + 1 /\ v[m + 1] = current
        /\ \A i \in 1..m : v[i] = got[c][i]
    BY <2>1, <2>2, <2>3, AppendProperties
  <2>5. /\ got' = [got EXCEPT ![c] = v] /\ dead' = dead
        /\ \A d \in Clients : got'[d] = IF d = c THEN v ELSE got[d]
    BY <1>1, <1>4, <2>2 DEF HubInv, HubTypes
  <2>6. got' \in [Clients -> Seq(Nat)]
    BY <1>3, <2>4, <2>5 DEF HubInv, HubTypes
  <2>7. index' \in Nat \ {0}
    BY <1>1, <1>2
  <2>8. HubTypes'
    BY <1>1, <2>5, <2>6, <2>7 DEF HubInv, HubTypes
  <2>9. Listed'
    BY <1>1, <1>4, <2>5 DEF HubInv, Listed
  <2>10. \A j \in 1..m : got[c][j] < current
    <3>1. \A j \in 1..Len(got[connections[index]]) : got[connections[index]][j] < current
      BY <1>1, <1>2, SMTT(30) DEF HubInv, HubTypes, Unserved
    <3> QED
      BY <2>1, <3>1 DEF c
  <2>11. \A j \in 1..(m + 1) : j \in 1..m \/ j = m + 1
    OBVIOUS
  <2>12. Received'
    <3> SUFFICES ASSUME NEW d \in Clients
                 PROVE  \A j \in 1..Len(got'[d]) :
                          /\ \A i \in 1..Len(got'[d]) : i < j => got'[d][i] < got'[d][j]
                          /\ \A i \in 1..Len(channel) : got'[d][j] < channel[i]
                          /\ got'[d][j] <= sent
                          /\ current # 0 => got'[d][j] <= current
      BY <1>1 DEF Received
    <3>1. CASE d # c
      BY <2>5, <3>1 DEF HubInv, Received
    <3>2. CASE d = c
      <4> SUFFICES ASSUME NEW j \in 1..(m + 1)
                   PROVE  /\ \A i \in 1..(m + 1) : i < j => v[i] < v[j]
                          /\ \A i \in 1..Len(channel) : v[j] < channel[i]
                          /\ v[j] <= sent /\ v[j] <= current
        BY <2>4, <2>5, <3>2
      <4>1. CASE j \in 1..m
        <5>1. \A i \in 1..(m + 1) : i < j => i \in 1..m
          BY <4>1
        <5>2. /\ \A i \in 1..m : i < j => v[i] < v[j]
              /\ \A i \in 1..Len(channel) : v[j] < channel[i]
              /\ v[j] <= sent /\ v[j] <= current
          BY <1>1, <1>3, <2>1, <2>4, <4>1 DEF HubInv, Received
        <5> QED
          BY <5>1, <5>2
      <4>2. CASE j = m + 1
        <5>1. \A i \in 1..(m + 1) : i < j => i \in 1..m
          BY <4>2
        <5>2. \A i \in 1..m : v[i] < current
          BY <2>4, <2>10
        <5>3. current <= sent /\ \A i \in 1..Len(channel) : current < channel[i]
          BY DEF HubInv, HubTypes, Coming
        <5>4. v[j] = current
          BY <2>4, <4>2
        <5> QED
          BY <2>3, <5>1, <5>2, <5>3, <5>4
      <4> QED
        BY <2>11, <4>1, <4>2
    <3> QED
      BY <3>1, <3>2
  <2>13. Unserved'
    <3> SUFFICES ASSUME NEW i \in 1..l, i >= index + 1
                 PROVE  \A j \in 1..Len(got'[connections[i]]) : got'[connections[i]][j] < current
      BY <1>1, <1>2 DEF Unserved
    <3>1. connections[i] \in Clients
      BY <1>2, ElementOfSeq DEF HubInv, HubTypes
    <3>2. connections[i] # c
      BY <1>2 DEF HubInv, Listed, Distinct, c
    <3>3. got'[connections[i]] = got[connections[i]]
      BY <2>5, <3>1, <3>2
    <3>4. i >= index
      BY <1>2
    <3> QED
      BY <1>1, <1>2, <3>3, <3>4 DEF HubInv, Unserved
  <2>14. Coming'
    BY <1>1 DEF HubInv, Coming
  <2> QED
    BY <2>8, <2>9, <2>12, <2>13, <2>14 DEF HubInv
<1>5. CASE socket[c] # "open"
  <2>1. dead' = Append(dead, c) /\ got' = got
    BY <1>1, <1>5
  <2>2. /\ dead' \in Seq(Clients)
        /\ ToSet(dead') = ToSet(dead) \cup {c}
    BY <1>3, <2>1, AppendProperties, ElementsOfAppend DEF HubInv, HubTypes
  <2>3. socket[c] = "closed"
    BY <1>3, <1>5 DEF HubInv, HubTypes, Listed
  <2>4. HubTypes'
    BY <1>1, <2>1, <2>2 DEF HubInv, HubTypes
  <2>5. Listed'
    BY <1>1, <2>1, <2>2, <2>3 DEF HubInv, Listed
  <2>6. Coming' /\ Received'
    BY <1>1, <2>1 DEF HubInv, Coming, Received
  <2>7. Unserved'
    <3>1. \A i \in 1..l : i >= index + 1 => i >= index
      BY <1>2
    <3> QED
      BY <1>1, <1>2, <2>1, <3>1 DEF HubInv, Unserved
  <2> QED
    BY <2>4, <2>5, <2>6, <2>7 DEF HubInv
<1> QED
  BY <1>4, <1>5

LEMMA EndBroadcastKeeps ==
  ASSUME HubInv, EndBroadcast
  PROVE  HubInv'
<1>1. /\ Disconnect(dead)
      /\ current' = 0 /\ index' = 1 /\ dead' = <<>>
      /\ socket' = socket /\ endpoint' = endpoint /\ sent' = sent /\ channel' = channel
      /\ got' = got
  BY DEF EndBroadcast
<1>2. dead \in Seq(Clients)
  BY DEF HubInv, HubTypes
<1>3. PICK u : u = connections'
  OBVIOUS
<1>4. /\ u \in Seq(Clients) /\ Distinct(u)
      /\ ToSet(u) = ToSet(connections) \ ToSet(dead)
      /\ gauge' \in Int /\ gauge' <= Len(u)
  BY <1>1, <1>2, <1>3, DisconnectRemoves DEF HubInv
<1>5. HubTypes'
  <2>1. dead' \in Seq(Clients)
    BY <1>1
  <2> QED
    BY <1>1, <1>3, <1>4, <2>1 DEF HubInv, HubTypes
<1>6. Listed'
  <2>1. ToSet(dead') = {}
    BY <1>1, EmptyHasNone
  <2> QED
    BY <1>1, <1>3, <1>4, <2>1 DEF HubInv, Listed
<1>7. Coming'
  <2>1. \A i \in 1..Len(channel) : 0 < channel[i]
    BY ElementOfSeq DEF HubInv, HubTypes
  <2> QED
    BY <1>1, <2>1 DEF HubInv, Coming
<1>8. Received' /\ Unserved'
  BY <1>1 DEF HubInv, Received, Unserved
<1> QED
  BY <1>5, <1>6, <1>7, <1>8 DEF HubInv

(* However clients come, leave and are removed while a message is being    *)
(* broadcast, everyone receives each message at most once and in order,    *)
(* and nobody who is connected is removed.                                 *)
THEOREM OrderedOnceAlways == HubSpec => []OrderedOnce
<1>1. HubInit => HubInv
  <2> SUFFICES ASSUME HubInit
               PROVE  HubInv
    OBVIOUS
  <2>1. \A c \in Clients : got[c] = <<>> /\ socket[c] = "none"
    BY DEF HubInit
  <2>2. HubTypes
    BY HubAssumption DEF HubInit, HubTypes
  <2>3. Listed
    BY <2>1, EmptyHasNone DEF HubInit, Listed, Distinct
  <2>4. Coming /\ Received /\ Unserved
    BY <2>1 DEF HubInit, Coming, Received, Unserved
  <2> QED
    BY <2>2, <2>3, <2>4 DEF HubInv
<1>2. HubInv /\ [HubNext]_hubVars => HubInv'
  <2> SUFFICES ASSUME HubInv, [HubNext]_hubVars
               PROVE  HubInv'
    OBVIOUS
  <2>1. CASE UNCHANGED hubVars
    BY <2>1 DEF hubVars, HubInv, HubTypes, Listed, Coming, Received, Unserved
  <2>2. CASE HubNext
    BY <2>2, ConnectKeeps, LeaveKeeps, EndpointDisconnectsKeeps, PublishKeeps, TakeKeeps,
       SendKeeps, EndBroadcastKeeps DEF HubNext, Broadcast
  <2> QED
    BY <2>1, <2>2
<1> QED
  BY <1>1, <1>2, HubInvOrders, PTL DEF HubSpec

-----------------------------------------------------------------------------
(* ThreatIntel.  A call that is past the caches asks for an address that   *)
(* is not local; what it is about to save, and what the caches hold, is    *)
(* backed by what the sources have reported of that very address.          *)
Verdicts == [verdict : BOOLEAN, score : 0..100]

CachedOK(i, x) == x # Nothing => x \in Indicator /\ i \notin LocalIps /\ Backed(i, x)

VerdictOK(i, v) ==
  /\ v \in Verdicts
  /\ v.verdict =>
       \/ i \in feedIps /\ v.score \in {85} \cup {FeedScore[f] : f \in Feeds}
       \/ /\ v.score >= Threshold
          /\ \E s \in Sources : <<i, s, v.score>> \in reported

LookupOK(c) ==
  /\ c \in CallType
  /\ c.at \in {"l2", "live", "save"} => c.ip \notin LocalIps
  /\ c.at \in {"feed", "score"} => c.asks = "verdict"
  /\ c.at = "score" => c.ip \in feedIps
  /\ c.at = "save" => c.found \in Indicator /\ Backed(c.ip, c.found)
  /\ c.at = "done" /\ c.asks = "indicator" => CachedOK(c.ip, c.found)
  /\ c.at = "done" /\ c.asks = "verdict" => VerdictOK(c.ip, c.found)

CachesOK ==
  /\ l1 \in [Ips -> Indicator \cup {Nothing}]
  /\ l2 \in [Ips -> Indicator \cup {Nothing}]
  /\ \A i \in Ips : CachedOK(i, l1[i]) /\ CachedOK(i, l2[i])

LookupsOK ==
  /\ call = [t \in Lookups |-> call[t]]
  /\ \A t \in Lookups : LookupOK(call[t])

FeedsOK ==
  /\ refresh \in {"off", "asleep", "loading", "stopped"}
  /\ loading \in [Feeds -> LoadType]
  /\ ipScores \in [Ips -> {FeedScore[f] : f \in Feeds} \cup {Nothing}]

IntelInv == CachesOK /\ LookupsOK /\ FeedsOK

LEMMA IntelInvSound == IntelInv => IntelSound
<1> SUFFICES ASSUME IntelInv
             PROVE  IntelSound
  OBVIOUS
<1>1. IntelTypeOK
  BY DEF IntelInv, CachesOK, LookupsOK, LookupOK, FeedsOK, IntelTypeOK
<1>2. ASSUME NEW i \in Ips, NEW ind \in {l1[i], l2[i]} \ {Nothing}
      PROVE  i \notin LocalIps /\ Backed(i, ind)
  BY DEF IntelInv, CachesOK, CachedOK
<1>3. ASSUME NEW t \in Lookups, call[t].at = "done", call[t].found # Nothing
      PROVE  IF call[t].asks = "indicator"
             THEN call[t].ip \notin LocalIps /\ Backed(call[t].ip, call[t].found)
             ELSE call[t].found.verdict =>
                    \/ /\ call[t].ip \in feedIps
                       /\ call[t].found.score \in {85} \cup {FeedScore[f] : f \in Feeds}
                    \/ /\ call[t].found.score >= Threshold
                       /\ \E s \in Sources : <<call[t].ip, s, call[t].found.score>> \in reported
  <2>1. LookupOK(call[t]) /\ call[t].asks \in {"indicator", "verdict"}
    BY DEF IntelInv, LookupsOK, LookupOK, CallType
  <2>2. CASE call[t].asks = "indicator"
    BY <1>3, <2>1, <2>2 DEF LookupOK, CachedOK
  <2>3. CASE call[t].asks = "verdict"
    BY <1>3, <2>1, <2>3 DEF LookupOK, VerdictOK
  <2> QED
    BY <2>1, <2>2, <2>3
<1> QED
  BY <1>1, <1>2, <1>3 DEF IntelSound, AnswersAreReported

(* Reports are never withdrawn, nor addresses taken from the feeds.        *)
LEMMA ReportsStay ==
  ASSUME reported \subseteq reported', feedIps \subseteq feedIps'
  PROVE  /\ \A i, x : CachedOK(i, x) => CachedOK(i, x)'
         /\ \A c : LookupOK(c) => LookupOK(c)'
<1>1. ASSUME NEW i, NEW x, Backed(i, x)
      PROVE  Backed(i, x)'
  BY <1>1 DEF Backed
<1>2. ASSUME NEW i, NEW x, CachedOK(i, x)
      PROVE  CachedOK(i, x)'
  BY <1>1, <1>2 DEF CachedOK
<1>3. ASSUME NEW i, NEW v, VerdictOK(i, v)
      PROVE  VerdictOK(i, v)'
  BY <1>3 DEF VerdictOK
<1>4. ASSUME NEW c, LookupOK(c)
      PROVE  LookupOK(c)'
  BY <1>1, <1>2, <1>3, <1>4 DEF LookupOK
<1> QED
  BY <1>2, <1>4

(* The answer made of an indicator is as well backed as the indicator.     *)
LEMMA AnswerIsBacked ==
  ASSUME NEW c \in CallType, NEW x, CachedOK(c.ip, x)
  PROVE  LookupOK(Answered(c, x))
<1> DEFINE v == IF c.asks = "verdict" THEN Verdict(x) ELSE x
<1>1. CASE c.asks = "verdict"
  <2>1. VerdictOK(c.ip, Verdict(x))
    <3>1. CASE x # Nothing /\ x.score >= Threshold
      <4>1. x \in Indicator /\ Backed(c.ip, x)
        BY <3>1 DEF CachedOK
      <4>2. x.score \in 0..100 /\ \E s \in Sources : <<c.ip, s, x.score>> \in reported
        BY <4>1 DEF Indicator, Backed
      <4>3. Verdict(x) = [verdict |-> TRUE, score |-> x.score]
        BY <3>1 DEF Verdict
      <4>4. Verdict(x) \in Verdicts /\ Verdict(x).score = x.score
        BY <4>2, <4>3 DEF Verdicts
      <4> QED
        BY <3>1, <4>2, <4>4 DEF VerdictOK
    <3>2. CASE ~(x # Nothing /\ x.score >= Threshold)
      <4>1. Verdict(x) = [verdict |-> FALSE, score |-> 0]
        BY <3>2 DEF Verdict
      <4> QED
        BY <4>1 DEF VerdictOK, Verdicts
    <3> QED
      BY <3>1, <3>2
  <2>2. Answered(c, x) = [c EXCEPT !.at = "done", !.found = Verdict(x)]
    BY <1>1 DEF Answered
  <2>3. Verdict(x) \in Verdicts
    BY <2>1 DEF VerdictOK
  <2>4. /\ Answered(c, x) \in CallType
        /\ Answered(c, x).at = "done" /\ Answered(c, x).asks = "verdict"
        /\ Answered(c, x).ip = c.ip /\ Answered(c, x).found = Verdict(x)
    BY <1>1, <2>2, <2>3 DEF CallType, Verdicts
  <2> QED
    BY <2>1, <2>4 DEF LookupOK
<1>2. CASE c.asks = "indicator"
  <2>1. Answered(c, x) = [c EXCEPT !.at = "done", !.found = x]
    BY <1>2 DEF Answered
  <2>2. x \in Indicator \cup {Nothing}
    BY DEF CachedOK
  <2>3. /\ Answered(c, x) \in CallType
        /\ Answered(c, x).at = "done" /\ Answered(c, x).asks = "indicator"
        /\ Answered(c, x).ip = c.ip /\ Answered(c, x).found = x
    BY <1>2, <2>1, <2>2 DEF CallType
  <2> QED
    BY <2>3 DEF LookupOK
<1> QED
  BY <1>1, <1>2 DEF CallType

LEMMA EnteredIsBacked ==
  ASSUME CachesOK, NEW c \in CallType
  PROVE  LookupOK(Entered(c))
<1>1. c.ip \in Ips
  BY DEF CallType
<1>2. CASE c.ip \in LocalIps
  <2>1. CachedOK(c.ip, Nothing)
    BY DEF CachedOK
  <2>2. Entered(c) = Answered(c, Nothing)
    BY <1>2 DEF Entered
  <2> QED
    BY <2>1, <2>2, AnswerIsBacked
<1>3. CASE c.ip \notin LocalIps /\ l1[c.ip] # Nothing
  <2>1. CachedOK(c.ip, l1[c.ip])
    BY <1>1 DEF CachesOK
  <2>2. Entered(c) = Answered(c, l1[c.ip])
    BY <1>3 DEF Entered
  <2> QED
    BY <2>1, <2>2, AnswerIsBacked
<1>4. CASE c.ip \notin LocalIps /\ l1[c.ip] = Nothing
  <2>1. Entered(c) = [c EXCEPT !.at = "l2"]
    BY <1>4 DEF Entered
  <2>2. Entered(c) \in CallType /\ Entered(c).at = "l2" /\ Entered(c).ip = c.ip
    BY <2>1 DEF CallType
  <2> QED
    BY <1>4, <2>2 DEF LookupOK
<1> QED
  BY <1>2, <1>3, <1>4

(* The highest of some scores.                                             *)
LEMMA HighestScore ==
  ASSUME NEW S \in SUBSET (0..100), S # {}
  PROVE  Max(S) \in S /\ \A y \in S : y <= Max(S)
<1> DEFINE T == {100 - x : x \in S}
<1>1. T \in SUBSET Nat /\ T # {}
  <2>1. \A x \in S : 100 - x \in Nat
    OBVIOUS
  <2> QED
    BY <2>1
<1> HIDE DEF T
<1>2. PICK m \in T : \A n \in T : m <= n
  BY <1>1, LeastNatural
<1>3. PICK x \in S : m = 100 - x
  BY DEF T
<1>4. ASSUME NEW y \in S
      PROVE  y <= x
  <2>1. 100 - y \in T
    BY DEF T
  <2>2. 100 - x <= 100 - y
    BY <1>2, <1>3, <2>1
  <2> QED
    BY <2>2
<1>5. \E z \in S : \A y \in S : z >= y
  BY <1>4
<1> QED
  BY <1>5 DEF Max

LEMMA ScoresInPercent ==
  ASSUME NEW s \in Sources, NEW n \in Counts[s]
  PROVE  ScoreOf(s, n) \in 0..100 \cup {Nothing}
<1>1. CASE s = "misp"
  BY <1>1 DEF ScoreOf, MispScore
<1>2. CASE s = "otx"
  <2>1. n \in Nat
    BY <1>2, IntelAssumption DEF Sources
  <2>2. PICK x \in Nat : x = 60 + 5 * n
    BY <2>1
  <2>3. Min({x, 99}) \in 0..100
    <3>1. CASE x <= 99
      <4>1. \E z \in {x, 99} : \A y \in {x, 99} : z <= y
        BY <3>1
      <4>2. Min({x, 99}) \in {x, 99} /\ \A y \in {x, 99} : Min({x, 99}) <= y
        BY <4>1 DEF Min
      <4> QED
        BY <3>1, <4>2
    <3>2. CASE x > 99
      <4>1. \E z \in {x, 99} : \A y \in {x, 99} : z <= y
        BY <3>2
      <4>2. Min({x, 99}) \in {x, 99} /\ \A y \in {x, 99} : Min({x, 99}) <= y
        BY <4>1 DEF Min
      <4> QED
        BY <3>2, <4>2
    <3> QED
      BY <3>1, <3>2
  <2>4. ScoreOf(s, n) = IF n = 0 THEN Nothing ELSE Min({x, 99})
    BY <1>2, <2>2 DEF ScoreOf, OtxScore
  <2> QED
    BY <2>3, <2>4
<1>3. CASE s = "abuseipdb"
  <2>1. n \in 0..100
    BY <1>3, IntelAssumption DEF Sources
  <2> QED
    BY <1>3, <2>1 DEF ScoreOf, AbuseScore
<1> QED
  BY <1>1, <1>2, <1>3, IntelAssumption DEF Sources

(* A step of one lookup that leaves the caches and the feeds alone.        *)
LEMMA OneLookup ==
  ASSUME IntelInv, NEW t \in Lookups, NEW c, LookupOK(c)',
         call' = [call EXCEPT ![t] = c],
         reported \subseteq reported', feedIps' = feedIps
  PROVE  LookupsOK'
<1>1. ASSUME NEW u \in Lookups
      PROVE  LookupOK(call[u])'
  <2>1. CASE u = t
    <3>1. call'[u] = c
      BY <2>1 DEF IntelInv, LookupsOK
    <3> QED
      BY <3>1
  <2>2. CASE u # t
    <3>1. call'[u] = call[u]
      BY <2>2 DEF IntelInv, LookupsOK
    <3>2. LookupOK(call[u])
      BY DEF IntelInv, LookupsOK
    <3>3. PICK d : d = call[u]
      OBVIOUS
    <3>4. LookupOK(d)'
      BY <3>2, <3>3, ReportsStay
    <3> QED
      BY <3>1, <3>3, <3>4
  <2> QED
    BY <2>1, <2>2
<1>2. call' = [u \in Lookups |-> call'[u]]
  BY DEF IntelInv, LookupsOK
<1> QED
  BY <1>1, <1>2 DEF LookupsOK

LEMMA CachesStay ==
  ASSUME IntelInv, reported \subseteq reported', feedIps \subseteq feedIps',
         l1' = l1, l2' = l2
  PROVE  CachesOK'
<1>1. \A i \in Ips : CachedOK(i, l1[i]) /\ CachedOK(i, l2[i])
  BY DEF IntelInv, CachesOK
<1>2. \A i, x : CachedOK(i, x) => CachedOK(i, x)'
  BY ReportsStay
<1>3. \A i \in Ips : CachedOK(i, l1[i])' /\ CachedOK(i, l2[i])'
  <2> SUFFICES ASSUME NEW i \in Ips
               PROVE  CachedOK(i, l1[i])' /\ CachedOK(i, l2[i])'
    OBVIOUS
  <2>1. PICK x, y : x = l1[i] /\ y = l2[i]
    OBVIOUS
  <2>2. CachedOK(i, x)' /\ CachedOK(i, y)'
    BY <1>1, <1>2, <2>1
  <2>3. l1'[i] = x /\ l2'[i] = y
    BY <2>1
  <2> QED
    BY <2>2, <2>3
<1> QED
  BY <1>3 DEF IntelInv, CachesOK

(* The steps of a lookup that only read.                                   *)
LEMMA AskKeeps ==
  ASSUME IntelInv, NEW t \in Lookups,
         \/ \E i \in Ips : LookupIp(t, i) \/ IsMalicious(t, i)
         \/ FeedAnswer(t)
         \/ ScoreAnswer(t)
  PROVE  IntelInv'
<1> DEFINE c == call[t]
<1>1. /\ l1' = l1 /\ l2' = l2 /\ reported' = reported /\ refresh' = refresh
      /\ loading' = loading /\ feedIps' = feedIps /\ ipScores' = ipScores
  BY DEF LookupIp, IsMalicious, FeedAnswer, ScoreAnswer, cacheVars, feedVars
<1>2. c \in CallType /\ LookupOK(c)
  BY DEF IntelInv, LookupsOK, LookupOK
<1>3. PICK d : call' = [call EXCEPT ![t] = d] /\ LookupOK(d)
  <2>1. CASE \E i \in Ips : LookupIp(t, i)
    <3>1. PICK i \in Ips : LookupIp(t, i)
      BY <2>1
    <3>2. PICK b : b = [c EXCEPT !.ip = i, !.asks = "indicator"]
      OBVIOUS
    <3>3. b \in CallType
      BY <1>2, <3>2 DEF CallType
    <3>4. call' = [call EXCEPT ![t] = Entered(b)]
      BY <3>1, <3>2 DEF LookupIp
    <3>5. LookupOK(Entered(b))
      BY <3>3, EnteredIsBacked DEF IntelInv
    <3> QED
      BY <3>4, <3>5
  <2>2. CASE \E i \in Ips : IsMalicious(t, i)
    <3>1. PICK i \in Ips : IsMalicious(t, i)
      BY <2>2
    <3>2. PICK b : b = [c EXCEPT !.at = "feed", !.ip = i, !.asks = "verdict"]
      OBVIOUS
    <3>3. b \in CallType /\ b.at = "feed" /\ b.asks = "verdict"
      BY <1>2, <3>2 DEF CallType
    <3>4. call' = [call EXCEPT ![t] = b]
      BY <3>1, <3>2 DEF IsMalicious
    <3>5. LookupOK(b)
      BY <3>3 DEF LookupOK
    <3> QED
      BY <3>4, <3>5
  <2>3. CASE FeedAnswer(t)
    <3>1. CASE c.ip \in feedIps
      <4>1. PICK b : b = [c EXCEPT !.at = "score"]
        OBVIOUS
      <4>2. b \in CallType /\ b.at = "score" /\ b.ip = c.ip /\ b.asks = "verdict"
        BY <1>2, <2>3, <4>1 DEF CallType, LookupOK, FeedAnswer
      <4>3. call' = [call EXCEPT ![t] = b]
        BY <2>3, <3>1, <4>1 DEF FeedAnswer
      <4>4. LookupOK(b)
        BY <3>1, <4>2 DEF LookupOK
      <4> QED
        BY <4>3, <4>4
    <3>2. CASE c.ip \notin feedIps
      <4>1. call' = [call EXCEPT ![t] = Entered(c)]
        BY <2>3, <3>2 DEF FeedAnswer
      <4>2. LookupOK(Entered(c))
        BY <1>2, EnteredIsBacked DEF IntelInv
      <4> QED
        BY <4>1, <4>2
    <3> QED
      BY <3>1, <3>2
  <2>4. CASE ScoreAnswer(t)
    <3> DEFINE s == IF ipScores[c.ip] = Nothing THEN 85 ELSE ipScores[c.ip]
    <3>1. c.ip \in Ips /\ c.ip \in feedIps
      BY <1>2, <2>4 DEF ScoreAnswer, LookupOK, CallType
    <3>2. s \in {85} \cup {FeedScore[f] : f \in Feeds}
      BY <3>1 DEF IntelInv, FeedsOK
    <3>3. s \in 0..100
      BY <3>2, IntelAssumption DEF Feeds
    <3>4. PICK v : v = [verdict |-> TRUE, score |-> s]
      OBVIOUS
    <3>5. v \in Verdicts /\ v.score = s
      BY <3>3, <3>4 DEF Verdicts
    <3>6. VerdictOK(c.ip, v)
      BY <3>1, <3>2, <3>5 DEF VerdictOK
    <3>7. PICK b : b = [c EXCEPT !.at = "done", !.found = v]
      OBVIOUS
    <3>8. call' = [call EXCEPT ![t] = b]
      BY <2>4, <3>4, <3>7 DEF ScoreAnswer
    <3>9. b \in CallType /\ b.at = "done" /\ b.ip = c.ip /\ b.found = v /\ b.asks = "verdict"
      <4>1. b \in CallType /\ b.at = "done" /\ b.ip = c.ip /\ b.found = v
        BY <1>2, <3>5, <3>7 DEF CallType, Verdicts
      <4>2. c.asks = "verdict"
        BY <1>2, <2>4 DEF LookupOK, ScoreAnswer
      <4> QED
        BY <1>2, <3>7, <4>1, <4>2 DEF CallType
    <3>10. LookupOK(b)
      BY <3>6, <3>9 DEF LookupOK
    <3> QED
      BY <3>8, <3>10
  <2> QED
    BY <2>1, <2>2, <2>3, <2>4
<1>4. LookupOK(d)'
  BY <1>1, <1>3, ReportsStay
<1>5. LookupsOK'
  BY <1>1, <1>3, <1>4, OneLookup
<1>6. CachesOK'
  BY <1>1, CachesStay
<1> QED
  BY <1>1, <1>5, <1>6 DEF IntelInv, FeedsOK

(* One entry of a cache is replaced.                                       *)
LEMMA EntryKeeps ==
  ASSUME NEW f \in [Ips -> Indicator \cup {Nothing}], \A i \in Ips : CachedOK(i, f[i]),
         NEW j \in Ips, NEW x \in Indicator \cup {Nothing}, CachedOK(j, x)
  PROVE  LET g == [f EXCEPT ![j] = x]
         IN  g \in [Ips -> Indicator \cup {Nothing}] /\ \A i \in Ips : CachedOK(i, g[i])
<1> DEFINE g == [f EXCEPT ![j] = x]
<1>1. g \in [Ips -> Indicator \cup {Nothing}]
  OBVIOUS
<1>2. ASSUME NEW i \in Ips
      PROVE  CachedOK(i, g[i])
  <2>1. g[i] = IF i = j THEN x ELSE f[i]
    OBVIOUS
  <2>2. CASE i = j
    BY <2>1, <2>2
  <2>3. CASE i # j
    <3>1. g[i] = f[i]
      BY <2>1, <2>3
    <3> QED
      BY <3>1
  <2> QED
    BY <2>2, <2>3
<1> QED
  BY <1>1, <1>2

(* A step that reports nothing new, and whose caches are in order.         *)
LEMMA NothingReported ==
  ASSUME IntelInv, NEW t \in Lookups, NEW d, LookupOK(d), call' = [call EXCEPT ![t] = d],
         NEW f \in [Ips -> Indicator \cup {Nothing}], \A i \in Ips : CachedOK(i, f[i]),
         NEW g \in [Ips -> Indicator \cup {Nothing}], \A i \in Ips : CachedOK(i, g[i]),
         l1' = f, l2' = g, reported' = reported, UNCHANGED feedVars
  PROVE  IntelInv'
<1>1. /\ refresh' = refresh /\ loading' = loading /\ feedIps' = feedIps
      /\ ipScores' = ipScores
  BY DEF feedVars
<1>2. LookupOK(d)' /\ \A i, x : CachedOK(i, x) => CachedOK(i, x)'
  BY <1>1, ReportsStay
<1>3. LookupsOK'
  BY <1>1, <1>2, OneLookup
<1>4. \A i \in Ips : CachedOK(i, l1[i])' /\ CachedOK(i, l2[i])'
  <2> SUFFICES ASSUME NEW i \in Ips
               PROVE  CachedOK(i, l1[i])' /\ CachedOK(i, l2[i])'
    OBVIOUS
  <2>1. PICK x, y : x = f[i] /\ y = g[i]
    OBVIOUS
  <2>2. CachedOK(i, x) /\ CachedOK(i, y)
    BY <2>1
  <2>3. CachedOK(i, x)' /\ CachedOK(i, y)'
    BY <1>2, <2>2
  <2>4. l1'[i] = x /\ l2'[i] = y
    BY <2>1
  <2> QED
    BY <2>3, <2>4
<1>5. CachesOK'
  BY <1>4 DEF CachesOK
<1> QED
  BY <1>1, <1>3, <1>5 DEF IntelInv, FeedsOK

LEMMA CacheStepKeeps ==
  ASSUME IntelInv, NEW t \in Lookups, L2Answer(t) \/ Save(t) \/ RedisRaises(t)
  PROVE  IntelInv'
<1> DEFINE c == call[t]
<1>1. reported' = reported /\ UNCHANGED feedVars
  BY DEF L2Answer, Save, RedisRaises
<1>2. c \in CallType /\ LookupOK(c) /\ c.ip \in Ips
  BY DEF IntelInv, LookupsOK, LookupOK, CallType
<1>3. /\ l1 \in [Ips -> Indicator \cup {Nothing}] /\ l2 \in [Ips -> Indicator \cup {Nothing}]
      /\ \A i \in Ips : CachedOK(i, l1[i]) /\ CachedOK(i, l2[i])
  BY DEF IntelInv, CachesOK
<1>4. CASE L2Answer(t) /\ l2[c.ip] # Nothing
  <2>1. PICK x : x = l2[c.ip] /\ x # Nothing
    BY <1>4
  <2>2. /\ call' = [call EXCEPT ![t] = Answered(c, x)] /\ l2' = l2
        /\ l1' = [l1 EXCEPT ![c.ip] = x]
    BY <1>4, <2>1 DEF L2Answer
  <2>3. CachedOK(c.ip, x) /\ x \in Indicator \cup {Nothing}
    BY <1>2, <1>3, <2>1
  <2>4. LookupOK(Answered(c, x))
    BY <1>2, <2>3, AnswerIsBacked
  <2>5. PICK f : f = [l1 EXCEPT ![c.ip] = x]
    OBVIOUS
  <2>6. f \in [Ips -> Indicator \cup {Nothing}] /\ \A i \in Ips : CachedOK(i, f[i])
    BY <1>2, <1>3, <2>3, <2>5, EntryKeeps
  <2> QED
    BY <1>1, <1>3, <2>2, <2>4, <2>5, <2>6, NothingReported
<1>5. CASE L2Answer(t) /\ l2[c.ip] = Nothing
  <2>1. PICK d : d = [c EXCEPT !.at = "live"]
    OBVIOUS
  <2>2. call' = [call EXCEPT ![t] = d] /\ l1' = l1 /\ l2' = l2
    BY <1>5, <2>1 DEF L2Answer
  <2>3. d \in CallType /\ d.at = "live" /\ d.ip = c.ip
    BY <1>2, <2>1 DEF CallType
  <2>4. c.ip \notin LocalIps
    BY <1>2, <1>5 DEF LookupOK, L2Answer
  <2>5. LookupOK(d)
    BY <2>3, <2>4 DEF LookupOK
  <2> QED
    BY <1>1, <1>3, <2>2, <2>5, NothingReported
<1>6. CASE Save(t)
  <2>1. PICK x : x = c.found
    OBVIOUS
  <2>2. c.at = "save" /\ x \in Indicator /\ CachedOK(c.ip, x)
    BY <1>2, <1>6, <2>1 DEF Save, LookupOK, CachedOK
  <2>3. /\ call' = [call EXCEPT ![t] = Answered(c, x)]
        /\ l1' = [l1 EXCEPT ![c.ip] = x] /\ l2' = [l2 EXCEPT ![c.ip] = x]
    BY <1>6, <2>1 DEF Save
  <2>4. LookupOK(Answered(c, x))
    BY <1>2, <2>2, AnswerIsBacked
  <2>5. PICK f, g : f = [l1 EXCEPT ![c.ip] = x] /\ g = [l2 EXCEPT ![c.ip] = x]
    OBVIOUS
  <2>6. f \in [Ips -> Indicator \cup {Nothing}] /\ \A i \in Ips : CachedOK(i, f[i])
    BY <1>2, <1>3, <2>2, <2>5, EntryKeeps
  <2>7. g \in [Ips -> Indicator \cup {Nothing}] /\ \A i \in Ips : CachedOK(i, g[i])
    BY <1>2, <1>3, <2>2, <2>5, EntryKeeps
  <2> QED
    BY <1>1, <2>3, <2>4, <2>5, <2>6, <2>7, NothingReported
<1>7. CASE RedisRaises(t)
  <2>1. PICK d : d = [c EXCEPT !.at = "raised", !.found = Nothing]
    OBVIOUS
  <2>2. call' = [call EXCEPT ![t] = d] /\ l1' = l1
    <3>1. call' = [call EXCEPT ![t].at = "raised", ![t].found = Nothing]
      BY <1>7 DEF RedisRaises
    <3> QED
      BY <1>7, <2>1, <3>1 DEF IntelInv, LookupsOK, RedisRaises
  <2>3. d \in CallType /\ d.at = "raised"
    BY <1>2, <2>1 DEF CallType
  <2>4. LookupOK(d)
    BY <2>3 DEF LookupOK
  <2>5. CASE l2' = l2
    BY <1>1, <1>3, <2>2, <2>4, <2>5, NothingReported
  <2>6. CASE c.at = "save" /\ l2' = [l2 EXCEPT ![c.ip] = c.found]
    <3>1. PICK x : x = c.found
      OBVIOUS
    <3>2. x \in Indicator /\ CachedOK(c.ip, x)
      BY <1>2, <2>6, <3>1 DEF LookupOK, CachedOK
    <3>3. PICK g : g = [l2 EXCEPT ![c.ip] = x]
      OBVIOUS
    <3>4. g \in [Ips -> Indicator \cup {Nothing}] /\ \A i \in Ips : CachedOK(i, g[i])
      BY <1>2, <1>3, <3>2, <3>3, EntryKeeps
    <3>5. l2' = g
      BY <2>6, <3>1, <3>3
    <3> QED
      BY <1>1, <1>3, <2>2, <2>4, <3>4, <3>5, NothingReported
  <2>7. l2' = l2 \/ (c.at = "save" /\ l2' = [l2 EXCEPT ![c.ip] = c.found])
    BY <1>7 DEF RedisRaises
  <2> QED
    BY <2>5, <2>6, <2>7
<1> QED
  BY <1>4, <1>5, <1>6, <1>7

(* What is merged is backed by the answers it was merged from.             *)
LEMMA LiveAnswerKeeps ==
  ASSUME IntelInv, NEW t \in Lookups, NEW answering \in SUBSET Sources,
         LiveAnswer(t, answering)
  PROVE  IntelInv'
<1> DEFINE c == call[t]
<1>1. l1' = l1 /\ l2' = l2 /\ UNCHANGED feedVars /\ c.at = "live"
  BY DEF LiveAnswer
<1>2. /\ refresh' = refresh /\ loading' = loading /\ feedIps' = feedIps
      /\ ipScores' = ipScores
  BY <1>1 DEF feedVars
<1>3. c \in CallType /\ LookupOK(c) /\ c.ip \notin LocalIps
  BY <1>1 DEF IntelInv, LookupsOK, LookupOK
<1>4. PICK n \in [answering -> UNION {Counts[s] : s \in Sources}] :
        LET known == {s \in answering : ScoreOf(s, n[s]) # Nothing}
            answers == [s \in known |-> ScoreOf(s, n[s])]
        IN /\ \A s \in answering : n[s] \in Counts[s]
           /\ reported' = reported \cup {<<c.ip, s, answers[s]>> : s \in known}
           /\ call' = [call EXCEPT ![t] =
                         IF known = {} THEN Answered(c, Nothing)
                         ELSE [c EXCEPT !.at = "save", !.found = Merged(answers)]]
  BY DEF LiveAnswer
<1> DEFINE known == {s \in answering : ScoreOf(s, n[s]) # Nothing}
           answers == [s \in known |-> ScoreOf(s, n[s])]
<1>5. /\ \A s \in answering : n[s] \in Counts[s]
      /\ reported' = reported \cup {<<c.ip, s, answers[s]>> : s \in known}
      /\ call' = [call EXCEPT ![t] =
                    IF known = {} THEN Answered(c, Nothing)
                    ELSE [c EXCEPT !.at = "save", !.found = Merged(answers)]]
  BY <1>4
<1>6. known \subseteq Sources /\ DOMAIN answers = known
  OBVIOUS
<1>7. \A s \in known : answers[s] \in 0..100
  BY <1>5, ScoresInPercent
<1> HIDE DEF known, answers
<1>8. reported \subseteq reported'
  BY <1>5
<1>9. PICK d : d = IF known = {} THEN Answered(c, Nothing)
                   ELSE [c EXCEPT !.at = "save", !.found = Merged(answers)]
  OBVIOUS
<1>10. LookupOK(d)'
  <2>1. CASE known = {}
    <3>1. CachedOK(c.ip, Nothing)
      BY DEF CachedOK
    <3>2. LookupOK(d)
      BY <1>3, <1>9, <2>1, <3>1, AnswerIsBacked
    <3> QED
      BY <1>2, <1>8, <3>2, ReportsStay
  <2>2. CASE known # {}
    <3> DEFINE S == {answers[s] : s \in known}
    <3>1. S \in SUBSET (0..100) /\ S # {}
      BY <1>7, <2>2
    <3>2. Max(S) \in S
      BY <3>1, HighestScore
    <3>3. PICK s \in known : Max(S) = answers[s]
      BY <3>2
    <3>4. PICK m : m = Merged(answers)
      OBVIOUS
    <3>5. m = [score |-> Max(S), sources |-> known]
      BY <1>6, <3>4 DEF Merged
    <3> HIDE DEF S
    <3>6. m.score = answers[s] /\ m.sources = known /\ m \in Indicator
      BY <1>6, <1>7, <3>3, <3>5 DEF Indicator
    <3>7. /\ d \in CallType /\ d.at = "save" /\ d.ip = c.ip /\ d.found = m
      BY <1>3, <1>9, <2>2, <3>4, <3>6 DEF CallType
    <3>8. Backed(d.ip, d.found)'
      <4>1. \A r \in known : <<d.ip, r, answers[r]>> \in reported'
        BY <1>5, <3>7
      <4>2. ASSUME NEW r \in known
            PROVE  \E w \in reported' : w[1] = d.ip /\ w[2] = r
        BY <4>1
      <4>3. d.found.score = answers[s] /\ d.found.sources = known
        BY <3>6, <3>7
      <4> QED
        BY <4>1, <4>2, <4>3 DEF Backed
    <3> QED
      BY <1>3, <3>6, <3>7, <3>8 DEF LookupOK
  <2> QED
    BY <2>1, <2>2
<1>11. LookupsOK'
  BY <1>2, <1>5, <1>8, <1>9, <1>10, OneLookup
<1>12. CachesOK'
  BY <1>1, <1>2, <1>8, CachesStay
<1> QED
  BY <1>2, <1>11, <1>12 DEF IntelInv, FeedsOK

(* The steps of the services outside.                                      *)
LEMMA ExpireKeeps ==
  ASSUME IntelInv, NEW j \in Ips, Expire(j)
  PROVE  IntelInv'
<1>1. /\ l2' = [l2 EXCEPT ![j] = Nothing] /\ call' = call /\ l1' = l1
      /\ reported' = reported /\ UNCHANGED feedVars
  BY DEF Expire
<1>2. /\ refresh' = refresh /\ loading' = loading /\ feedIps' = feedIps
      /\ ipScores' = ipScores
  BY <1>1 DEF feedVars
<1>3. \A i \in Ips : l2'[i] = l2[i] \/ l2'[i] = Nothing
  BY <1>1 DEF IntelInv, CachesOK
<1>4. l2' \in [Ips -> Indicator \cup {Nothing}]
  BY <1>1 DEF IntelInv, CachesOK
<1>5. CachesOK'
  BY <1>1, <1>2, <1>3, <1>4 DEF IntelInv, CachesOK, CachedOK, Backed
<1>6. LookupsOK'
  <2>1. ASSUME NEW t \in Lookups
        PROVE  LookupOK(call[t])'
    <3>1. PICK c : c = call[t]
      OBVIOUS
    <3>2. LookupOK(c)
      BY <3>1 DEF IntelInv, LookupsOK
    <3>3. LookupOK(c)'
      BY <1>1, <1>2, <3>2 DEF LookupOK, CachedOK, VerdictOK, Backed
    <3> QED
      BY <1>1, <3>1, <3>3
  <2>2. call' = [t \in Lookups |-> call'[t]]
    BY <1>1 DEF IntelInv, LookupsOK
  <2> QED
    BY <2>1, <2>2 DEF LookupsOK
<1> QED
  BY <1>2, <1>5, <1>6 DEF IntelInv, FeedsOK

LEMMA FeedLoopKeeps ==
  ASSUME IntelInv,
         \/ \E f \in Feeds : FeedStep(f)
         \/ Start \/ RefreshStep \/ StopService
  PROVE  IntelInv'
<1>1. /\ call' = call /\ l1' = l1 /\ l2' = l2 /\ reported' = reported
      /\ feedIps \subseteq feedIps'
  BY DEF FeedStep, ListArrives, AddToSet, AddScore, FeedLoaded, FeedFails, Start, RefreshStep,
     WakeUp, EndRefresh, StopService, BeginRefresh, cacheVars
<1>2. LookupsOK'
  <2>1. \A c : LookupOK(c) => LookupOK(c)'
    BY <1>1, ReportsStay
  <2>2. ASSUME NEW t \in Lookups
        PROVE  LookupOK(call[t])'
    <3>1. PICK d : d = call[t]
      OBVIOUS
    <3>2. LookupOK(d)
      BY <3>1 DEF IntelInv, LookupsOK
    <3>3. LookupOK(d)'
      BY <2>1, <3>2
    <3>4. call'[t] = d
      BY <1>1, <3>1
    <3> QED
      BY <3>3, <3>4
  <2> QED
    BY <1>1, <2>2 DEF IntelInv, LookupsOK
<1>3. CachesOK'
  BY <1>1, CachesStay
<1>4. FeedsOK'
  <2> USE DEF IntelInv, FeedsOK
  <2>1. ASSUME NEW f \in Feeds, \E listed \in SUBSET Ips : ListArrives(f, listed)
        PROVE  FeedsOK'
    BY <2>1 DEF ListArrives, LoadType
  <2>2. ASSUME NEW f \in Feeds, \E i \in Ips : AddToSet(f, i)
        PROVE  FeedsOK'
    BY <2>2 DEF AddToSet, LoadType
  <2>3. ASSUME NEW f \in Feeds, AddScore(f)
        PROVE  FeedsOK'
    <3>1. loading[f].half \in Ips /\ loading[f] \in LoadType
      BY <2>3 DEF AddScore, LoadType
    <3>2. ipScores' = [ipScores EXCEPT ![loading[f].half] = FeedScore[f]]
      BY <2>3 DEF AddScore
    <3>3. ipScores' \in [Ips -> {FeedScore[g] : g \in Feeds} \cup {Nothing}]
      BY <3>1, <3>2
    <3>4. loading' \in [Feeds -> LoadType] /\ refresh' = refresh
      BY <2>3, <3>1 DEF AddScore, LoadType
    <3> QED
      BY <3>3, <3>4
  <2>4. ASSUME NEW f \in Feeds, FeedLoaded(f) \/ FeedFails(f)
        PROVE  FeedsOK'
    BY <2>4 DEF FeedLoaded, FeedFails, LoadType
  <2>5. CASE Start \/ RefreshStep \/ StopService
    BY <2>5 DEF Start, RefreshStep, WakeUp, EndRefresh, StopService, BeginRefresh, LoadType
  <2> QED
    BY <2>1, <2>2, <2>3, <2>4, <2>5 DEF FeedStep
<1> QED
  BY <1>2, <1>3, <1>4 DEF IntelInv

(* Whatever lookups interleave, whichever cache level or source answers or *)
(* fails: an address is given no other's indicator and no source that did  *)
(* not report it, and a verdict against it rests on a feed or a report.    *)
THEOREM IntelIsAlwaysSound == IntelSpec => []IntelSound
<1>1. IntelInit => IntelInv
  <2> SUFFICES ASSUME IntelInit
               PROVE  IntelInv
    OBVIOUS
  <2>1. CachesOK
    BY DEF IntelInit, CachesOK, CachedOK
  <2>2. FeedsOK
    BY DEF IntelInit, FeedsOK, LoadType
  <2>3. LookupsOK
    <3>1. PICK i \in Ips : i = CHOOSE x \in Ips : TRUE
      BY IntelAssumption
    <3>2. PICK c : c = [at |-> "idle", ip |-> i, asks |-> "indicator", found |-> Nothing]
      OBVIOUS
    <3>3. c \in CallType /\ c.at = "idle"
      BY <3>2 DEF CallType
    <3>4. LookupOK(c)
      BY <3>3 DEF LookupOK
    <3>5. call \in [Lookups -> {c}]
      BY <3>1, <3>2 DEF IntelInit
    <3>6. \A t \in Lookups : call[t] = c
      BY <3>5
    <3> QED
      BY <3>4, <3>5, <3>6 DEF LookupsOK
  <2> QED
    BY <2>1, <2>2, <2>3 DEF IntelInv
<1>2. IntelInv /\ [IntelNext]_intelVars => IntelInv'
  <2> SUFFICES ASSUME IntelInv, [IntelNext]_intelVars
               PROVE  IntelInv'
    OBVIOUS
  <2>1. CASE UNCHANGED intelVars
    <3>1. /\ call' = call /\ l1' = l1 /\ l2' = l2 /\ reported' = reported
          /\ refresh' = refresh /\ loading' = loading /\ feedIps' = feedIps
          /\ ipScores' = ipScores
      BY <2>1 DEF intelVars, cacheVars, feedVars
    <3>2. CachesOK'
      BY <3>1, CachesStay
    <3>3. LookupsOK'
      BY <3>1, SMTT(30) DEF IntelInv, LookupsOK, LookupOK, CachedOK, VerdictOK, Backed
    <3> QED
      BY <3>1, <3>2, <3>3 DEF IntelInv, FeedsOK
  <2>2. CASE IntelNext
    BY <2>2, AskKeeps, CacheStepKeeps, LiveAnswerKeeps, ExpireKeeps, FeedLoopKeeps
       DEF IntelNext, LookupStep
  <2> QED
    BY <2>1, <2>2
<1> QED
  BY <1>1, <1>2, IntelInvSound, PTL DEF IntelSpec

-----------------------------------------------------------------------------
(* Authorizer.  Only a call that found no enforcer makes one, once: the    *)
(* objects are no more than the calls.  As long as there is one object,    *)
(* what it enforces is what is stored, except for the policies that are    *)
(* flying: those only a change under way, or one that ended badly, touches.*)
Fresh == {c \in AuthCalls : authCall[c].at \in {"idle", "adapter"}}
Reading(mine) == mine.at \in {"loading", "read"}
Changing(mine) == mine.at \in {"saving", "saved"}
Flies(mine) == Changing(mine) \/ mine.unsure
FlyingOf(calls) == {p \in Policies : \E c \in AuthCalls : Flies(calls[c]) /\ p \in calls[c].policies}

Agree(some) == \A p \in Policies \ Flying : p \in some <=> p \in stored

AuthTypes ==
  /\ stored \in SUBSET Policies
  /\ created \in Nat /\ enforcer = created
  /\ loaded \in [Objects -> BOOLEAN]
  /\ model \in [Objects -> SUBSET Policies]
  /\ authCall \in [AuthCalls -> AuthCallType]

ObjectsCounted == created + Cardinality(Fresh) <= Cardinality(AuthCalls)

(* Where a call stands.                                                    *)
CallPlaced(mine) ==
  /\ mine.at \notin Over \cup {"adapter"} => mine.obj \in 1..created
  /\ mine.at # "done" => mine.verdict = "none"
  /\ mine.verdict # "none" => created # 0
  /\ mine.at \in {"idle", "adapter", "loading", "read"} => mine.asked = {}
  /\ mine.at = "idle" => ~mine.unsure
  /\ Reading(mine) => ~loaded[mine.obj]
  /\ Changing(mine) /\ ~mine.unsure => loaded[mine.obj]

(* What it knows of the policy.                                            *)
CallInformed(mine) ==
  /\ mine.at \notin Over => mine.always \subseteq stored \ Flying /\ stored \cup Flying \subseteq mine.once
  /\ created = 1 /\ mine.verdict = "allow" => mine.policies \cap mine.once # {}
  /\ created = 1 /\ mine.verdict = "deny" /\ ~mine.early => mine.policies \cap mine.always = {}
  /\ created = 1 /\ mine.at = "enforce" /\ ~mine.early => mine.asked \cap mine.always = {}
  /\ created = 1 /\ mine.at = "read" => Agree(mine.rows)
  /\ mine.at = "saved" /\ ~mine.unsure => Changed(mine, stored) = stored

(* Of two calls.                                                           *)
CallsApart(mine, other) ==
  /\ Reading(mine) /\ Reading(other) => mine.obj # other.obj
  /\ Changing(mine) /\ Changing(other) /\ ~mine.unsure => mine.policies \cap other.policies = {}

ObjectsOK ==
  /\ \A n \in Objects : loaded[n] => n <= created
  /\ \A n \in Objects : n > created => model[n] = {}
  /\ created = 1 => \A n \in Objects : ~loaded[n] => model[n] \subseteq Flying
  /\ created = 1 => \A n \in Objects : loaded[n] => Agree(model[n])

AuthInv ==
  /\ AuthTypes /\ ObjectsCounted /\ ObjectsOK
  /\ \A c \in AuthCalls : CallPlaced(authCall[c])
  /\ \A c \in AuthCalls : CallInformed(authCall[c])
  /\ \A c, d \in AuthCalls : c # d => CallsApart(authCall[c], authCall[d])

(* How many calls there are that may still make an object.                 *)
LEMMA FreshCount ==
  /\ Cardinality(AuthCalls) \in Nat
  /\ Cardinality(Fresh) \in Nat /\ IsFiniteSet(Fresh)
<1>1. IsFiniteSet(AuthCalls) /\ Fresh \in SUBSET AuthCalls
  BY AuthAssumption DEF Fresh
<1> QED
  BY <1>1, FS_Subset, FS_CardinalityType

LEMMA ObjectsBounded ==
  ASSUME AuthInv
  PROVE  /\ created \in 0..Cardinality(AuthCalls)
         /\ 1..created \subseteq Objects
         /\ \A c \in AuthCalls : authCall[c].at = "adapter" => created + 1 \in Objects
<1>1. /\ created \in Nat /\ created + Cardinality(Fresh) <= Cardinality(AuthCalls)
      /\ Cardinality(AuthCalls) \in Nat /\ Cardinality(Fresh) \in Nat
  BY FreshCount DEF AuthInv, AuthTypes, ObjectsCounted
<1>2. ASSUME NEW c \in AuthCalls, authCall[c].at = "adapter"
      PROVE  created + 1 \in Objects
  <2>1. c \in Fresh
    BY <1>2 DEF Fresh
  <2>2. Cardinality(Fresh) # 0
    BY <2>1, FreshCount, FS_EmptySet
  <2> QED
    BY <1>1, <2>2 DEF Objects
<1>3. 1..created \subseteq Objects
  BY <1>1 DEF Objects
<1> QED
  BY <1>1, <1>2, <1>3

LEMMA AuthInvSound == AuthInv => AccessSound
<1> SUFFICES ASSUME AuthInv
             PROVE  AccessSound
  OBVIOUS
<1>1. created \in 0..Cardinality(AuthCalls)
  BY ObjectsBounded
<1>2. AuthTypeOK
  BY <1>1 DEF AuthInv, AuthTypes, AuthTypeOK
<1>3. DecisionsBacked
  BY DEF AuthInv, CallInformed, ObjectsOK, Agree, DecisionsBacked
<1> QED
  BY <1>2, <1>3 DEF AccessSound

(* No step makes a call fresh that was not.                                *)
LEMMA FreshShrinks ==
  ASSUME AuthInv, created' = created,
         \A c \in AuthCalls : authCall'[c].at \in {"idle", "adapter"} =>
                                authCall[c].at \in {"idle", "adapter"}
  PROVE  ObjectsCounted'
<1>1. Fresh' \in SUBSET Fresh
  BY DEF Fresh
<1>2. PICK S : S = Fresh'
  OBVIOUS
<1>3. Cardinality(S) <= Cardinality(Fresh) /\ Cardinality(S) \in Nat
  BY <1>1, <1>2, FreshCount, FS_Subset, FS_CardinalityType
<1> QED
  BY <1>2, <1>3, FreshCount DEF AuthInv, AuthTypes, ObjectsCounted

(* The policies that fly, call by call.                                    *)
LEMMA FlyingIs ==
  /\ authCall \in [AuthCalls -> AuthCallType] => Flying = FlyingOf(authCall)
  /\ authCall' \in [AuthCalls -> AuthCallType] => Flying' = FlyingOf(authCall')
<1>1. \A f : FlyingOf(f) = {p \in Policies :
                              \E c \in AuthCalls : Flies(f[c]) /\ p \in f[c].policies}
  BY DEF FlyingOf
<1>2. \A f \in [AuthCalls -> AuthCallType] : \A c \in AuthCalls : f[c].policies \in SUBSET Policies
  BY DEF AuthCallType
<1>3. ASSUME authCall \in [AuthCalls -> AuthCallType]
      PROVE  Flying = FlyingOf(authCall)
  BY <1>1, <1>2, <1>3 DEF Flying, Flies, Changing
<1>4. ASSUME authCall' \in [AuthCalls -> AuthCallType]
      PROVE  Flying' = FlyingOf(authCall')
  BY <1>1, <1>2, <1>4 DEF Flying, Flies, Changing
<1> QED
  BY <1>3, <1>4

(* A step of one call that starts no change and no reading, and leaves     *)
(* what flies, the table and the objects as they are.                      *)
LEMMA QuietStepKeeps ==
  ASSUME AuthInv, NEW c \in AuthCalls, NEW d \in AuthCallType,
         authCall' = [authCall EXCEPT ![c] = d],
         stored' = stored, enforcer' = enforcer, created' = created,
         loaded' = loaded, model' = model,
         Flies(d) <=> Flies(authCall[c]),
         Flies(d) => d.policies = authCall[c].policies,
         d.at \in {"idle", "adapter"} => authCall[c].at \in {"idle", "adapter"},
         Reading(d) => Reading(authCall[c]) /\ d.obj = authCall[c].obj,
         Changing(d) => Changing(authCall[c]) /\ d.unsure = authCall[c].unsure,
         CallPlaced(d), CallInformed(d)
  PROVE  AuthInv'
<1>1. authCall \in [AuthCalls -> AuthCallType] /\ authCall' \in [AuthCalls -> AuthCallType]
  BY DEF AuthInv, AuthTypes
<1>2. Flying' = Flying
  <2>1. \A a \in AuthCalls : /\ Flies(authCall'[a]) <=> Flies(authCall[a])
                             /\ Flies(authCall[a]) => authCall'[a].policies = authCall[a].policies
    BY <1>1
  <2>2. FlyingOf(authCall') = FlyingOf(authCall)
    BY <2>1 DEF FlyingOf
  <2> QED
    BY <1>1, <2>2, FlyingIs
<1>3. AuthTypes'
  BY <1>1 DEF AuthInv, AuthTypes
<1>4. ObjectsCounted'
  BY <1>1, FreshShrinks
<1>5. ObjectsOK'
  BY <1>2 DEF AuthInv, ObjectsOK, Agree
<1>6. \A a \in AuthCalls : authCall'[a] = IF a = c THEN d ELSE authCall[a]
  BY <1>1
<1>7. \A a \in AuthCalls : CallPlaced(authCall[a])'
  BY <1>6 DEF AuthInv, CallPlaced
<1>8. \A a \in AuthCalls : CallInformed(authCall[a])'
  BY <1>2, <1>6 DEF AuthInv, CallInformed, Agree
<1>9. \A a, b \in AuthCalls : a # b => CallsApart(authCall[a], authCall[b])'
  <2>1. \A b \in AuthCalls : b # c => /\ CallsApart(d, authCall[b]) /\ CallsApart(authCall[b], d)
    BY DEF AuthInv, CallsApart, Flies
  <2> QED
    BY <1>6, <2>1 DEF AuthInv, CallsApart
<1> QED
  BY <1>3, <1>4, <1>5, <1>7, <1>8, <1>9 DEF AuthInv

LEMMA EnterKeeps ==
  ASSUME AuthInv, NEW c \in AuthCalls, NEW does \in {"authorize", "add", "remove"},
         NEW ps \in SUBSET Policies, Enter(c, does, ps)
  PROVE  AuthInv'
<1>1. /\ stored' = stored /\ enforcer' = enforcer /\ created' = created
      /\ loaded' = loaded /\ model' = model /\ authCall[c].at = "idle"
  BY DEF Enter
<1>2. PICK d : d = [authCall[c] EXCEPT !.at = IF enforcer = 0 THEN "adapter" ELSE "enforce",
                                       !.obj = enforcer, !.does = does, !.policies = ps,
                                       !.always = stored \ Flying, !.once = stored \cup Flying]
  OBVIOUS
<1>3. authCall' = [authCall EXCEPT ![c] = d]
  BY <1>2 DEF Enter
<1>4. /\ authCall[c] \in AuthCallType /\ CallPlaced(authCall[c]) /\ authCall[c].verdict = "none"
      /\ authCall[c].asked = {} /\ ~authCall[c].unsure
  BY <1>1 DEF AuthInv, AuthTypes, CallPlaced
<1>5. enforcer = created /\ created \in 0..Cardinality(AuthCalls) /\ stored \in SUBSET Policies
  BY ObjectsBounded DEF AuthInv, AuthTypes
<1>6. Flying \in SUBSET Policies
  BY FlyingIs DEF AuthInv, AuthTypes, FlyingOf
<1>7. /\ d \in AuthCallType /\ d.verdict = "none" /\ d.obj = created /\ ~d.unsure /\ d.asked = {}
      /\ d.always = stored \ Flying /\ d.once = stored \cup Flying
      /\ d.at = IF created = 0 THEN "adapter" ELSE "enforce"
  BY <1>2, <1>4, <1>5, <1>6 DEF AuthCallType
<1>8. CallPlaced(d) /\ CallInformed(d)
  BY <1>5, <1>7 DEF CallPlaced, CallInformed, Reading, Changing, Over
<1>9. ~Flies(d) /\ ~Flies(authCall[c]) /\ ~Reading(d) /\ ~Changing(d)
  BY <1>1, <1>4, <1>7 DEF Flies, Reading, Changing
<1> QED
  BY <1>1, <1>3, <1>7, <1>8, <1>9, QuietStepKeeps

LEMMA ReadPolicyKeeps ==
  ASSUME AuthInv, NEW c \in AuthCalls, ReadPolicy(c)
  PROVE  AuthInv'
<1>1. /\ stored' = stored /\ enforcer' = enforcer /\ created' = created
      /\ loaded' = loaded /\ model' = model /\ authCall[c].at = "loading"
  BY DEF ReadPolicy
<1>2. PICK d : d = [authCall[c] EXCEPT !.at = "read", !.rows = stored]
  OBVIOUS
<1>3. authCall' = [authCall EXCEPT ![c] = d]
  BY <1>2 DEF ReadPolicy, AuthInv, AuthTypes
<1>4. authCall[c] \in AuthCallType /\ CallPlaced(authCall[c]) /\ CallInformed(authCall[c])
  BY DEF AuthInv, AuthTypes
<1>5. stored \in SUBSET Policies
  BY DEF AuthInv, AuthTypes
<1>6. /\ d \in AuthCallType /\ d.at = "read" /\ d.rows = stored
      /\ d.obj = authCall[c].obj /\ d.verdict = authCall[c].verdict /\ d.early = authCall[c].early
      /\ d.policies = authCall[c].policies /\ d.unsure = authCall[c].unsure
      /\ d.asked = authCall[c].asked
      /\ d.always = authCall[c].always /\ d.once = authCall[c].once
  BY <1>2, <1>4, <1>5 DEF AuthCallType
<1>7. CallPlaced(d)
  BY <1>1, <1>4, <1>6 DEF CallPlaced, Reading, Changing, Over
<1>8. CallInformed(d)
  BY <1>1, <1>4, <1>6 DEF CallInformed, CallPlaced, Agree, Over
<1>9. /\ Flies(d) <=> Flies(authCall[c])
      /\ Reading(authCall[c]) /\ ~Changing(d)
  BY <1>1, <1>6 DEF Flies, Reading, Changing
<1> QED
  BY <1>1, <1>3, <1>6, <1>7, <1>8, <1>9, QuietStepKeeps

LEMMA InitRaisesKeeps ==
  ASSUME AuthInv, NEW c \in AuthCalls, InitRaises(c)
  PROVE  AuthInv'
<1>1. /\ stored' = stored /\ enforcer' = enforcer /\ created' = created
      /\ loaded' = loaded /\ model' = model
      /\ authCall[c].at \in {"adapter", "loading", "read"}
  BY DEF InitRaises
<1>2. PICK d : d = [authCall[c] EXCEPT !.at = "raised"]
  OBVIOUS
<1>3. authCall' = [authCall EXCEPT ![c] = d]
  BY <1>2 DEF InitRaises, AuthInv, AuthTypes
<1>4. authCall[c] \in AuthCallType /\ CallPlaced(authCall[c]) /\ authCall[c].verdict = "none"
  BY <1>1 DEF AuthInv, AuthTypes, CallPlaced
<1>5. /\ d \in AuthCallType /\ d.at = "raised" /\ d.verdict = "none"
      /\ d.policies = authCall[c].policies /\ d.unsure = authCall[c].unsure
  BY <1>2, <1>4 DEF AuthCallType
<1>6. CallPlaced(d) /\ CallInformed(d)
  BY <1>5 DEF CallPlaced, CallInformed, Reading, Changing, Over
<1>7. /\ Flies(d) <=> Flies(authCall[c])
      /\ ~Reading(d) /\ ~Changing(d)
  BY <1>1, <1>5 DEF Flies, Reading, Changing
<1> QED
  BY <1>1, <1>3, <1>5, <1>6, <1>7, QuietStepKeeps

LEMMA SaveRaisesKeeps ==
  ASSUME AuthInv, NEW c \in AuthCalls, SaveRaises(c)
  PROVE  AuthInv'
<1>1. /\ stored' = stored /\ enforcer' = enforcer /\ created' = created
      /\ loaded' = loaded /\ model' = model
      /\ authCall[c].at \in {"saving", "saved"}
  BY DEF SaveRaises
<1>2. PICK d : d = [authCall[c] EXCEPT !.at = "raised", !.unsure = TRUE]
  OBVIOUS
<1>3. authCall' = [authCall EXCEPT ![c] = d]
  BY <1>2 DEF SaveRaises, AuthInv, AuthTypes
<1>4. authCall[c] \in AuthCallType /\ CallPlaced(authCall[c]) /\ authCall[c].verdict = "none"
  BY <1>1 DEF AuthInv, AuthTypes, CallPlaced
<1>5. /\ d \in AuthCallType /\ d.at = "raised" /\ d.verdict = "none"
      /\ d.policies = authCall[c].policies /\ d.unsure
  BY <1>2, <1>4 DEF AuthCallType
<1>6. CallPlaced(d) /\ CallInformed(d)
  BY <1>5 DEF CallPlaced, CallInformed, Reading, Changing, Over
<1>7. /\ Flies(d) /\ Flies(authCall[c])
      /\ ~Reading(d) /\ ~Changing(d)
  BY <1>1, <1>5 DEF Flies, Reading, Changing
<1> QED
  BY <1>1, <1>3, <1>5, <1>6, <1>7, QuietStepKeeps

(* What one object enforces is what is stored, unless it flies.            *)
LEMMA Enforcing ==
  ASSUME AuthInv, NEW c \in AuthCalls, authCall[c].at = "enforce"
  PROVE  /\ authCall[c].obj \in Objects /\ created # 0
         /\ created = 1 => model[authCall[c].obj] \subseteq authCall[c].once
         /\ created = 1 /\ loaded[authCall[c].obj] =>
              authCall[c].always \subseteq model[authCall[c].obj]
<1>1. authCall[c] \in AuthCallType /\ CallPlaced(authCall[c]) /\ CallInformed(authCall[c])
  BY DEF AuthInv, AuthTypes
<1>2. authCall[c].obj \in 1..created
  BY <1>1 DEF CallPlaced, Over
<1>3. authCall[c].obj \in Objects /\ created # 0
  BY <1>2, ObjectsBounded
<1>4. authCall[c].always \subseteq stored \ Flying /\ stored \cup Flying \subseteq authCall[c].once
  BY <1>1 DEF CallInformed, Over
<1>5. model[authCall[c].obj] \in SUBSET Policies /\ stored \in SUBSET Policies
  BY <1>3 DEF AuthInv, AuthTypes
<1>6. created = 1 => IF loaded[authCall[c].obj] THEN Agree(model[authCall[c].obj])
                     ELSE model[authCall[c].obj] \subseteq Flying
  BY <1>3 DEF AuthInv, ObjectsOK
<1> QED
  BY <1>3, <1>4, <1>5, <1>6 DEF Agree

LEMMA AskRoleKeeps ==
  ASSUME AuthInv, NEW c \in AuthCalls, AskRole(c)
  PROVE  AuthInv'
<1> DEFINE mine == authCall[c]
<1>1. /\ stored' = stored /\ enforcer' = enforcer /\ created' = created
      /\ loaded' = loaded /\ model' = model /\ mine.at = "enforce"
  BY DEF AskRole
<1>2. PICK p \in mine.policies \ mine.asked :
        authCall' = [authCall EXCEPT ![c] =
          IF Enforces(mine.obj, p) THEN [mine EXCEPT !.at = "done", !.verdict = "allow"]
          ELSE [mine EXCEPT !.asked = @ \cup {p}, !.early = @ \/ ~loaded[mine.obj]]]
  BY ZenonT(60) DEF AskRole
<1>3. /\ mine \in AuthCallType /\ CallPlaced(mine) /\ CallInformed(mine)
      /\ mine.verdict = "none"
  BY <1>1 DEF AuthInv, AuthTypes, CallPlaced
<1>4. mine.obj \in Objects /\ created # 0 /\ p \in Policies
  BY <1>1, <1>3, Enforcing DEF AuthCallType
<1>5. CASE Enforces(mine.obj, p)
  <2>1. PICK d : d = [mine EXCEPT !.at = "done", !.verdict = "allow"]
    OBVIOUS
  <2>2. authCall' = [authCall EXCEPT ![c] = d]
    BY <1>2, <1>5, <2>1
  <2>3. /\ d \in AuthCallType /\ d.at = "done" /\ d.verdict = "allow"
        /\ d.policies = mine.policies /\ d.unsure = mine.unsure /\ d.once = mine.once
    BY <1>3, <2>1 DEF AuthCallType
  <2>4. created = 1 => p \in mine.once
    BY <1>1, <1>5, Enforcing DEF Enforces
  <2>5. CallPlaced(d) /\ CallInformed(d)
    BY <1>2, <1>4, <2>3, <2>4 DEF CallPlaced, CallInformed, Reading, Changing, Over
  <2>6. (Flies(d) <=> Flies(mine)) /\ ~Reading(d) /\ ~Changing(d)
    BY <1>1, <2>3 DEF Flies, Reading, Changing
  <2> QED
    BY <1>1, <2>2, <2>3, <2>5, <2>6, QuietStepKeeps
<1>6. CASE ~Enforces(mine.obj, p)
  <2>1. PICK d : d = [mine EXCEPT !.asked = @ \cup {p}, !.early = @ \/ ~loaded[mine.obj]]
    OBVIOUS
  <2>2. authCall' = [authCall EXCEPT ![c] = d]
    BY <1>2, <1>6, <2>1
  <2>3. d.early = (mine.early \/ ~loaded[mine.obj]) /\ d.asked = mine.asked \cup {p}
    BY <1>3, <2>1 DEF AuthCallType
  <2>4. d.early \in BOOLEAN /\ d.asked \in SUBSET Policies
    BY <1>3, <1>4, <2>3 DEF AuthCallType
  <2>5. /\ d \in AuthCallType /\ d.at = "enforce" /\ d.verdict = "none" /\ d.obj = mine.obj
        /\ d.policies = mine.policies /\ d.unsure = mine.unsure
        /\ d.once = mine.once /\ d.always = mine.always
    BY <1>1, <1>3, <2>1, <2>4 DEF AuthCallType
  <2>6. created = 1 /\ loaded[mine.obj] => p \notin mine.always
    BY <1>1, <1>6, Enforcing DEF Enforces
  <2>7. CallPlaced(d)
    BY <1>1, <1>3, <2>5 DEF CallPlaced, Reading, Changing, Over
  <2>8. created = 1 /\ ~d.early => d.asked \cap d.always = {}
    BY <1>1, <1>3, <2>3, <2>5, <2>6 DEF CallInformed
  <2>9. CallInformed(d)
    BY <1>1, <1>3, <2>5, <2>8 DEF CallInformed, Over
  <2>10. (Flies(d) <=> Flies(mine)) /\ ~Reading(d) /\ ~Changing(d)
    BY <1>1, <2>5 DEF Flies, Reading, Changing
  <2> QED
    BY <1>1, <2>2, <2>5, <2>7, <2>9, <2>10, QuietStepKeeps
<1> QED
  BY <1>5, <1>6

LEMMA NoRoleLeftKeeps ==
  ASSUME AuthInv, NEW c \in AuthCalls, NoRoleLeft(c)
  PROVE  AuthInv'
<1> DEFINE mine == authCall[c]
<1>1. /\ stored' = stored /\ enforcer' = enforcer /\ created' = created
      /\ loaded' = loaded /\ model' = model /\ mine.at = "enforce" /\ mine.asked = mine.policies
  BY DEF NoRoleLeft
<1>2. PICK d : d = [mine EXCEPT !.at = "done", !.verdict = "deny"]
  OBVIOUS
<1>3. authCall' = [authCall EXCEPT ![c] = d]
  BY <1>2 DEF NoRoleLeft, AuthInv, AuthTypes
<1>4. mine \in AuthCallType /\ CallInformed(mine)
  BY DEF AuthInv, AuthTypes
<1>5. /\ d \in AuthCallType /\ d.at = "done" /\ d.verdict = "deny" /\ d.early = mine.early
      /\ d.policies = mine.policies /\ d.unsure = mine.unsure /\ d.always = mine.always
  BY <1>2, <1>4 DEF AuthCallType
<1>6. created # 0
  BY <1>1, Enforcing
<1>7. CallPlaced(d)
  BY <1>5, <1>6 DEF CallPlaced, Reading, Changing, Over
<1>8. CallInformed(d)
  BY <1>1, <1>4, <1>5 DEF CallInformed, Over
<1>9. (Flies(d) <=> Flies(mine)) /\ ~Reading(d) /\ ~Changing(d)
  BY <1>1, <1>5 DEF Flies, Reading, Changing
<1> QED
  BY <1>1, <1>3, <1>5, <1>7, <1>8, <1>9, QuietStepKeeps

LEMMA ChangeIsNoneKeeps ==
  ASSUME AuthInv, NEW c \in AuthCalls, ChangeIsNone(c)
  PROVE  AuthInv'
<1> DEFINE mine == authCall[c]
<1>1. /\ stored' = stored /\ enforcer' = enforcer /\ created' = created
      /\ loaded' = loaded /\ model' = model /\ mine.at = "enforce"
  BY DEF ChangeIsNone
<1>2. PICK d : d = [mine EXCEPT !.at = "done"]
  OBVIOUS
<1>3. authCall' = [authCall EXCEPT ![c] = d]
  BY <1>2 DEF ChangeIsNone, AuthInv, AuthTypes
<1>4. mine \in AuthCallType /\ mine.verdict = "none"
  BY <1>1 DEF AuthInv, AuthTypes, CallPlaced
<1>5. /\ d \in AuthCallType /\ d.at = "done" /\ d.verdict = "none"
      /\ d.policies = mine.policies /\ d.unsure = mine.unsure
  BY <1>2, <1>4 DEF AuthCallType
<1>6. CallPlaced(d) /\ CallInformed(d)
  BY <1>5 DEF CallPlaced, CallInformed, Reading, Changing, Over
<1>7. (Flies(d) <=> Flies(mine)) /\ ~Reading(d) /\ ~Changing(d)
  BY <1>1, <1>5 DEF Flies, Reading, Changing
<1> QED
  BY <1>1, <1>3, <1>5, <1>6, <1>7, QuietStepKeeps

LEMMA MakeEnforcerKeeps ==
  ASSUME AuthInv, NEW c \in AuthCalls, MakeEnforcer(c)
  PROVE  AuthInv'
<1>1. /\ authCall[c].at = "adapter"
      /\ created' = created + 1 /\ enforcer' = created + 1
      /\ stored' = stored /\ loaded' = loaded /\ model' = model
  BY DEF MakeEnforcer
<1>2. PICK d : d = [authCall[c] EXCEPT !.at = "loading", !.obj = created + 1]
  OBVIOUS
<1>3. authCall' = [authCall EXCEPT ![c] = d]
  BY <1>2 DEF MakeEnforcer, AuthInv, AuthTypes
<1>4. /\ authCall[c] \in AuthCallType /\ CallPlaced(authCall[c]) /\ CallInformed(authCall[c])
      /\ authCall[c].verdict = "none"
  BY <1>1 DEF AuthInv, AuthTypes, CallPlaced
<1>5. created \in Nat /\ created + 1 \in Objects
  BY <1>1, ObjectsBounded DEF AuthInv, AuthTypes
<1>6. created + 1 \in 0..Cardinality(AuthCalls)
  BY <1>5, FreshCount DEF Objects
<1>7. /\ d \in AuthCallType /\ d.verdict = "none" /\ d.obj = created + 1 /\ d.at = "loading"
      /\ d.always = authCall[c].always /\ d.once = authCall[c].once
      /\ d.policies = authCall[c].policies /\ d.unsure = authCall[c].unsure
      /\ d.asked = authCall[c].asked
  BY <1>2, <1>4, <1>6 DEF AuthCallType
<1>8. authCall \in [AuthCalls -> AuthCallType] /\ authCall' \in [AuthCalls -> AuthCallType]
  BY <1>3, <1>7 DEF AuthInv, AuthTypes
<1>9. \A a \in AuthCalls : authCall'[a] = IF a = c THEN d ELSE authCall[a]
  BY <1>3, <1>8
<1>10. AuthTypes'
  BY <1>1, <1>5, <1>8 DEF AuthInv, AuthTypes
<1>11. ObjectsCounted'
  <2>1. Fresh' = Fresh \ {c} /\ c \in Fresh
    BY <1>1, <1>7, <1>9 DEF Fresh
  <2>2. PICK S : S = Fresh'
    OBVIOUS
  <2>3. Cardinality(S) = Cardinality(Fresh) - 1
    BY <2>1, <2>2, FreshCount, FS_RemoveElement
  <2> QED
    BY <1>1, <1>5, <2>2, <2>3, FreshCount DEF AuthInv, ObjectsCounted
<1>12. Flying' = Flying
  <2>1. \A a \in AuthCalls : /\ Flies(authCall'[a]) <=> Flies(authCall[a])
                             /\ authCall'[a].policies = authCall[a].policies
    BY <1>1, <1>7, <1>9 DEF Flies, Changing
  <2>2. FlyingOf(authCall') = FlyingOf(authCall)
    BY <2>1 DEF FlyingOf
  <2> QED
    BY <1>8, <2>2, FlyingIs
<1>13. created + 1 = 1 => created = 0
  BY <1>5
<1>14. created = 0 => /\ \A n \in Objects : ~loaded[n] /\ model[n] = {}
                      /\ \A a \in AuthCalls : authCall[a].at \in Over \cup {"adapter"}
  BY FreshCount DEF AuthInv, ObjectsOK, Objects, CallPlaced
<1>15. ~loaded[created + 1]
  BY <1>5 DEF AuthInv, ObjectsOK
<1>16. ObjectsOK'
  <2>1. \A n \in Objects : loaded[n] => n <= created + 1
    BY <1>5, FreshCount DEF AuthInv, ObjectsOK, Objects
  <2>2. \A n \in Objects : n > created + 1 => model[n] = {}
    BY <1>5, FreshCount DEF AuthInv, ObjectsOK, Objects
  <2> QED
    BY <1>1, <1>13, <1>14, <2>1, <2>2 DEF ObjectsOK
<1>17. \A a \in AuthCalls : CallPlaced(authCall[a])'
  <2> SUFFICES ASSUME NEW a \in AuthCalls
               PROVE  CallPlaced(authCall[a])'
    OBVIOUS
  <2>1. CASE a = c
    <3>1. created + 1 \in 1..(created + 1) /\ created + 1 # 0
      BY <1>5
    <3> QED
      BY <1>1, <1>4, <1>7, <1>9, <1>15, <2>1, <3>1 DEF CallPlaced, Reading, Changing, Over
  <2>2. CASE a # c
    <3>1. authCall'[a] = authCall[a] /\ CallPlaced(authCall[a])
      BY <1>9, <2>2 DEF AuthInv
    <3>2. created + 1 # 0 /\ \A n \in 1..created : n \in 1..(created + 1)
      BY <1>5
    <3> QED
      BY <1>1, <3>1, <3>2 DEF CallPlaced
  <2> QED
    BY <2>1, <2>2
<1>18. \A a \in AuthCalls : CallInformed(authCall[a])'
  <2> SUFFICES ASSUME NEW a \in AuthCalls
               PROVE  CallInformed(authCall[a])'
    OBVIOUS
  <2>1. CASE a = c
    BY <1>1, <1>4, <1>7, <1>9, <1>12, <2>1 DEF CallInformed, Over
  <2>2. CASE a # c
    <3>1. authCall'[a] = authCall[a] /\ CallInformed(authCall[a]) /\ CallPlaced(authCall[a])
      BY <1>9, <2>2 DEF AuthInv
    <3>2. created' = 1 => authCall[a].verdict = "none" /\ authCall[a].at \in Over \cup {"adapter"}
      BY <1>1, <1>13, <1>14, <3>1 DEF CallPlaced
    <3> QED
      BY <1>1, <1>12, <3>1, <3>2 DEF CallInformed, Over
  <2> QED
    BY <2>1, <2>2
<1>19. \A a, b \in AuthCalls : a # b => CallsApart(authCall[a], authCall[b])'
  <2>1. \A b \in AuthCalls : Reading(authCall[b]) => authCall[b].obj # created + 1
    <3> SUFFICES ASSUME NEW b \in AuthCalls, Reading(authCall[b])
                 PROVE  authCall[b].obj # created + 1
      OBVIOUS
    <3>1. authCall[b].obj \in 1..created
      BY DEF AuthInv, CallPlaced, Reading, Over
    <3> QED
      BY <1>5, <3>1
  <2>2. ~Changing(d)
    BY <1>7 DEF Changing
  <2>3. \A b \in AuthCalls : CallsApart(d, authCall[b]) /\ CallsApart(authCall[b], d)
    BY <1>7, <2>1, <2>2 DEF CallsApart
  <2> QED
    BY <1>9, <2>3 DEF AuthInv, CallsApart
<1> QED
  BY <1>10, <1>11, <1>16, <1>17, <1>18, <1>19 DEF AuthInv

LEMMA PolicyLoadedKeeps ==
  ASSUME AuthInv, NEW c \in AuthCalls, PolicyLoaded(c)
  PROVE  AuthInv'
<1> DEFINE m == authCall[c].obj
<1>1. /\ authCall[c].at = "read"
      /\ model' = [model EXCEPT ![m] = authCall[c].rows]
      /\ loaded' = [loaded EXCEPT ![m] = TRUE]
      /\ stored' = stored /\ enforcer' = enforcer /\ created' = created
  BY DEF PolicyLoaded
<1>2. PICK d : d = [authCall[c] EXCEPT !.at = "enforce"]
  OBVIOUS
<1>3. authCall' = [authCall EXCEPT ![c] = d]
  BY <1>2 DEF PolicyLoaded, AuthInv, AuthTypes
<1>4. /\ authCall[c] \in AuthCallType /\ CallPlaced(authCall[c]) /\ CallInformed(authCall[c])
      /\ authCall[c].verdict = "none" /\ authCall[c].asked = {}
  BY <1>1 DEF AuthInv, AuthTypes, CallPlaced
<1>5. /\ d \in AuthCallType /\ d.at = "enforce" /\ d.verdict = "none" /\ d.obj = m
      /\ d.always = authCall[c].always /\ d.once = authCall[c].once
      /\ d.policies = authCall[c].policies /\ d.unsure = authCall[c].unsure /\ d.asked = {}
  BY <1>1, <1>2, <1>4 DEF AuthCallType
<1>6. m \in 1..created /\ m \in Objects
  <2>1. m \in 1..created
    BY <1>1, <1>4 DEF CallPlaced, Over
  <2> QED
    BY <2>1, ObjectsBounded
<1>7. authCall[c].rows \in SUBSET Policies
  BY <1>4 DEF AuthCallType
<1>8. authCall \in [AuthCalls -> AuthCallType] /\ authCall' \in [AuthCalls -> AuthCallType]
  BY <1>3, <1>5 DEF AuthInv, AuthTypes
<1>9. \A a \in AuthCalls : authCall'[a] = IF a = c THEN d ELSE authCall[a]
  BY <1>3, <1>8
<1>10. AuthTypes'
  BY <1>1, <1>6, <1>7, <1>8 DEF AuthInv, AuthTypes
<1>11. /\ \A n \in Objects : loaded'[n] = (n = m \/ loaded[n])
       /\ \A n \in Objects : model'[n] = IF n = m THEN authCall[c].rows ELSE model[n]
  BY <1>1 DEF AuthInv, AuthTypes
<1>12. ObjectsCounted'
  BY <1>1, <1>5, <1>9, FreshShrinks
<1>13. Flying' = Flying
  <2>1. \A a \in AuthCalls : /\ Flies(authCall'[a]) <=> Flies(authCall[a])
                             /\ authCall'[a].policies = authCall[a].policies
    BY <1>1, <1>5, <1>9 DEF Flies, Changing
  <2>2. FlyingOf(authCall') = FlyingOf(authCall)
    BY <2>1 DEF FlyingOf
  <2> QED
    BY <1>8, <2>2, FlyingIs
<1>14. created = 1 => Agree(authCall[c].rows)
  BY <1>1, <1>4 DEF CallInformed
<1>15. m <= created /\ ~(m > created)
  BY <1>6 DEF AuthInv, AuthTypes
<1>16. ObjectsOK'
  <2>1. ObjectsOK
    BY DEF AuthInv
  <2>2. \A n \in Objects : loaded'[n] => n <= created
    BY <1>11, <1>15, <2>1 DEF ObjectsOK
  <2>3. \A n \in Objects : n > created => model'[n] = {}
    BY <1>11, <1>15, <2>1 DEF ObjectsOK
  <2>4. created = 1 => \A n \in Objects : ~loaded'[n] => model'[n] \subseteq Flying
    BY <1>11, <2>1 DEF ObjectsOK
  <2>5. created = 1 => \A n \in Objects : loaded'[n] => Agree(model'[n])
    BY <1>11, <1>14, <2>1 DEF ObjectsOK
  <2>6. \A n : Agree(model'[n]) => Agree(model[n])'
    BY <1>1, <1>13 DEF Agree
  <2> QED
    BY <1>1, <1>13, <2>2, <2>3, <2>4, <2>5, <2>6 DEF ObjectsOK
<1>17. \A a \in AuthCalls : CallPlaced(authCall[a])'
  <2> SUFFICES ASSUME NEW a \in AuthCalls
               PROVE  CallPlaced(authCall[a])'
    OBVIOUS
  <2>1. CASE a = c
    BY <1>1, <1>4, <1>5, <1>6, <1>9, <2>1 DEF CallPlaced, Reading, Changing, Over
  <2>2. CASE a # c
    <3>1. authCall'[a] = authCall[a] /\ CallPlaced(authCall[a])
      BY <1>9, <2>2 DEF AuthInv
    <3>2. Reading(authCall[a]) => authCall[a].obj \in Objects /\ authCall[a].obj # m
      <4>1. CallsApart(authCall[a], authCall[c]) /\ Reading(authCall[c])
        BY <1>1, <2>2 DEF AuthInv, Reading
      <4>2. Reading(authCall[a]) => authCall[a].obj \in 1..created
        BY <3>1 DEF CallPlaced, Reading, Over
      <4> QED
        BY <4>1, <4>2, ObjectsBounded DEF CallsApart
    <3>3. Changing(authCall[a]) => authCall[a].obj \in Objects
      <4>1. Changing(authCall[a]) => authCall[a].obj \in 1..created
        BY <3>1 DEF CallPlaced, Changing, Over
      <4> QED
        BY <4>1, ObjectsBounded
    <3> QED
      BY <1>1, <1>11, <3>1, <3>2, <3>3 DEF CallPlaced
  <2> QED
    BY <2>1, <2>2
<1>18. \A a \in AuthCalls : CallInformed(authCall[a])'
  <2>1. CallInformed(d)
    BY <1>1, <1>4, <1>5 DEF CallInformed, Over
  <2> QED
    BY <1>1, <1>9, <1>13, <2>1 DEF AuthInv, CallInformed, Agree
<1>19. \A a, b \in AuthCalls : a # b => CallsApart(authCall[a], authCall[b])'
  <2>1. ~Changing(d) /\ ~Reading(d)
    BY <1>5 DEF Changing, Reading
  <2>2. \A b \in AuthCalls : CallsApart(d, authCall[b]) /\ CallsApart(authCall[b], d)
    BY <2>1 DEF CallsApart
  <2> QED
    BY <1>9, <2>2 DEF AuthInv, CallsApart
<1> QED
  BY <1>10, <1>12, <1>16, <1>17, <1>18, <1>19 DEF AuthInv

LEMMA PolicySavedKeeps ==
  ASSUME AuthInv, NEW c \in AuthCalls, PolicySaved(c)
  PROVE  AuthInv'
<1> DEFINE mine == authCall[c]
<1>1. /\ mine.at = "saving"
      /\ stored' = Changed(mine, stored)
      /\ loaded' = loaded /\ enforcer' = enforcer /\ created' = created /\ model' = model
  BY DEF PolicySaved
<1>2. PICK d : d = [mine EXCEPT !.at = "saved"]
  OBVIOUS
<1>3. authCall' = [authCall EXCEPT ![c] = d]
  BY <1>2 DEF PolicySaved, AuthInv, AuthTypes
<1>4. /\ mine \in AuthCallType /\ CallPlaced(mine) /\ CallInformed(mine)
      /\ mine.verdict = "none" /\ mine.policies \in SUBSET Policies
  BY <1>1 DEF AuthInv, AuthTypes, CallPlaced, AuthCallType
<1>5. /\ d \in AuthCallType /\ d.at = "saved" /\ d.verdict = "none" /\ d.obj = mine.obj
      /\ d.always = mine.always /\ d.once = mine.once /\ d.does = mine.does
      /\ d.policies = mine.policies /\ d.unsure = mine.unsure
  BY <1>1, <1>2, <1>4 DEF AuthCallType
<1>6. authCall \in [AuthCalls -> AuthCallType] /\ authCall' \in [AuthCalls -> AuthCallType]
  BY <1>3, <1>5 DEF AuthInv, AuthTypes
<1>7. \A a \in AuthCalls : authCall'[a] = IF a = c THEN d ELSE authCall[a]
  BY <1>3, <1>6
<1>8. PICK new \in SUBSET Policies : new = Changed(mine, stored) /\ stored' = new
  BY <1>1, <1>4 DEF AuthInv, AuthTypes, Changed
<1>9. AuthTypes'
  BY <1>1, <1>6, <1>8 DEF AuthInv, AuthTypes
<1>10. ObjectsCounted'
  BY <1>1, <1>5, <1>7, FreshShrinks
<1>11. Flying' = Flying /\ mine.policies \subseteq Flying
  <2>1. \A a \in AuthCalls : /\ Flies(authCall'[a]) <=> Flies(authCall[a])
                             /\ authCall'[a].policies = authCall[a].policies
    BY <1>1, <1>5, <1>7 DEF Flies, Changing
  <2>2. FlyingOf(authCall') = FlyingOf(authCall)
    BY <2>1 DEF FlyingOf
  <2>3. mine.policies \subseteq FlyingOf(authCall)
    BY <1>1, <1>4 DEF FlyingOf, Flies, Changing
  <2> QED
    BY <1>6, <2>2, <2>3, FlyingIs
<1>12. \A p \in Policies \ Flying : p \in new <=> p \in stored
  BY <1>8, <1>11 DEF Changed
<1>13. new \ Flying = stored \ Flying /\ new \cup Flying = stored \cup Flying
  BY <1>8, <1>12 DEF AuthInv, AuthTypes
<1>14. ObjectsOK'
  <2>1. created = 1 => \A n \in Objects : loaded[n] => Agree(model[n])
    BY DEF AuthInv, ObjectsOK
  <2>2. created = 1 => \A n \in Objects : loaded[n] => \A p \in Policies \ Flying : p \in model[n] <=> p \in new
    BY <1>12, <2>1 DEF Agree
  <2> QED
    BY <1>1, <1>8, <1>11, <2>2 DEF AuthInv, ObjectsOK, Agree
<1>15. \A a \in AuthCalls : CallPlaced(authCall[a])'
  <2>1. CallPlaced(d)
    BY <1>1, <1>4, <1>5 DEF CallPlaced, Reading, Changing, Over
  <2> QED
    BY <1>1, <1>7, <2>1 DEF AuthInv, CallPlaced
<1>16. \A a \in AuthCalls : CallInformed(authCall[a])'
  <2> SUFFICES ASSUME NEW a \in AuthCalls
               PROVE  CallInformed(authCall[a])'
    OBVIOUS
  <2>1. CASE a = c
    <3>1. Changed(d, new) = new
      BY <1>5, <1>8 DEF Changed
    <3> QED
      BY <1>1, <1>4, <1>5, <1>7, <1>8, <1>11, <1>13, <2>1, <3>1 DEF CallInformed, Over
  <2>2. CASE a # c
    <3>1. PICK e : e = authCall[a] /\ e = authCall'[a]
      BY <1>7, <2>2
    <3>2. /\ e \in AuthCallType /\ CallInformed(e) /\ CallsApart(e, mine)
      BY <1>6, <2>2, <3>1 DEF AuthInv
    <3>3. e.at = "saved" /\ ~e.unsure => Changed(e, new) = new
      <4>1. e.at = "saved" /\ ~e.unsure => e.policies \cap mine.policies = {}
        BY <1>1, <3>2 DEF CallsApart, Changing
      <4>2. e.at = "saved" /\ ~e.unsure => Changed(e, stored) = stored
        BY <3>2 DEF CallInformed
      <4> QED
        BY <1>8, <4>1, <4>2 DEF Changed
    <3>4. created = 1 /\ e.at = "read" => \A p \in Policies \ Flying : p \in e.rows <=> p \in new
      BY <1>12, <3>2 DEF CallInformed, Agree
    <3>5. e.at \notin Over => e.always \subseteq new \ Flying /\ new \cup Flying \subseteq e.once
      BY <1>13, <3>2 DEF CallInformed
    <3> QED
      BY <1>1, <1>8, <1>11, <3>1, <3>2, <3>3, <3>4, <3>5 DEF CallInformed, Agree
  <2> QED
    BY <2>1, <2>2
<1>17. \A a, b \in AuthCalls : a # b => CallsApart(authCall[a], authCall[b])'
  <2>1. Changing(d) /\ Changing(mine) /\ ~Reading(d)
    BY <1>1, <1>5 DEF Changing, Reading
  <2>2. \A b \in AuthCalls : b # c => CallsApart(d, authCall[b]) /\ CallsApart(authCall[b], d)
    BY <1>5, <2>1 DEF AuthInv, CallsApart
  <2> QED
    BY <1>7, <2>2 DEF AuthInv, CallsApart
<1> QED
  BY <1>9, <1>10, <1>14, <1>15, <1>16, <1>17 DEF AuthInv

LEMMA ModelFollowsKeeps ==
  ASSUME AuthInv, NEW c \in AuthCalls, ModelFollows(c)
  PROVE  AuthInv'
<1> DEFINE mine == authCall[c]
           m == mine.obj
<1>1. /\ mine.at = "saved"
      /\ model' = [model EXCEPT ![m] = Changed(mine, @)]
      /\ stored' = stored /\ loaded' = loaded /\ enforcer' = enforcer /\ created' = created
  BY DEF ModelFollows
<1>2. PICK d : d = [mine EXCEPT !.at = "done"]
  OBVIOUS
<1>3. authCall' = [authCall EXCEPT ![c] = d]
  BY <1>2 DEF ModelFollows, AuthInv, AuthTypes
<1>4. /\ mine \in AuthCallType /\ CallPlaced(mine) /\ CallInformed(mine)
      /\ mine.verdict = "none" /\ mine.policies \in SUBSET Policies
  BY <1>1 DEF AuthInv, AuthTypes, CallPlaced, AuthCallType
<1>5. /\ d \in AuthCallType /\ d.at = "done" /\ d.verdict = "none"
      /\ d.policies = mine.policies /\ d.unsure = mine.unsure
  BY <1>2, <1>4 DEF AuthCallType
<1>6. authCall \in [AuthCalls -> AuthCallType] /\ authCall' \in [AuthCalls -> AuthCallType]
  BY <1>3, <1>5 DEF AuthInv, AuthTypes
<1>7. \A a \in AuthCalls : authCall'[a] = IF a = c THEN d ELSE authCall[a]
  BY <1>3, <1>6
<1>8. m \in 1..created /\ m \in Objects /\ m <= created
  <2>1. m \in 1..created /\ created \in Nat
    BY <1>1, <1>4 DEF CallPlaced, Over, AuthInv, AuthTypes
  <2> QED
    BY <2>1, ObjectsBounded
<1>9. \A n \in Objects : model'[n] = IF n = m THEN Changed(mine, model[m]) ELSE model[n]
  BY <1>1 DEF AuthInv, AuthTypes
<1>10. AuthTypes'
  <2>1. Changed(mine, model[m]) \in SUBSET Policies
    BY <1>4, <1>8 DEF AuthInv, AuthTypes, Changed
  <2> QED
    BY <1>1, <1>6, <1>8, <2>1 DEF AuthInv, AuthTypes
<1>11. ObjectsCounted'
  BY <1>1, <1>5, <1>7, FreshShrinks
<1>12. /\ mine.policies \subseteq Flying
       /\ Flying' \subseteq Flying
       /\ \A p \in Flying \ Flying' : p \in mine.policies
       /\ mine.unsure => Flying' = Flying
  <2>1. \A a \in AuthCalls : /\ a # c \/ mine.unsure => (Flies(authCall'[a]) <=> Flies(authCall[a]))
                             /\ authCall'[a].policies = authCall[a].policies
    BY <1>5, <1>7 DEF Flies
  <2>2. Flies(mine) /\ Changing(mine) /\ (Flies(d) => mine.unsure)
    BY <1>1, <1>5 DEF Flies, Changing
  <2>3. /\ mine.policies \subseteq FlyingOf(authCall)
        /\ FlyingOf(authCall') \subseteq FlyingOf(authCall)
        /\ \A p \in FlyingOf(authCall) \ FlyingOf(authCall') : p \in mine.policies
        /\ mine.unsure => FlyingOf(authCall') = FlyingOf(authCall)
    BY <1>4, <1>7, <2>1, <2>2 DEF FlyingOf
  <2> QED
    BY <1>6, <2>3, FlyingIs
<1>13. ~mine.unsure => Changed(mine, stored) = stored /\ loaded[m]
  BY <1>1, <1>4 DEF CallInformed, CallPlaced, Changing
<1>14. \A p \in Flying \ Flying' : \A some : p \in Changed(mine, some) <=> p \in stored
  BY <1>12, <1>13 DEF Changed
<1>15. created = 1 => /\ ~loaded[m] => model'[m] \subseteq Flying'
                      /\ loaded[m] => \A p \in Policies \ Flying' : p \in model'[m] <=> p \in stored
  <2>1. created = 1 => /\ ~loaded[m] => model[m] \subseteq Flying
                       /\ loaded[m] => \A p \in Policies \ Flying : p \in model[m] <=> p \in stored
    BY <1>8 DEF AuthInv, ObjectsOK, Agree
  <2>2. model'[m] = Changed(mine, model[m])
    BY <1>8, <1>9
  <2>3. \A p \in Policies \ Flying : p \in model'[m] <=> p \in model[m]
    BY <1>12, <2>2 DEF Changed
  <2>4. ~loaded[m] => Flying' = Flying
    BY <1>12, <1>13
  <2>5. model'[m] \subseteq model[m] \cup mine.policies
    BY <2>2 DEF Changed
  <2>6. \A p \in Flying \ Flying' : p \in model'[m] <=> p \in stored
    BY <1>14, <2>2
  <2>7. created = 1 /\ ~loaded[m] => model'[m] \subseteq Flying'
    BY <1>12, <2>1, <2>4, <2>5
  <2>8. created = 1 /\ loaded[m] => \A p \in Policies \ Flying' : p \in model'[m] <=> p \in stored
    BY <2>1, <2>3, <2>6
  <2> QED
    BY <2>7, <2>8
<1>16. \A n \in Objects : created = 1 /\ n # m => n > created
  BY <1>8 DEF Objects
<1>17. ObjectsOK'
  <2>1. ObjectsOK
    BY DEF AuthInv
  <2>2. \A n \in Objects : n > created => n # m /\ model'[n] = {} /\ ~loaded[n]
    <3> SUFFICES ASSUME NEW n \in Objects, n > created
                 PROVE  n # m /\ model'[n] = {} /\ ~loaded[n]
      OBVIOUS
    <3>1. n # m /\ ~(n <= created)
      BY <1>8 DEF AuthInv, AuthTypes, Objects
    <3> QED
      BY <1>9, <2>1, <3>1 DEF ObjectsOK
  <2>3. created = 1 => \A n \in Objects : ~loaded[n] => model'[n] \subseteq Flying'
    BY <1>15, <1>16, <2>2
  <2>4. created = 1 => \A n \in Objects : loaded[n] =>
          \A p \in Policies \ Flying' : p \in model'[n] <=> p \in stored
    BY <1>15, <1>16, <2>2
  <2>5. \A n \in Objects : loaded[n] => n <= created
    BY <2>1 DEF ObjectsOK
  <2> QED
    BY <1>1, <2>2, <2>3, <2>4, <2>5 DEF ObjectsOK, Agree
<1>18. \A a \in AuthCalls : CallPlaced(authCall[a])'
  <2>1. CallPlaced(d)
    BY <1>5 DEF CallPlaced, Reading, Changing, Over
  <2> QED
    BY <1>1, <1>7, <2>1 DEF AuthInv, CallPlaced
<1>19. \A a \in AuthCalls : CallInformed(authCall[a])'
  <2> SUFFICES ASSUME NEW a \in AuthCalls
               PROVE  CallInformed(authCall[a])'
    OBVIOUS
  <2>1. CASE a = c
    BY <1>5, <1>7, <2>1 DEF CallInformed, Over
  <2>2. CASE a # c
    <3>1. PICK e : e = authCall[a] /\ e = authCall'[a]
      BY <1>7, <2>2
    <3>2. e \in AuthCallType /\ CallInformed(e) /\ CallPlaced(e)
      BY <1>6, <3>1 DEF AuthInv
    <3>3. created = 1 /\ e.at = "read" => \A p \in Policies \ Flying' : p \in e.rows <=> p \in stored
      <4> SUFFICES ASSUME created = 1, e.at = "read"
                   PROVE  \A p \in Policies \ Flying' : p \in e.rows <=> p \in stored
        OBVIOUS
      <4>1. e.obj \in 1..created /\ ~loaded[e.obj]
        BY <3>2 DEF CallPlaced, Reading, Over
      <4>2. e.obj = m
        BY <1>8, <4>1
      <4>3. Flying' = Flying
        BY <1>12, <1>13, <4>1, <4>2
      <4> QED
        BY <3>2, <4>3 DEF CallInformed, Agree
    <3>4. e.at \notin Over => e.always \subseteq stored \ Flying' /\ stored \cup Flying' \subseteq e.once
      BY <1>12, <3>2 DEF CallInformed
    <3> QED
      BY <1>1, <3>1, <3>2, <3>3, <3>4 DEF CallInformed, Agree
  <2> QED
    BY <2>1, <2>2
<1>20. \A a, b \in AuthCalls : a # b => CallsApart(authCall[a], authCall[b])'
  <2>1. ~Changing(d) /\ ~Reading(d)
    BY <1>5 DEF Changing, Reading
  <2>2. \A b \in AuthCalls : CallsApart(d, authCall[b]) /\ CallsApart(authCall[b], d)
    BY <2>1 DEF CallsApart
  <2> QED
    BY <1>7, <2>2 DEF AuthInv, CallsApart
<1> QED
  BY <1>10, <1>11, <1>17, <1>18, <1>19, <1>20 DEF AuthInv

(* What is noted in a call that goes on.                                   *)
LEMMA NotedIs ==
  ASSUME NEW mine \in AuthCallType, NEW ps \in SUBSET Policies, NEW e, e = Noted(mine, ps)
  PROVE  /\ e \in AuthCallType /\ e.at = mine.at /\ e.does = mine.does /\ e.obj = mine.obj
         /\ e.policies = mine.policies /\ e.rows = mine.rows /\ e.asked = mine.asked
         /\ e.verdict = mine.verdict /\ e.early = mine.early /\ e.unsure = mine.unsure
         /\ mine.at \in Over => e.always = mine.always /\ e.once = mine.once
         /\ mine.at \notin Over => e.always = mine.always \ ps /\ e.once = mine.once \cup ps
<1>1. CASE mine.at \in Over
  BY <1>1 DEF Noted
<1>2. CASE mine.at \notin Over
  <2>1. e = [mine EXCEPT !.always = @ \ ps, !.once = @ \cup ps]
    BY <1>2 DEF Noted
  <2>2. mine.always \ ps \in SUBSET Policies /\ mine.once \cup ps \in SUBSET Policies
    BY DEF AuthCallType
  <2>3. /\ e.at = mine.at /\ e.does = mine.does /\ e.obj = mine.obj
        /\ e.policies = mine.policies /\ e.rows = mine.rows /\ e.asked = mine.asked
        /\ e.verdict = mine.verdict /\ e.early = mine.early /\ e.unsure = mine.unsure
        /\ e.always = mine.always \ ps /\ e.once = mine.once \cup ps
    BY <2>1 DEF AuthCallType
  <2>4. e \in AuthCallType
    BY <2>1, <2>2, <2>3 DEF AuthCallType
  <2> QED
    BY <1>2, <2>3, <2>4
<1> QED
  BY <1>1, <1>2

LEMMA RequestChangeKeeps ==
  ASSUME AuthInv, NEW c \in AuthCalls, RequestChange(c)
  PROVE  AuthInv'
<1> DEFINE mine == authCall[c]
           ps == mine.policies
           Meets(a) == /\ a # c /\ authCall[a].at \in {"saving", "saved"}
                       /\ authCall[a].policies \cap ps # {}
           U == ~loaded[mine.obj] \/ \E e \in AuthCalls : Meets(e)
<1>1. /\ mine.at = "enforce"
      /\ authCall' = [a \in AuthCalls |->
           IF a = c THEN [Noted(mine, ps) EXCEPT !.at = "saving", !.unsure = U]
           ELSE [Noted(authCall[a], ps) EXCEPT !.unsure = @ \/ Meets(a)]]
      /\ stored' = stored /\ enforcer' = enforcer /\ created' = created
      /\ loaded' = loaded /\ model' = model
  BY ZenonT(60) DEF RequestChange
<1>2. authCall \in [AuthCalls -> AuthCallType]
  BY DEF AuthInv, AuthTypes
<1>3. /\ mine \in AuthCallType /\ ps \in SUBSET Policies /\ mine.verdict = "none"
      /\ CallPlaced(mine) /\ CallInformed(mine)
  <2>1. mine \in AuthCallType /\ CallPlaced(mine) /\ CallInformed(mine)
    BY <1>2 DEF AuthInv
  <2>2. ps \in SUBSET Policies
    BY <2>1 DEF AuthCallType
  <2>3. mine.at # "done"
    BY <1>1, Zenon
  <2>4. mine.verdict = "none"
    BY <2>1, <2>3 DEF CallPlaced
  <2> QED
    BY <2>1, <2>2, <2>4
<1>4. U \in BOOLEAN /\ \A a \in AuthCalls : Meets(a) \in BOOLEAN
  OBVIOUS
<1>5. \A a \in AuthCalls : Meets(a) => a # c /\ Changing(authCall[a])
  BY DEF Changing
<1>6. ~U => loaded[mine.obj] /\ \A a \in AuthCalls : ~Meets(a)
  OBVIOUS
<1>7. \A a \in AuthCalls : a # c /\ ~Meets(a) /\ Changing(authCall[a]) =>
        authCall[a].policies \cap ps = {}
  BY DEF Changing
<1> HIDE DEF U, Meets, ps
<1>8. PICK d : d = authCall'[c]
  OBVIOUS
<1>9. /\ d \in AuthCallType /\ d.at = "saving" /\ d.unsure = U /\ d.obj = mine.obj
      /\ d.policies = mine.policies /\ d.verdict = "none"
      /\ d.always = mine.always \ ps /\ d.once = mine.once \cup ps
  <2>1. PICK e : e = Noted(mine, ps)
    OBVIOUS
  <2>2. /\ e \in AuthCallType /\ e.obj = mine.obj /\ e.policies = mine.policies
        /\ e.verdict = "none" /\ e.always = mine.always \ ps /\ e.once = mine.once \cup ps
    BY <1>1, <1>3, <2>1, NotedIs DEF Over
  <2>3. d = [e EXCEPT !.at = "saving", !.unsure = U]
    BY <1>1, <1>8, <2>1
  <2> QED
    BY <1>4, <2>2, <2>3 DEF AuthCallType
<1>10. ASSUME NEW a \in AuthCalls, a # c
       PROVE  LET e == authCall[a]
                  w == authCall'[a]
              IN /\ w \in AuthCallType /\ w.at = e.at /\ w.does = e.does /\ w.obj = e.obj
                 /\ w.policies = e.policies /\ w.rows = e.rows /\ w.asked = e.asked
                 /\ w.verdict = e.verdict /\ w.early = e.early
                 /\ w.unsure <=> (e.unsure \/ Meets(a))
                 /\ e.at \in Over => w.always = e.always /\ w.once = e.once
                 /\ e.at \notin Over => w.always = e.always \ ps /\ w.once = e.once \cup ps
  <2>1. PICK n : n = Noted(authCall[a], ps)
    OBVIOUS
  <2>2. PICK e : e = authCall[a]
    OBVIOUS
  <2>3. PICK w : w = authCall'[a]
    OBVIOUS
  <2>4. e \in AuthCallType
    BY <1>2, <2>2
  <2>5. /\ n \in AuthCallType /\ n.at = e.at /\ n.does = e.does /\ n.obj = e.obj
        /\ n.policies = e.policies /\ n.rows = e.rows /\ n.asked = e.asked
        /\ n.verdict = e.verdict /\ n.early = e.early /\ n.unsure = e.unsure
        /\ e.at \in Over => n.always = e.always /\ n.once = e.once
        /\ e.at \notin Over => n.always = e.always \ ps /\ n.once = e.once \cup ps
    BY <1>3, <2>1, <2>2, <2>4, NotedIs DEF ps
  <2>6. PICK u : u = (n.unsure \/ Meets(a))
    OBVIOUS
  <2>7. u \in BOOLEAN
    BY <1>4, <2>5, <2>6 DEF AuthCallType
  <2>8. w = [n EXCEPT !.unsure = u]
    BY <1>1, <1>10, <2>1, <2>3, <2>6
  <2>9. /\ w \in AuthCallType /\ w.at = n.at /\ w.does = n.does /\ w.obj = n.obj
        /\ w.policies = n.policies /\ w.rows = n.rows /\ w.asked = n.asked
        /\ w.verdict = n.verdict /\ w.early = n.early /\ w.unsure = u
        /\ w.always = n.always /\ w.once = n.once
    BY <2>5, <2>7, <2>8 DEF AuthCallType
  <2>10. w.unsure <=> (e.unsure \/ Meets(a))
    BY <2>5, <2>6, <2>9
  <2> QED
    BY <2>2, <2>3, <2>5, <2>9, <2>10
<1>11. authCall' \in [AuthCalls -> AuthCallType]
  <2>1. \A a \in AuthCalls : authCall'[a] \in AuthCallType
    BY <1>8, <1>9, <1>10
  <2>2. authCall' = [a \in AuthCalls |-> authCall'[a]]
    BY <1>1
  <2> QED
    BY <2>1, <2>2
<1>12. AuthTypes'
  BY <1>1, <1>11 DEF AuthInv, AuthTypes
<1>13. ObjectsCounted'
  BY <1>1, <1>8, <1>9, <1>10, FreshShrinks
<1>14. Flying' = Flying \cup ps
  <2>1. Flies(d) /\ d.policies = ps
    BY <1>9 DEF Flies, Changing, ps
  <2>2. \A a \in AuthCalls : a # c => /\ Flies(authCall'[a]) <=> Flies(authCall[a])
                                      /\ authCall'[a].policies = authCall[a].policies
    BY <1>5, <1>10 DEF Flies, Changing
  <2>3. FlyingOf(authCall') = FlyingOf(authCall) \cup ps
    <3>1. \A p \in ps : p \in FlyingOf(authCall')
      BY <1>3, <1>8, <2>1 DEF FlyingOf
    <3>2. \A p \in FlyingOf(authCall) : p \in FlyingOf(authCall') \cup ps
      BY <2>2 DEF FlyingOf, ps
    <3>3. \A p \in FlyingOf(authCall') : p \in FlyingOf(authCall) \cup ps
      BY <1>8, <2>1, <2>2 DEF FlyingOf
    <3>4. FlyingOf(authCall') \subseteq FlyingOf(authCall) \cup ps
      BY <3>3
    <3>5. FlyingOf(authCall) \cup ps \subseteq FlyingOf(authCall')
      BY <3>1, <3>2
    <3> QED
      BY <3>4, <3>5
  <2> QED
    BY <1>2, <1>11, <2>3, FlyingIs
<1>15. ObjectsOK'
  <2>1. ObjectsOK
    BY DEF AuthInv
  <2> QED
    BY <1>1, <1>14, <2>1 DEF ObjectsOK, Agree
<1>16. \A a \in AuthCalls : CallPlaced(authCall[a])'
  <2> SUFFICES ASSUME NEW a \in AuthCalls
               PROVE  CallPlaced(authCall[a])'
    OBVIOUS
  <2>1. CASE a = c
    BY <1>1, <1>3, <1>6, <1>8, <1>9, <2>1 DEF CallPlaced, Reading, Changing, Over
  <2>2. CASE a # c
    <3>1. CallPlaced(authCall[a])
      BY DEF AuthInv
    <3> QED
      BY <1>1, <1>5, <1>10, <2>2, <3>1 DEF CallPlaced, Reading, Changing
  <2> QED
    BY <2>1, <2>2
<1>17. \A a \in AuthCalls : CallInformed(authCall[a])'
  <2> SUFFICES ASSUME NEW a \in AuthCalls
               PROVE  CallInformed(authCall[a])'
    OBVIOUS
  <2>1. CASE a = c
    <3>1. mine.always \subseteq stored \ Flying /\ stored \cup Flying \subseteq mine.once
      BY <1>1, <1>3 DEF CallInformed, Over
    <3>2. /\ d.always \subseteq stored \ (Flying \cup ps)
          /\ stored \cup (Flying \cup ps) \subseteq d.once
      BY <1>9, <3>1
    <3> QED
      BY <1>1, <1>8, <1>9, <1>14, <2>1, <3>2 DEF CallInformed, Over
  <2>2. CASE a # c
    <3>1. PICK e : e = authCall[a]
      OBVIOUS
    <3>2. PICK w : w = authCall'[a]
      OBVIOUS
    <3>3. /\ w.at = e.at /\ w.does = e.does /\ w.obj = e.obj
          /\ w.policies = e.policies /\ w.rows = e.rows /\ w.asked = e.asked
          /\ w.verdict = e.verdict /\ w.early = e.early
          /\ ~w.unsure => ~e.unsure
          /\ e.at \in Over => w.always = e.always /\ w.once = e.once
          /\ e.at \notin Over => w.always = e.always \ ps /\ w.once = e.once \cup ps
      BY <1>10, <2>2, <3>1, <3>2
    <3>4. CallInformed(e)
      BY <3>1 DEF AuthInv
    <3>5. w.at \notin Over => w.always \subseteq stored \ (Flying \cup ps)
                              /\ stored \cup (Flying \cup ps) \subseteq w.once
      BY <3>3, <3>4 DEF CallInformed
    <3>6. created = 1 /\ w.at = "read" => \A p \in Policies \ (Flying \cup ps) : p \in w.rows <=> p \in stored
      BY <3>3, <3>4 DEF CallInformed, Agree
    <3>7. w.at = "saved" /\ ~w.unsure => Changed(w, stored) = stored
      BY <3>3, <3>4 DEF CallInformed, Changed
    <3>8. w.always \subseteq e.always /\ e.once \subseteq w.once
      BY <3>3
    <3>9. /\ created = 1 /\ w.verdict = "allow" => w.policies \cap w.once # {}
          /\ created = 1 /\ w.verdict = "deny" /\ ~w.early => w.policies \cap w.always = {}
          /\ created = 1 /\ w.at = "enforce" /\ ~w.early => w.asked \cap w.always = {}
      BY <3>3, <3>4, <3>8 DEF CallInformed
    <3> QED
      BY <1>1, <1>14, <3>2, <3>5, <3>6, <3>7, <3>9 DEF CallInformed, Agree
  <2> QED
    BY <2>1, <2>2
<1>18. \A a, b \in AuthCalls : a # b => CallsApart(authCall[a], authCall[b])'
  <2> SUFFICES ASSUME NEW a \in AuthCalls, NEW b \in AuthCalls, a # b
               PROVE  CallsApart(authCall[a], authCall[b])'
    OBVIOUS
  <2>1. CASE a = c
    <3>1. d.policies = ps /\ ~Reading(d)
      BY <1>9 DEF Reading, ps
    <3>2. Changing(authCall'[b]) /\ ~d.unsure => d.policies \cap authCall'[b].policies = {}
      BY <1>6, <1>7, <1>9, <1>10, <2>1, <3>1 DEF Changing
    <3> QED
      BY <1>8, <2>1, <3>1, <3>2 DEF CallsApart
  <2>2. CASE b = c
    <3>1. d.policies = ps /\ ~Reading(d)
      BY <1>9 DEF Reading, ps
    <3>2. Changing(authCall'[a]) /\ ~authCall'[a].unsure => authCall'[a].policies \cap d.policies = {}
      BY <1>7, <1>9, <1>10, <2>2, <3>1 DEF Changing
    <3> QED
      BY <1>8, <2>2, <3>1, <3>2 DEF CallsApart
  <2>3. CASE a # c /\ b # c
    <3>1. CallsApart(authCall[a], authCall[b])
      BY DEF AuthInv
    <3> QED
      BY <1>10, <2>3, <3>1 DEF CallsApart, Reading, Changing
  <2> QED
    BY <2>1, <2>2, <2>3
<1> QED
  BY <1>12, <1>13, <1>15, <1>16, <1>17, <1>18 DEF AuthInv

(* However the first calls overlap, whatever changes of the policy meet    *)
(* each other, decisions and loads, and wherever the adapter fails: as     *)
(* long as the calls made one enforcer, every decision is one that the     *)
(* stored policy gave, up to the changes that were under way.              *)
THEOREM AccessIsAlwaysSound == AuthSpec => []AccessSound
<1>1. AuthInit => AuthInv
  <2> SUFFICES ASSUME AuthInit
               PROVE  AuthInv
    OBVIOUS
  <2>1. AuthTypes
    BY AuthAssumption, FreshCount DEF AuthInit, AuthTypes, AuthCallType
  <2>2. ObjectsCounted
    <3>1. Fresh = AuthCalls
      BY DEF AuthInit, Fresh
    <3> QED
      BY <3>1, FreshCount DEF AuthInit, ObjectsCounted
  <2>3. ObjectsOK
    BY DEF AuthInit, ObjectsOK
  <2>4. \A c \in AuthCalls : CallPlaced(authCall[c]) /\ CallInformed(authCall[c])
    BY DEF AuthInit, CallPlaced, CallInformed, Over, Reading, Changing
  <2>5. \A c, d \in AuthCalls : CallsApart(authCall[c], authCall[d])
    BY DEF AuthInit, CallsApart, Reading, Changing
  <2> QED
    BY <2>1, <2>2, <2>3, <2>4, <2>5 DEF AuthInv
<1>2. AuthInv /\ [AuthNext]_authVars => AuthInv'
  <2> SUFFICES ASSUME AuthInv, [AuthNext]_authVars
               PROVE  AuthInv'
    OBVIOUS
  <2>1. CASE UNCHANGED authVars
    BY <2>1 DEF authVars, AuthInv, AuthTypes, ObjectsCounted, Fresh, ObjectsOK, Agree, Flying,
                CallPlaced, CallInformed, CallsApart
  <2>2. CASE AuthNext
    <3>1. PICK c \in AuthCalls :
            \/ \E k \in Tokens, r \in Rights : Authorize(c, k, r)
            \/ \E p \in Policies : AddPolicy(c, p) \/ RemovePolicy(c, p)
            \/ CallStep(c)
      BY <2>2 DEF AuthNext
    <3>2. ASSUME NEW k \in Tokens, NEW r \in Rights, Authorize(c, k, r)
          PROVE  AuthInv'
      <4>1. RolesOf(k) \X {r} \in SUBSET Policies
        <5>1. k.realm \cup k.client \in {t.realm \cup t.client : t \in Tokens}
          OBVIOUS
        <5>2. \A x \in k.realm \cup k.client : x \in UNION {t.realm \cup t.client : t \in Tokens}
          BY <5>1
        <5>3. RolesOf(k) \subseteq Roles
          BY <5>2 DEF RolesOf, Roles
        <5> QED
          BY <5>3 DEF Policies
      <4> QED
        BY <3>2, <4>1, EnterKeeps DEF Authorize
    <3>3. ASSUME NEW p \in Policies, AddPolicy(c, p) \/ RemovePolicy(c, p)
          PROVE  AuthInv'
      <4>1. {p} \in SUBSET Policies
        OBVIOUS
      <4> QED
        BY <3>3, <4>1, EnterKeeps DEF AddPolicy, RemovePolicy
    <3>4. ASSUME CallStep(c)
          PROVE  AuthInv'
      BY <3>4, MakeEnforcerKeeps, ReadPolicyKeeps, PolicyLoadedKeeps, InitRaisesKeeps,
         AskRoleKeeps, NoRoleLeftKeeps, ChangeIsNoneKeeps, RequestChangeKeeps, PolicySavedKeeps,
         ModelFollowsKeeps, SaveRaisesKeeps DEF CallStep
    <3> QED
      BY <3>1, <3>2, <3>3, <3>4
  <2> QED
    BY <2>1, <2>2
<1> QED
  BY <1>1, <1>2, AuthInvSound, PTL DEF AuthSpec

-----------------------------------------------------------------------------
(* Ingester.  The events E are spread over the batch W, the inserts F of   *)
(* the tasks, the table I and those that were lost, L; flushing, inserting *)
(* and losing only move them from one to another.                          *)
Apart(E, W, F, I, L) ==
  /\ \A e : e \in E <=> e \in W \/ e \in I \/ e \in L \/ \E k \in Tasks : e \in F[k]
  /\ \A e \in W : e \notin I /\ e \notin L /\ \A k \in Tasks : e \notin F[k]
  /\ \A e \in I : e \notin L
  /\ \A k \in Tasks : \A e \in F[k] :
       e \notin I /\ e \notin L /\ \A j \in Tasks : j # k => e \notin F[j]

LEMMA NewWait ==
  ASSUME NEW E, NEW W, NEW F, NEW I, NEW L, Apart(E, W, F, I, L), NEW X, X \cap E = {}
  PROVE  Apart(E \cup X, W \cup X, F, I, L)
BY DEF Apart

LEMMA FlushMoves ==
  ASSUME NEW E, NEW W, NEW F, NEW I, NEW L, Apart(E, W, F, I, L),
         NEW k \in Tasks, F[k] = {}, NEW V, NEW G,
         V \cup G[k] = W, V \cap G[k] = {}, \A j \in Tasks \ {k} : G[j] = F[j]
  PROVE  Apart(E, V, G, I, L)
<1>1. \A e : (\E j \in Tasks : e \in G[j]) <=> e \in G[k] \/ \E j \in Tasks : e \in F[j]
  OBVIOUS
<1>2. \A e : e \in E <=> e \in V \/ e \in I \/ e \in L \/ \E j \in Tasks : e \in G[j]
  BY <1>1 DEF Apart
<1>3. \A e \in V : e \notin I /\ e \notin L /\ \A j \in Tasks : e \notin G[j]
  BY DEF Apart
<1>4. ASSUME NEW j \in Tasks, NEW e \in G[j]
      PROVE  e \notin I /\ e \notin L /\ \A i \in Tasks : i # j => e \notin G[i]
  <2>1. CASE j = k
    BY <1>4, <2>1 DEF Apart
  <2>2. CASE j # k
    BY <1>4, <2>2 DEF Apart
  <2> QED
    BY <2>1, <2>2
<1> QED
  BY <1>2, <1>3, <1>4 DEF Apart

LEMMA InsertMoves ==
  ASSUME NEW E, NEW W, NEW F, NEW I, NEW L, Apart(E, W, F, I, L),
         NEW k \in Tasks, NEW G, G[k] = {}, \A j \in Tasks \ {k} : G[j] = F[j],
         NEW J, NEW M, (J = I \cup F[k] /\ M = L) \/ (J = I /\ M = L \cup F[k])
  PROVE  Apart(E, W, G, J, M)
<1>1. \A e : (\E j \in Tasks : e \in F[j]) <=> e \in F[k] \/ \E j \in Tasks : e \in G[j]
  OBVIOUS
<1>2. \A e : e \in E <=> e \in W \/ e \in J \/ e \in M \/ \E j \in Tasks : e \in G[j]
  BY <1>1 DEF Apart
<1>3. \A e \in W : e \notin J /\ e \notin M /\ \A j \in Tasks : e \notin G[j]
  BY DEF Apart
<1>4. \A e \in J : e \notin M
  BY DEF Apart
<1>5. ASSUME NEW j \in Tasks, NEW e \in G[j]
      PROVE  e \notin J /\ e \notin M /\ \A i \in Tasks : i # j => e \notin G[i]
  <2>1. j # k /\ e \in F[j]
    BY <1>5
  <2> QED
    BY <2>1 DEF Apart
<1> QED
  BY <1>2, <1>3, <1>4, <1>5 DEF Apart

LEMMA SameInterval ==
  ASSUME NEW m \in Nat, NEW n \in Nat, 1..m = 1..n
  PROVE  m = n
<1>1. CASE m < n
  BY <1>1
<1>2. CASE n < m
  BY <1>2
<1> QED
  BY <1>1, <1>2

-----------------------------------------------------------------------------
Flights == [k \in Tasks |-> InFlight(k)]
Of(c, s) == {e \in 1..Len(s) : s[e] = c}

IngestTypes ==
  /\ TypeOK
  /\ stats.ingested = Len(taken)
  /\ Distinct(batch)
  /\ \A k \in Tasks : Distinct(flight[k])

Placed == Apart(Events, Waiting, Flights, inserted, lost)

ErrorsCounted == Cardinality(lost) <= stats.errors

(* q windows have been filled and cleared; each took a content once at     *)
(* most, and so did the one that is being filled.                          *)
WindowsPassed(q) ==
  /\ q * (Window + 1) + Cardinality(seen) <= Len(taken)
  /\ \A c \in Contents \ HecContents :
       Cardinality(Of(c, taken)) <= q + (IF c \in seen THEN 1 ELSE 0)

SeenWithin == IsFiniteSet(seen) /\ Cardinality(seen) <= Window

IngestInv ==
  IngestTypes /\ Placed /\ ErrorsCounted /\ SeenWithin /\ \E q \in Nat : WindowsPassed(q)

(* A flush moves what it found to the task, or leaves it in the batch.     *)
LEMMA FlushTakes ==
  ASSUME IngestTypes, NEW k \in Tasks, pc[k] = "idle",
         NEW b \in Seq(Nat), Distinct(b), FlushIfFull(k, b) \/ TakeBatch(k, b)
  PROVE  /\ batch' \in Seq(Nat) /\ Distinct(batch')
         /\ pc' \in [Tasks -> {"idle", "insert", "publish"}]
         /\ flight' \in [Tasks -> Seq(Nat)] /\ \A j \in Tasks : Distinct(flight'[j])
         /\ Waiting' \cup Flights'[k] = ToSet(b) /\ Waiting' \cap Flights'[k] = {}
         /\ Flights[k] = {} /\ \A j \in Tasks \ {k} : Flights'[j] = Flights[j]
<1>1. CASE batch' = b /\ UNCHANGED <<pc, flight>>
  BY <1>1 DEF IngestTypes, TypeOK, Flights, InFlight, Waiting
<1>2. CASE /\ batch' = <<>>
           /\ flight' = [flight EXCEPT ![k] = b]
           /\ pc' = [pc EXCEPT ![k] = "insert"]
  <2>1. batch' \in Seq(Nat) /\ Distinct(batch') /\ Waiting' = {}
    <3>1. <<>> \in Seq(Nat) /\ Len(<<>>) = 0
      OBVIOUS
    <3> QED
      BY <1>2, <3>1, EmptyHasNone DEF Distinct, Waiting
  <2>2. /\ pc' \in [Tasks -> {"idle", "insert", "publish"}]
        /\ flight' \in [Tasks -> Seq(Nat)] /\ \A j \in Tasks : Distinct(flight'[j])
    BY <1>2 DEF IngestTypes, TypeOK
  <2>3. /\ Flights'[k] = ToSet(b) /\ Flights[k] = {}
        /\ \A j \in Tasks \ {k} : Flights'[j] = Flights[j]
    BY <1>2 DEF IngestTypes, TypeOK, Flights, InFlight
  <2> QED
    BY <2>1, <2>2, <2>3
<1> QED
  BY <1>1, <1>2 DEF FlushIfFull, TakeBatch

(* What the counters hold when n is added to one of them.                  *)
Stats == [ingested : Nat, dropped : Nat, errors : Nat]

LEMMA StatsCount ==
  ASSUME NEW s \in Stats, NEW n \in Nat
  PROVE  /\ [s EXCEPT !.ingested = @ + n] \in Stats
         /\ [s EXCEPT !.ingested = @ + n].ingested = s.ingested + n
         /\ [s EXCEPT !.ingested = @ + n].errors = s.errors
         /\ [s EXCEPT !.dropped = @ + n] \in Stats
         /\ [s EXCEPT !.dropped = @ + n].ingested = s.ingested
         /\ [s EXCEPT !.dropped = @ + n].errors = s.errors
         /\ [s EXCEPT !.errors = @ + n] \in Stats
         /\ [s EXCEPT !.errors = @ + n].ingested = s.ingested
         /\ [s EXCEPT !.errors = @ + n].errors = s.errors + n
<1>1. PICK i \in Nat, d \in Nat, e \in Nat : s = [ingested |-> i, dropped |-> d, errors |-> e]
  BY DEF Stats
<1>2. i + n \in Nat /\ d + n \in Nat /\ e + n \in Nat
  OBVIOUS
<1> QED
  BY <1>1, <1>2 DEF Stats

(* One more event of content c.                                            *)
LEMMA OneMoreOf ==
  ASSUME NEW s \in Seq(Contents), NEW c \in Contents
  PROVE  LET t == Append(s, c)
         IN  /\ t \in Seq(Contents) /\ Len(t) = Len(s) + 1
             /\ 1..Len(t) = 1..Len(s) \cup {Len(s) + 1}
             /\ Cardinality(Of(c, t)) = Cardinality(Of(c, s)) + 1
             /\ \A d \in Contents \ {c} : Of(d, t) = Of(d, s)
             /\ \A d \in Contents : Cardinality(Of(d, s)) \in Nat
<1>1. PICK l, t : l = Len(s) /\ t = Append(s, c) /\ l \in Nat
  BY LenProperties
<1>2. /\ t \in Seq(Contents) /\ Len(t) = l + 1 /\ t[l + 1] = c
      /\ \A i \in 1..l : t[i] = s[i]
  BY <1>1, AppendProperties
<1>3. 1..(l + 1) = 1..l \cup {l + 1} /\ l + 1 \notin 1..l
  BY <1>1
<1>4. Of(c, t) = Of(c, s) \cup {l + 1} /\ l + 1 \notin Of(c, s)
  BY <1>1, <1>2, <1>3 DEF Of
<1>5. \A d \in Contents \ {c} : Of(d, t) = Of(d, s)
  BY <1>1, <1>2, <1>3 DEF Of
<1>6. \A d \in Contents : IsFiniteSet(Of(d, s)) /\ Cardinality(Of(d, s)) \in Nat
  <2>1. IsFiniteSet(1..l)
    BY <1>1, FS_Interval
  <2>2. \A d \in Contents : Of(d, s) \in SUBSET (1..l)
    BY <1>1 DEF Of
  <2> QED
    BY <2>1, <2>2, FS_Subset, FS_CardinalityType
<1>7. Cardinality(Of(c, t)) = Cardinality(Of(c, s)) + 1
  BY <1>4, <1>6, FS_AddElement
<1> QED
  BY <1>1, <1>2, <1>3, <1>5, <1>6, <1>7

LEMMA LostIsFinite ==
  ASSUME IngestTypes, Placed
  PROVE  lost \subseteq Events /\ IsFiniteSet(lost) /\ Cardinality(lost) \in Nat
<1>1. PICK l \in Nat : l = Len(taken)
  BY LenProperties DEF IngestTypes, TypeOK
<1>2. IsFiniteSet(Events)
  BY <1>1, FS_Interval DEF Events
<1>3. lost \subseteq Events
  BY DEF Placed, Apart
<1> QED
  BY <1>2, <1>3, FS_Subset, FS_CardinalityType

LEMMA IngestNewKeeps ==
  ASSUME IngestInv, NEW k \in RawCallers, NEW c \in Contents, IngestNew(k, c)
  PROVE  IngestInv'
<1>1. /\ k \in Tasks /\ pc[k] = "idle" /\ requests' \in 0..MaxEvents
      /\ c \notin seen /\ seen' = Remember(c)
      /\ stats' = [stats EXCEPT !.ingested = @ + 1]
      /\ taken' = Append(taken, c)
      /\ FlushIfFull(k, Append(batch, Len(taken) + 1))
      /\ UNCHANGED <<inserted, lost>>
  BY IngesterAssumption DEF IngestNew, Serve, Tasks, IngestInv, IngestTypes, TypeOK
<1>2. PICK l \in Nat : l = Len(taken) /\ taken \in Seq(Contents)
  BY LenProperties DEF IngestInv, IngestTypes, TypeOK
<1>3. /\ taken' \in Seq(Contents) /\ Len(taken') = l + 1
      /\ Events' = Events \cup {l + 1} /\ l + 1 \notin Events
  BY <1>1, <1>2, OneMoreOf DEF Events
<1>4. PICK b : b = Append(batch, l + 1)
  OBVIOUS
<1>5. l + 1 \notin Waiting
  BY <1>3 DEF IngestInv, Placed, Apart
<1>6. b \in Seq(Nat) /\ Distinct(b) /\ ToSet(b) = Waiting \cup {l + 1}
  <2>1. batch \in Seq(Nat) /\ Distinct(batch) /\ l + 1 \in Nat /\ l + 1 \notin ToSet(batch)
    BY <1>5 DEF IngestInv, IngestTypes, TypeOK, Waiting
  <2> QED
    BY <1>4, <2>1, AppendedOfDistinct DEF Waiting
<1>7. /\ batch' \in Seq(Nat) /\ Distinct(batch')
      /\ pc' \in [Tasks -> {"idle", "insert", "publish"}]
      /\ flight' \in [Tasks -> Seq(Nat)] /\ \A j \in Tasks : Distinct(flight'[j])
      /\ Waiting' \cup Flights'[k] = ToSet(b) /\ Waiting' \cap Flights'[k] = {}
      /\ Flights[k] = {} /\ \A j \in Tasks \ {k} : Flights'[j] = Flights[j]
  <2>1. FlushIfFull(k, b)
    BY <1>1, <1>2, <1>4
  <2> QED
    BY <1>1, <1>6, <2>1, FlushTakes DEF IngestInv
<1>8. Placed'
  <2>1. Apart(Events, Waiting, Flights, inserted, lost)
    BY DEF IngestInv, Placed
  <2>2. Apart(Events \cup {l + 1}, Waiting \cup {l + 1}, Flights, inserted, lost)
    BY <1>3, <2>1, NewWait
  <2>3. Apart(Events', ToSet(b), Flights, inserted, lost)
    BY <1>3, <1>6, <2>2
  <2>4. Apart(Events', Waiting', Flights', inserted, lost)
    BY <1>1, <1>7, <2>3, FlushMoves
  <2> QED
    BY <1>1, <2>4 DEF Placed
<1>9. IngestTypes'
  <2>1. stats' \in Stats /\ stats'.ingested = l + 1
    <3>1. stats \in Stats /\ stats.ingested = l
      BY <1>2 DEF IngestInv, IngestTypes, TypeOK, Stats
    <3>2. /\ [stats EXCEPT !.ingested = @ + 1] \in Stats
          /\ [stats EXCEPT !.ingested = @ + 1].ingested = stats.ingested + 1
      BY <3>1, StatsCount
    <3> QED
      BY <1>1, <3>1, <3>2
  <2>2. seen' \in SUBSET Contents
    BY <1>1 DEF Remember, IngestInv, IngestTypes, TypeOK
  <2>3. inserted' \in SUBSET Nat /\ lost' \in SUBSET Nat
    BY <1>1 DEF IngestInv, IngestTypes, TypeOK
  <2> QED
    BY <1>1, <1>3, <1>7, <2>1, <2>2, <2>3 DEF IngestTypes, TypeOK, Stats
<1>10. ErrorsCounted'
  BY <1>1 DEF IngestInv, IngestTypes, TypeOK, ErrorsCounted
<1>11. PICK n \in Nat, w \in Nat : n = Cardinality(seen) /\ w = Window /\ n <= w
  BY FS_CardinalityType, IngesterAssumption DEF IngestInv, SeenWithin
<1>12. PICK q \in Nat : WindowsPassed(q)
  BY DEF IngestInv
<1>13. PICK a \in Nat : a = q * (w + 1)
  OBVIOUS
<1>14. a + n <= l
  BY <1>2, <1>11, <1>12, <1>13 DEF WindowsPassed
<1>15. /\ Cardinality(Of(c, taken')) = Cardinality(Of(c, taken)) + 1
       /\ \A d \in Contents \ {c} : Of(d, taken') = Of(d, taken)
       /\ \A d \in Contents : Cardinality(Of(d, taken)) \in Nat
  BY <1>1, <1>2, OneMoreOf
<1>16. \A d \in Contents \ HecContents :
         Cardinality(Of(d, taken')) <= q + (IF d \in seen \/ d = c THEN 1 ELSE 0)
  <2> SUFFICES ASSUME NEW d \in Contents \ HecContents
               PROVE  Cardinality(Of(d, taken')) <= q + (IF d \in seen \/ d = c THEN 1 ELSE 0)
    OBVIOUS
  <2>1. Cardinality(Of(d, taken)) <= q + (IF d \in seen THEN 1 ELSE 0)
    BY <1>12 DEF WindowsPassed
  <2>2. CASE d = c
    <3>1. Cardinality(Of(c, taken)) <= q
      BY <1>1, <2>1, <2>2
    <3> QED
      BY <1>15, <2>2, <3>1
  <2>3. CASE d # c
    BY <1>15, <2>1, <2>3
  <2> QED
    BY <2>2, <2>3
<1>17. SeenWithin' /\ \E r \in Nat : WindowsPassed(r)'
  <2>1. CASE n + 1 > w
    <3>1. seen' = {} /\ IsFiniteSet({}) /\ Cardinality({}) = 0
      BY <1>1, <1>11, <2>1, FS_EmptySet DEF Remember
    <3>2. (q + 1) * (w + 1) = a + (w + 1)
      BY <1>13
    <3>3. (q + 1) * (w + 1) + 0 <= l + 1
      BY <1>11, <1>14, <2>1, <3>2
    <3>4. \A d \in Contents \ HecContents : Cardinality(Of(d, taken')) <= (q + 1) + 0
      <4> SUFFICES ASSUME NEW d \in Contents \ HecContents
                   PROVE  Cardinality(Of(d, taken')) <= q + 1
        OBVIOUS
      <4>1. Cardinality(Of(d, taken')) \in Nat
        BY <1>15
      <4> QED
        BY <1>16, <4>1
    <3>5. WindowsPassed(q + 1)'
      BY <1>3, <1>11, <3>1, <3>3, <3>4 DEF WindowsPassed
    <3>6. q + 1 \in Nat
      OBVIOUS
    <3> QED
      BY <1>11, <3>1, <3>5, <3>6 DEF SeenWithin
  <2>2. CASE ~(n + 1 > w)
    <3>1. seen' = seen \cup {c} /\ IsFiniteSet(seen') /\ Cardinality(seen') = n + 1
      <4>1. seen' = seen \cup {c}
        BY <1>1, <1>11, <2>2 DEF Remember
      <4> QED
        BY <1>1, <1>11, <4>1, FS_AddElement DEF IngestInv, SeenWithin
    <3>2. a + (n + 1) <= l + 1
      BY <1>14
    <3>3. \A d \in Contents \ HecContents :
            Cardinality(Of(d, taken')) <= q + (IF d \in seen' THEN 1 ELSE 0)
      BY <1>16, <3>1
    <3>4. WindowsPassed(q)'
      BY <1>3, <1>11, <1>13, <3>1, <3>2, <3>3 DEF WindowsPassed
    <3> QED
      BY <1>11, <2>2, <3>1, <3>4 DEF SeenWithin
  <2> QED
    BY <2>1, <2>2
<1> QED
  BY <1>8, <1>9, <1>10, <1>17 DEF IngestInv

(* A step that leaves the events where they are.                           *)
LEMMA EventsStay ==
  ASSUME IngestInv, UNCHANGED <<seen, inserted, lost, taken>>, requests' \in 0..MaxEvents,
         stats' \in Stats, stats'.ingested = stats.ingested, stats'.errors >= stats.errors,
         batch' \in Seq(Nat), Distinct(batch'),
         pc' \in [Tasks -> {"idle", "insert", "publish"}],
         flight' \in [Tasks -> Seq(Nat)], \A j \in Tasks : Distinct(flight'[j]),
         Apart(Events, Waiting', Flights', inserted, lost)
  PROVE  IngestInv'
<1>1. IngestTypes'
  BY DEF IngestInv, IngestTypes, TypeOK, Stats
<1>2. Placed'
  BY DEF Placed, Events
<1>3. ErrorsCounted'
  <2>1. PICK m \in Nat, n \in Nat : m = stats.errors /\ n = stats'.errors
    BY DEF IngestInv, IngestTypes, TypeOK, Stats
  <2>2. IsFiniteSet(lost) /\ Cardinality(lost) \in Nat
    BY LostIsFinite DEF IngestInv
  <2> QED
    BY <2>1, <2>2 DEF IngestInv, ErrorsCounted
<1>4. SeenWithin' /\ \E q \in Nat : WindowsPassed(q)'
  BY DEF IngestInv, SeenWithin, WindowsPassed
<1> QED
  BY <1>1, <1>2, <1>3, <1>4 DEF IngestInv

LEMMA IngestDuplicateKeeps ==
  ASSUME IngestInv, NEW k \in RawCallers, NEW c \in Contents, IngestDuplicate(k, c)
  PROVE  IngestInv'
<1>1. /\ k \in Tasks /\ pc[k] = "idle" /\ requests' \in 0..MaxEvents
      /\ stats' = [stats EXCEPT !.dropped = @ + 1]
      /\ FlushIfFull(k, batch)
      /\ UNCHANGED <<seen, inserted, lost, taken>>
  BY IngesterAssumption DEF IngestDuplicate, Serve, Tasks, IngestInv, IngestTypes, TypeOK
<1>2. stats' \in Stats /\ stats'.ingested = stats.ingested /\ stats'.errors >= stats.errors
  <2>1. stats \in Stats /\ stats.errors \in Nat
    BY DEF IngestInv, IngestTypes, TypeOK, Stats
  <2>2. stats' \in Stats /\ stats'.ingested = stats.ingested /\ stats'.errors = stats.errors
    BY <1>1, <2>1, StatsCount
  <2> QED
    BY <2>1, <2>2
<1>3. /\ batch' \in Seq(Nat) /\ Distinct(batch')
      /\ pc' \in [Tasks -> {"idle", "insert", "publish"}]
      /\ flight' \in [Tasks -> Seq(Nat)] /\ \A j \in Tasks : Distinct(flight'[j])
      /\ Waiting' \cup Flights'[k] = ToSet(batch) /\ Waiting' \cap Flights'[k] = {}
      /\ Flights[k] = {} /\ \A j \in Tasks \ {k} : Flights'[j] = Flights[j]
  <2>1. batch \in Seq(Nat) /\ Distinct(batch)
    BY DEF IngestInv, IngestTypes, TypeOK
  <2> QED
    BY <1>1, <2>1, FlushTakes DEF IngestInv
<1>4. Apart(Events, Waiting', Flights', inserted, lost)
  <2>1. Apart(Events, ToSet(batch), Flights, inserted, lost)
    BY DEF IngestInv, Placed, Waiting
  <2> QED
    BY <1>1, <1>3, <2>1, FlushMoves
<1> QED
  BY <1>1, <1>2, <1>3, <1>4, EventsStay

LEMMA FlushTickKeeps ==
  ASSUME IngestInv, FlushTick
  PROVE  IngestInv'
<1>1. /\ Loop \in Tasks /\ pc[Loop] = "idle" /\ TakeBatch(Loop, batch)
      /\ UNCHANGED <<seen, stats, inserted, lost, taken, requests>>
  BY DEF FlushTick, Tasks
<1>2. /\ stats' \in Stats /\ stats'.ingested = stats.ingested /\ stats'.errors >= stats.errors
      /\ requests' \in 0..MaxEvents
  <2>1. stats \in Stats /\ stats.errors \in Nat /\ requests \in 0..MaxEvents
    BY DEF IngestInv, IngestTypes, TypeOK, Stats
  <2> QED
    BY <1>1, <2>1
<1>3. /\ batch' \in Seq(Nat) /\ Distinct(batch')
      /\ pc' \in [Tasks -> {"idle", "insert", "publish"}]
      /\ flight' \in [Tasks -> Seq(Nat)] /\ \A j \in Tasks : Distinct(flight'[j])
      /\ Waiting' \cup Flights'[Loop] = ToSet(batch) /\ Waiting' \cap Flights'[Loop] = {}
      /\ Flights[Loop] = {} /\ \A j \in Tasks \ {Loop} : Flights'[j] = Flights[j]
  <2>1. batch \in Seq(Nat) /\ Distinct(batch)
    BY DEF IngestInv, IngestTypes, TypeOK
  <2> QED
    BY <1>1, <2>1, FlushTakes DEF IngestInv
<1>4. Apart(Events, Waiting', Flights', inserted, lost)
  <2>1. Apart(Events, ToSet(batch), Flights, inserted, lost)
    BY DEF IngestInv, Placed, Waiting
  <2> QED
    BY <1>1, <1>3, <2>1, FlushMoves
<1> QED
  BY <1>1, <1>2, <1>3, <1>4, EventsStay

LEMMA IngestUnparsableKeeps ==
  ASSUME IngestInv, NEW k \in RawCallers, IngestUnparsable(k)
  PROVE  IngestInv'
<1>1. /\ requests' \in 0..MaxEvents /\ stats' = [stats EXCEPT !.errors = @ + 1]
      /\ UNCHANGED <<batch, seen, pc, flight, inserted, lost, taken>>
  BY IngesterAssumption DEF IngestUnparsable, Serve, IngestInv, IngestTypes, TypeOK
<1>2. stats' \in Stats /\ stats'.ingested = stats.ingested /\ stats'.errors >= stats.errors
  <2>1. stats \in Stats /\ stats.errors \in Nat
    BY DEF IngestInv, IngestTypes, TypeOK, Stats
  <2>2. stats' \in Stats /\ stats'.ingested = stats.ingested /\ stats'.errors = stats.errors + 1
    BY <1>1, <2>1, StatsCount
  <2> QED
    BY <2>1, <2>2
<1>3. Apart(Events, Waiting', Flights', inserted, lost)
  BY <1>1 DEF IngestInv, Placed, Waiting, Flights, InFlight
<1>4. /\ batch' \in Seq(Nat) /\ Distinct(batch')
      /\ pc' \in [Tasks -> {"idle", "insert", "publish"}]
      /\ flight' \in [Tasks -> Seq(Nat)] /\ \A j \in Tasks : Distinct(flight'[j])
  BY <1>1 DEF IngestInv, IngestTypes, TypeOK
<1> QED
  BY <1>1, <1>2, <1>3, <1>4, EventsStay

LEMMA IngestPublishKeeps ==
  ASSUME IngestInv, NEW k \in Tasks, NEW ok \in BOOLEAN, PublishEnds(k, ok)
  PROVE  IngestInv'
<1>1. /\ pc[k] = "publish" /\ stats' = IF ok THEN stats ELSE CountErrors(k)
      /\ pc' = [pc EXCEPT ![k] = "idle"]
      /\ flight' = [flight EXCEPT ![k] = <<>>]
      /\ UNCHANGED <<batch, seen, inserted, lost, taken, requests>>
  BY DEF PublishEnds
<1>2. PICK n \in Nat : n = Len(flight[k])
  BY LenProperties DEF IngestInv, IngestTypes, TypeOK
<1>3. stats' \in Stats /\ stats'.ingested = stats.ingested /\ stats'.errors >= stats.errors
  <2>1. stats \in Stats /\ stats.errors \in Nat
    BY DEF IngestInv, IngestTypes, TypeOK, Stats
  <2>2. CASE ok
    BY <1>1, <2>1, <2>2
  <2>3. CASE ~ok
    <3>1. stats' = [stats EXCEPT !.errors = @ + n]
      BY <1>1, <1>2, <2>3 DEF CountErrors
    <3>2. stats' \in Stats /\ stats'.ingested = stats.ingested
          /\ stats'.errors = stats.errors + n
      BY <2>1, <3>1, StatsCount
    <3> QED
      BY <2>1, <3>2
  <2> QED
    BY <2>2, <2>3
<1>4. Flights' = Flights /\ Waiting' = Waiting
  BY <1>1 DEF Flights, InFlight, Waiting, IngestInv, IngestTypes, TypeOK
<1>5. Apart(Events, Waiting', Flights', inserted, lost)
  BY <1>4 DEF IngestInv, Placed
<1>6. /\ batch' \in Seq(Nat) /\ Distinct(batch') /\ requests' \in 0..MaxEvents
      /\ pc' \in [Tasks -> {"idle", "insert", "publish"}]
      /\ flight' \in [Tasks -> Seq(Nat)] /\ \A j \in Tasks : Distinct(flight'[j])
  <2>1. <<>> \in Seq(Nat) /\ Distinct(<<>>)
    BY DEF Distinct
  <2> QED
    BY <1>1, <2>1 DEF IngestInv, IngestTypes, TypeOK
<1> QED
  BY <1>1, <1>3, <1>5, <1>6, EventsStay

(* The parsable lines of a request: their events come after those of       *)
(* before, and are of no content that only ingest_raw takes.               *)
LEMMA IngestHecKeeps ==
  ASSUME IngestInv, NEW k \in HecCallers, NEW lines \in BoundedSeq(HecContents, HecLines),
         IngestHec(k, lines)
  PROVE  IngestInv'
<1>1. /\ requests' \in 0..MaxEvents
      /\ batch' = batch \o Numbered(Len(lines))
      /\ taken' = taken \o lines
      /\ stats' = [stats EXCEPT !.ingested = @ + Len(lines)]
      /\ UNCHANGED <<seen, pc, flight, inserted, lost>>
  BY IngesterAssumption DEF IngestHec, Serve, IngestInv, IngestTypes, TypeOK
<1>2. PICK m \in Nat : lines \in [1..m -> HecContents]
  BY IngesterAssumption DEF BoundedSeq, SeqOf
<1>3. lines \in Seq(HecContents) /\ Len(lines) = m
  <2>1. lines = [i \in 1..m |-> lines[i]] /\ \A i \in 1..m : lines[i] \in HecContents
    BY <1>2
  <2>2. [i \in 1..m |-> lines[i]] \in Seq(HecContents)
    BY <2>1, IsASeq
  <2>3. DOMAIN lines = 1..m
    BY <1>2
  <2>4. lines \in Seq(HecContents)
    BY <2>1, <2>2
  <2>5. PICK n \in Nat : Len(lines) = n /\ DOMAIN lines = 1..n
    BY <2>4, LenProperties
  <2>6. m = n
    BY <2>3, <2>5, SameInterval
  <2> QED
    BY <2>4, <2>5, <2>6
<1>4. PICK l \in Nat : l = Len(taken) /\ taken \in Seq(Contents)
  BY LenProperties DEF IngestInv, IngestTypes, TypeOK
<1>5. PICK u : u = Numbered(m)
  OBVIOUS
<1>6. /\ u \in Seq(Nat) /\ Len(u) = m /\ \A i \in 1..m : u[i] = l + i
  <2>1. u = [i \in 1..m |-> l + i] /\ \A i \in 1..m : l + i \in Nat
    BY <1>4, <1>5 DEF Numbered
  <2>2. u \in Seq(Nat)
    BY <2>1, IsASeq
  <2>3. PICK n \in Nat : Len(u) = n /\ DOMAIN u = 1..n
    BY <2>2, LenProperties
  <2>4. m = n
    BY <2>1, <2>3, SameInterval
  <2> QED
    BY <2>1, <2>2, <2>3, <2>4
<1>7. Distinct(u) /\ ToSet(u) = {l + i : i \in 1..m}
  <2>1. Distinct(u)
    BY <1>6 DEF Distinct
  <2>2. ToSet(u) = {u[i] : i \in 1..m}
    BY <1>6, ElementsOf
  <2> QED
    BY <1>6, <2>1, <2>2
<1>8. PICK t : t = taken'
  OBVIOUS
<1>9. /\ t \in Seq(Contents) /\ Len(t) = l + m
      /\ \A i \in 1..l : t[i] = taken[i]
      /\ \A i \in 1..m : t[l + i] \in HecContents
  <2>1. lines \in Seq(Contents)
    BY <1>3, IngesterAssumption, WiderSeq
  <2>2. t \in Seq(Contents) /\ Len(t) = l + m
    BY <1>1, <1>3, <1>4, <1>8, <2>1, ConcatProperties
  <2>3. \A i \in 1..(l + m) : t[i] = IF i <= l THEN taken[i] ELSE lines[i - l]
    BY <1>1, <1>3, <1>4, <1>8, <2>1, ConcatProperties
  <2>4. \A i \in 1..m : l + i \in 1..(l + m) /\ ~(l + i <= l) /\ (l + i) - l = i
    OBVIOUS
  <2>5. \A i \in 1..l : i \in 1..(l + m) /\ i <= l
    OBVIOUS
  <2>6. \A i \in 1..m : lines[i] \in HecContents
    BY <1>2
  <2> QED
    BY <2>2, <2>3, <2>4, <2>5, <2>6
<1>10. \A i \in 1..(l + m) : i \in 1..l \/ \E j \in 1..m : i = l + j
  <2> SUFFICES ASSUME NEW i \in 1..(l + m), i \notin 1..l
               PROVE  \E j \in 1..m : i = l + j
    OBVIOUS
  <2>1. i - l \in 1..m /\ i = l + (i - l)
    OBVIOUS
  <2> QED
    BY <2>1
<1>11. Events' = Events \cup ToSet(u) /\ ToSet(u) \cap Events = {}
  <2>1. \A i \in 1..m : l + i \in 1..(l + m) /\ l + i \notin 1..l
    OBVIOUS
  <2>2. \A i \in 1..l : i \in 1..(l + m)
    OBVIOUS
  <2>3. Events = 1..l /\ Events' = 1..(l + m)
    BY <1>4, <1>8, <1>9 DEF Events
  <2> QED
    BY <1>7, <1>10, <2>1, <2>2, <2>3
<1>12. ToSet(u) \cap ToSet(batch) = {}
  BY <1>11 DEF IngestInv, Placed, Apart, Waiting
<1>13. batch' \in Seq(Nat) /\ Distinct(batch') /\ Waiting' = Waiting \cup ToSet(u)
  <2>1. batch \in Seq(Nat) /\ Distinct(batch) /\ batch' = batch \o u
    BY <1>1, <1>3, <1>5 DEF IngestInv, IngestTypes, TypeOK
  <2> QED
    <3>0. ToSet(batch) \cap ToSet(u) = {} /\ u \in Seq(Nat) /\ Distinct(u)
      BY <1>6, <1>7, <1>12
    <3>1. /\ batch \o u \in Seq(Nat) /\ Distinct(batch \o u)
          /\ ToSet(batch \o u) = ToSet(batch) \cup ToSet(u)
      BY <3>0, <2>1, ConcatOfDistinct
    <3> QED
      BY <2>1, <3>1 DEF Waiting
<1>14. Placed'
  <2>1. Apart(Events, Waiting, Flights, inserted, lost)
    BY DEF IngestInv, Placed
  <2>2. Apart(Events \cup ToSet(u), Waiting \cup ToSet(u), Flights, inserted, lost)
    BY <1>11, <2>1, NewWait
  <2>3. Flights' = Flights
    BY <1>1 DEF Flights, InFlight
  <2> QED
    BY <1>1, <1>11, <1>13, <2>2, <2>3 DEF Placed
<1>15. IngestTypes'
  <2>1. stats' \in Stats /\ stats'.ingested = l + m
    <3>1. stats \in Stats /\ stats.ingested = l
      BY <1>4 DEF IngestInv, IngestTypes, TypeOK, Stats
    <3>2. /\ [stats EXCEPT !.ingested = @ + m] \in Stats
          /\ [stats EXCEPT !.ingested = @ + m].ingested = stats.ingested + m
      BY <3>1, StatsCount
    <3> QED
      BY <1>1, <1>3, <3>1, <3>2
  <2>2. /\ pc' \in [Tasks -> {"idle", "insert", "publish"}]
        /\ flight' \in [Tasks -> Seq(Nat)] /\ \A j \in Tasks : Distinct(flight'[j])
        /\ inserted' \in SUBSET Nat /\ lost' \in SUBSET Nat /\ seen' \in SUBSET Contents
    BY <1>1 DEF IngestInv, IngestTypes, TypeOK
  <2> QED
    BY <1>1, <1>8, <1>9, <1>13, <2>1, <2>2 DEF IngestTypes, TypeOK, Stats
<1>16. ErrorsCounted'
  <2>1. stats \in Stats
    BY DEF IngestInv, IngestTypes, TypeOK, Stats
  <2>2. [stats EXCEPT !.ingested = @ + m].errors = stats.errors
    BY <2>1, StatsCount
  <2> QED
    BY <1>1, <1>3, <2>2 DEF IngestInv, ErrorsCounted
<1>17. SeenWithin' /\ \E q \in Nat : WindowsPassed(q)'
  <2>1. PICK q \in Nat : WindowsPassed(q)
    BY DEF IngestInv
  <2>2. \A c \in Contents \ HecContents : Of(c, t) = Of(c, taken)
    <3> SUFFICES ASSUME NEW c \in Contents \ HecContents
                 PROVE  \A i : i \in Of(c, t) <=> i \in Of(c, taken)
      OBVIOUS
    <3>1. \A i \in 1..m : t[l + i] # c
      BY <1>9
    <3>2. ASSUME NEW i \in Of(c, t)
          PROVE  i \in Of(c, taken)
      <4>1. i \in 1..(l + m) /\ t[i] = c
        BY <1>9 DEF Of
      <4>2. i \in 1..l
        BY <1>10, <3>1, <4>1
      <4> QED
        BY <1>4, <1>9, <4>1, <4>2 DEF Of
    <3>3. ASSUME NEW i \in Of(c, taken)
          PROVE  i \in Of(c, t)
      <4>1. i \in 1..l /\ taken[i] = c
        BY <1>4 DEF Of
      <4>2. i \in 1..(l + m)
        BY <4>1
      <4> QED
        BY <1>9, <4>1, <4>2 DEF Of
    <3> QED
      BY <3>2, <3>3
  <2>3. PICK a, n \in Nat : a = q * (Window + 1) /\ n = Cardinality(seen)
    <3>1. Cardinality(seen) \in Nat
      BY FS_CardinalityType DEF IngestInv, SeenWithin
    <3>2. PICK w \in Nat : w = Window
      BY IngesterAssumption
    <3>3. q * (w + 1) \in Nat
      OBVIOUS
    <3> QED
      BY <3>1, <3>2, <3>3
  <2>4. a + n <= l + m
    BY <1>4, <2>1, <2>3 DEF WindowsPassed
  <2>5. WindowsPassed(q)'
    BY <1>1, <1>8, <1>9, <2>1, <2>2, <2>3, <2>4 DEF WindowsPassed
  <2> QED
    BY <1>1, <2>5 DEF IngestInv, SeenWithin
<1> QED
  BY <1>13, <1>14, <1>15, <1>16, <1>17 DEF IngestInv

(* The end of an insert, well or badly.                                    *)
LEMMA InsertEndKeeps ==
  ASSUME IngestInv, NEW k \in Tasks, pc[k] = "insert",
         \/ inserted' = inserted \cup ToSet(flight[k]) /\ UNCHANGED <<lost, stats>>
         \/ /\ inserted' = inserted \cup ToSet(flight[k]) /\ UNCHANGED lost
            /\ stats' = CountErrors(k)
         \/ /\ lost' = lost \cup ToSet(flight[k]) /\ UNCHANGED inserted
            /\ stats' = CountErrors(k),
         \/ pc' = [pc EXCEPT ![k] = "publish"] /\ UNCHANGED flight
         \/ pc' = [pc EXCEPT ![k] = "idle"] /\ flight' = [flight EXCEPT ![k] = <<>>],
         UNCHANGED <<batch, seen, taken, requests>>
  PROVE  IngestInv'
<1>1. PICK X, n : X = ToSet(flight[k]) /\ n = Len(flight[k]) /\ n \in Nat
  BY LenProperties DEF IngestInv, IngestTypes, TypeOK
<1>2. X \subseteq Nat /\ IsFiniteSet(X) /\ Cardinality(X) = n
  <2>1. flight[k] \in Seq(Nat) /\ Distinct(flight[k])
    BY DEF IngestInv, IngestTypes, TypeOK
  <2> QED
    BY <1>1, <2>1, DistinctCount, ElementsOf
<1>3. stats \in Stats /\ stats.errors \in Nat
  BY DEF IngestInv, IngestTypes, TypeOK, Stats
<1>4. PICK r : r = [stats EXCEPT !.errors = @ + n]
  OBVIOUS
<1>5. r \in Stats /\ r.ingested = stats.ingested /\ r.errors = stats.errors + n
  BY <1>1, <1>3, <1>4, StatsCount
<1>6. /\ \/ inserted' = inserted \cup X /\ lost' = lost
         \/ lost' = lost \cup X /\ inserted' = inserted /\ stats' = r
      /\ stats' = stats \/ stats' = r
  BY <1>1, <1>4 DEF CountErrors
<1>7. /\ pc' \in [Tasks -> {"idle", "insert", "publish"}]
      /\ flight' \in [Tasks -> Seq(Nat)] /\ \A j \in Tasks : Distinct(flight'[j])
  <2>1. <<>> \in Seq(Nat) /\ Distinct(<<>>)
    BY DEF Distinct
  <2> QED
    BY <2>1 DEF IngestInv, IngestTypes, TypeOK
<1>8. /\ Flights[k] = X /\ Flights'[k] = {}
      /\ \A j \in Tasks \ {k} : Flights'[j] = Flights[j]
  BY <1>1 DEF Flights, InFlight, IngestInv, IngestTypes, TypeOK
<1>9. Placed'
  <2>1. Apart(Events, Waiting, Flights, inserted, lost)
    BY DEF IngestInv, Placed
  <2>2. PICK G : G = Flights'
    OBVIOUS
  <2>3. \/ inserted' = inserted \cup Flights[k] /\ lost' = lost
        \/ inserted' = inserted /\ lost' = lost \cup Flights[k]
    BY <1>6, <1>8
  <2>4. Apart(Events, Waiting, G, inserted', lost')
    <3>1. PICK F, E, W, I, L : F = Flights /\ E = Events /\ W = Waiting /\ I = inserted /\ L = lost
      OBVIOUS
    <3>2. PICK J, M : J = inserted' /\ M = lost'
      OBVIOUS
    <3>3. Apart(E, W, F, I, L)
      BY <2>1, <3>1
    <3>4. G[k] = {} /\ \A j \in Tasks \ {k} : G[j] = F[j]
      BY <1>8, <2>2, <3>1
    <3>5. (J = I \cup F[k] /\ M = L) \/ (J = I /\ M = L \cup F[k])
      BY <2>3, <3>1, <3>2
    <3>6. Apart(E, W, G, J, M)
      BY <3>3, <3>4, <3>5, InsertMoves
    <3> QED
      BY <3>1, <3>2, <3>6
  <2> QED
    BY <2>2, <2>4 DEF Placed, Events, Waiting
<1>10. IngestTypes'
  <2>1. stats' \in Stats /\ stats'.ingested = stats.ingested
    BY <1>3, <1>5, <1>6
  <2>2. inserted' \in SUBSET Nat /\ lost' \in SUBSET Nat
    BY <1>2, <1>6 DEF IngestInv, IngestTypes, TypeOK
  <2> QED
    BY <1>7, <2>1, <2>2 DEF IngestInv, IngestTypes, TypeOK, Stats
<1>11. ErrorsCounted'
  <2>1. PICK e, d \in Nat : e = stats.errors /\ d = Cardinality(lost) /\ IsFiniteSet(lost)
    BY <1>3, LostIsFinite DEF IngestInv
  <2>2. d <= e
    BY <2>1 DEF IngestInv, ErrorsCounted
  <2>3. CASE lost' = lost
    <3>1. stats'.errors = e \/ stats'.errors = e + n
      BY <1>5, <1>6, <2>1
    <3> QED
      BY <1>1, <2>1, <2>2, <2>3, <3>1 DEF ErrorsCounted
  <2>4. CASE lost' = lost \cup X /\ stats' = r
    <3>1. Cardinality(lost \cup X) = d + n - Cardinality(lost \cap X)
      BY <1>2, <2>1, FS_Union
    <3>2. Cardinality(lost \cap X) \in Nat
      <4>1. IsFiniteSet(lost \cap X)
        BY <2>1, FS_Subset
      <4> QED
        BY <4>1, FS_CardinalityType
    <3>3. Cardinality(lost') <= e + n
      BY <1>1, <2>2, <2>4, <3>1, <3>2
    <3> QED
      BY <1>5, <2>1, <2>4, <3>3 DEF ErrorsCounted
  <2> QED
    BY <1>6, <2>3, <2>4
<1>12. SeenWithin' /\ \E q \in Nat : WindowsPassed(q)'
  BY DEF IngestInv, SeenWithin, WindowsPassed
<1> QED
  BY <1>9, <1>10, <1>11, <1>12 DEF IngestInv

LEMMA IngestInitial == Init => IngestInv
<1> SUFFICES ASSUME Init PROVE IngestInv
  OBVIOUS
<1>1. IngestTypes
  <2>1. batch = <<>> /\ taken = <<>> /\ \A k \in Tasks : flight[k] = <<>>
    BY DEF Init
  <2>2. TypeOK
    BY IngesterAssumption DEF Init, TypeOK
  <2>3. stats.ingested = 0 /\ Len(<<>>) = 0 /\ Distinct(<<>>)
    BY DEF Init, Distinct
  <2> QED
    BY <2>1, <2>2, <2>3 DEF IngestTypes
<1>2. Placed
  <2>1. Events = {} /\ Waiting = {} /\ inserted = {} /\ lost = {}
    BY EmptyHasNone DEF Init, Events, Waiting
  <2>2. \A k \in Tasks : Flights[k] = {}
    BY DEF Init, Flights, InFlight
  <2> QED
    BY <2>1, <2>2 DEF Placed, Apart
<1>3. ErrorsCounted
  BY FS_EmptySet DEF Init, ErrorsCounted
<1>4. SeenWithin
  BY FS_EmptySet, IngesterAssumption DEF Init, SeenWithin
<1>5. WindowsPassed(0)
  <2>1. seen = {} /\ taken = <<>> /\ Len(<<>>) = 0 /\ 0 * (Window + 1) = 0
    BY IngesterAssumption DEF Init
  <2>2. \A c : Of(c, taken) = {}
    BY <2>1 DEF Of
  <2>3. Cardinality(seen) = 0 /\ \A c : Cardinality(Of(c, taken)) = 0
    BY <2>1, <2>2, FS_EmptySet
  <2>4. 0 * (Window + 1) + Cardinality(seen) <= Len(taken)
    BY <2>1, <2>3
  <2>5. \A c : Cardinality(Of(c, taken)) <= 0 + (IF c \in seen THEN 1 ELSE 0)
    BY <2>1, <2>3
  <2> QED
    BY <2>4, <2>5 DEF WindowsPassed
<1> QED
  BY <1>1, <1>2, <1>3, <1>4, <1>5 DEF IngestInv

LEMMA IngestInductive == IngestInv /\ [Next]_vars => IngestInv'
<1> SUFFICES ASSUME IngestInv, [Next]_vars
             PROVE  IngestInv'
  OBVIOUS
<1>1. ASSUME NEW k \in Tasks, InsertOk(k)
      PROVE  IngestInv'
  BY <1>1, InsertEndKeeps DEF InsertOk
<1>2. ASSUME NEW k \in Tasks, NEW written \in BOOLEAN, InsertRaises(k, written)
      PROVE  IngestInv'
  BY <1>2, InsertEndKeeps DEF InsertRaises
<1>3. CASE UNCHANGED vars
  <2>1. UNCHANGED <<batch, seen, stats, pc, flight, inserted, lost, taken, requests>>
    BY <1>3 DEF vars
  <2>2. Placed'
    BY <2>1 DEF IngestInv, Placed, Events, Waiting, Flights, InFlight
  <2>3. IngestTypes' /\ ErrorsCounted' /\ SeenWithin'
    BY <2>1 DEF IngestInv, IngestTypes, TypeOK, ErrorsCounted, SeenWithin
  <2>4. \E q \in Nat : WindowsPassed(q)'
    BY <2>1 DEF IngestInv, WindowsPassed
  <2> QED
    BY <2>2, <2>3, <2>4 DEF IngestInv
<1> QED
  BY <1>1, <1>2, <1>3, IngestNewKeeps, IngestDuplicateKeeps, IngestUnparsableKeeps,
     IngestHecKeeps, FlushTickKeeps, IngestPublishKeeps DEF Next, FlushEnds

-----------------------------------------------------------------------------
(* Products of naturals.                                                   *)
LEMMA ProductInNat ==
  ASSUME NEW a \in Nat, NEW b \in Nat
  PROVE  a * b \in Nat
OBVIOUS

LEMMA ProductGrows ==
  ASSUME NEW a \in Nat, NEW b \in Nat, NEW c \in Nat, a <= b
  PROVE  a * (c + 1) <= b * (c + 1)
OBVIOUS

LEMMA OneTimesMore ==
  ASSUME NEW a \in Nat, NEW b \in Nat
  PROVE  (a + 1) * (b + 1) = a * (b + 1) + b + 1
OBVIOUS

-----------------------------------------------------------------------------
(* What the invariant says of each event.                                  *)
LEMMA PlacedConserves == IngestInv => EventsConserved
<1> SUFFICES ASSUME IngestInv PROVE EventsConserved
  OBVIOUS
<1>1. PICK F : F = Flights /\ \A k \in Tasks : F[k] = InFlight(k)
  <2>1. \A k \in Tasks : Flights[k] = InFlight(k)
    BY DEF Flights
  <2> QED
    BY <2>1
<1>2. Apart(Events, Waiting, F, inserted, lost)
  BY <1>1 DEF IngestInv, Placed
<1>3. \A e : e \in OnTheirWay <=> e \in Waiting \/ \E k \in Tasks : e \in F[k]
  BY <1>1 DEF OnTheirWay
<1>4. Events = OnTheirWay \cup inserted \cup lost
  BY <1>2, <1>3 DEF Apart
<1>5. OnTheirWay \cap (inserted \cup lost) = {} /\ inserted \cap lost = {}
  BY <1>2, <1>3 DEF Apart
<1>6. /\ \A k \in Tasks : Waiting \cap InFlight(k) = {}
      /\ \A j, k \in Tasks : j # k => InFlight(j) \cap InFlight(k) = {}
  BY <1>1, <1>2 DEF Apart
<1>7. /\ \A i, j \in 1..Len(batch) : batch[i] = batch[j] => i = j
      /\ \A k \in Tasks : \A i, j \in 1..Len(flight[k]) : flight[k][i] = flight[k][j] => i = j
  BY DEF IngestInv, IngestTypes, Distinct
<1> QED
  BY <1>4, <1>5, <1>6, <1>7 DEF EventsConserved, IngestInv, IngestTypes

LEMMA LossesCounted == IngestInv => StatsConservative
<1> SUFFICES ASSUME IngestInv PROVE StatsConservative
  OBVIOUS
<1>1. EventsConserved
  BY PlacedConserves
<1>2. Events \ (inserted \cup OnTheirWay) = lost
  BY <1>1 DEF EventsConserved
<1> QED
  BY <1>2 DEF StatsConservative, IngestInv, IngestTypes, ErrorsCounted

(* A content in the window was taken once more than there are windows      *)
(* behind it, and the window it is in holds one hash at least.             *)
LEMMA WindowsBound == IngestInv => TakenOncePerWindow
<1> SUFFICES ASSUME IngestInv PROVE TakenOncePerWindow
  OBVIOUS
<1>1. PICK q \in Nat : WindowsPassed(q)
  BY DEF IngestInv
<1>2. PICK w, l : w = Window /\ l = Len(taken) /\ w \in Nat /\ l \in Nat
  BY LenProperties, IngesterAssumption DEF IngestInv, IngestTypes, TypeOK
<1>3. PICK n : n = Cardinality(seen) /\ n \in Nat
  BY FS_CardinalityType DEF IngestInv, SeenWithin
<1>4. q * (w + 1) \in Nat /\ q * (w + 1) + n <= l
  BY <1>1, <1>2, <1>3 DEF WindowsPassed
<1>5. ASSUME NEW c \in Contents \ HecContents
      PROVE  Cardinality(Of(c, taken)) * (w + 1) <= l + w
  <2>1. PICK m : m = Cardinality(Of(c, taken)) /\ m \in Nat
    <3>1. IsFiniteSet(1..l) /\ Of(c, taken) \subseteq 1..l
      BY <1>2, FS_Interval DEF Of
    <3>2. Cardinality(Of(c, taken)) \in Nat
      BY <3>1, FS_Subset, FS_CardinalityType
    <3> QED
      BY <3>2
  <2>2. m <= q + (IF c \in seen THEN 1 ELSE 0)
    BY <1>1, <2>1 DEF WindowsPassed
  <2>3. CASE c \notin seen
    <3>1. m <= q
      BY <2>1, <2>2, <2>3
    <3>2. m * (w + 1) <= q * (w + 1)
      BY <1>2, <2>1, <3>1, ProductGrows
    <3> QED
      BY <1>2, <1>3, <1>4, <2>1, <3>2, ProductInNat
  <2>4. CASE c \in seen
    <3>1. n >= 1
      <4>1. n # 0
        BY <1>3, <2>4, FS_EmptySet DEF IngestInv, SeenWithin
      <4> QED
        BY <1>3, <4>1
    <3>2. m <= q + 1
      BY <2>1, <2>2, <2>4
    <3>3. m * (w + 1) <= (q + 1) * (w + 1) /\ (q + 1) * (w + 1) = q * (w + 1) + w + 1
      BY <1>2, <2>1, <3>2, ProductGrows, OneTimesMore
    <3> QED
      BY <1>2, <1>3, <1>4, <2>1, <3>1, <3>3, ProductInNat
  <2> QED
    BY <2>1, <2>3, <2>4
<1> QED
  BY <1>2, <1>5 DEF TakenOncePerWindow, Of, Events

(* Every event ingested is in exactly one place and in it once, for any    *)
(* number of handlers, contents and lines, whatever the sizes of a batch   *)
(* and of the dedup window, and however inserts and publishes end.         *)
THEOREM EventsAreConserved == Spec => []EventsConserved
<1>1. Spec => []IngestInv
  BY IngestInitial, IngestInductive, PTL DEF Spec
<1> QED
  BY <1>1, PlacedConserves, PTL

(* What get_stats reports never hides a loss: at most as many events have  *)
(* been lost as it counts errors.                                          *)
THEOREM StatsAreConservative == Spec => []StatsConservative
<1>1. Spec => []IngestInv
  BY IngestInitial, IngestInductive, PTL DEF Spec
<1> QED
  BY <1>1, LossesCounted, PTL

(* Both accounts together, as they are checked: _flush, ingest and         *)
(* get_stats of the ingester.                                              *)
THEOREM EventsAreAccounted == Spec => []EventsAccounted
<1>1. EventsConserved /\ StatsConservative => EventsAccounted
  BY DEF EventsAccounted
<1> QED
  BY <1>1, EventsAreConserved, StatsAreConservative, PTL

(* The dedup window keeps its promise whatever its size, for every content *)
(* that HEC senders do not submit.                                         *)
THEOREM WindowIsKept == Spec => []TakenOncePerWindow
<1>1. Spec => []IngestInv
  BY IngestInitial, IngestInductive, PTL DEF Spec
<1> QED
  BY <1>1, WindowsBound, PTL

-----------------------------------------------------------------------------
(* CloudCollectors.  The records of a window, es, of which some were       *)
(* handed over already, done, are spread over the page in hand and the     *)
(* pages to come, each in one place and there once.                        *)
Spread(es, page, pages, done) ==
  /\ page \in Seq(CloudLog) /\ Distinct(page) /\ ToSet(page) \subseteq es
  /\ ToSet(page) \cap done = {}
  /\ pages \in Seq(Seq(CloudLog))
  /\ \A p \in 1..Len(pages) :
       /\ Distinct(pages[p]) /\ ToSet(pages[p]) \subseteq es
       /\ ToSet(pages[p]) \cap done = {} /\ ToSet(pages[p]) \cap ToSet(page) = {}
       /\ \A q \in 1..Len(pages) : p # q => ToSet(pages[p]) \cap ToSet(pages[q]) = {}

Covers(es, page, pages, done) ==
  \A e \in es : e \in done \/ e \in ToSet(page) \/ \E p \in 1..Len(pages) : e \in ToSet(pages[p])

LEMMA NextPageSpread ==
  ASSUME NEW es, NEW fs, NEW pages, NEW done, pages # <<>>, Spread(es, <<>>, pages, done)
  PROVE  /\ Spread(es, Head(pages), Tail(pages), done)
         /\ Covers(fs, <<>>, pages, done) => Covers(fs, Head(pages), Tail(pages), done)
<1>1. pages \in Seq(Seq(CloudLog))
  BY DEF Spread
<1>2. PICK h, t : h = Head(pages) /\ t = Tail(pages)
  OBVIOUS
<1>3. PICK n \in Nat : /\ Len(pages) = n + 1 /\ Len(t) = n
                       /\ \A i \in 1..n : t[i] = pages[i + 1]
  BY <1>1, <1>2, FirstAndRest
<1>4. /\ h = Head(pages) /\ t = Tail(pages) /\ h = pages[1]
      /\ h \in Seq(CloudLog) /\ t \in Seq(Seq(CloudLog)) /\ n \in Nat
      /\ Len(pages) = n + 1 /\ Len(t) = n /\ \A i \in 1..n : t[i] = pages[i + 1]
  BY <1>1, <1>2, <1>3, FirstAndRest
<1>5. /\ 1 \in 1..(n + 1) /\ \A i \in 1..n : i + 1 \in 1..(n + 1) /\ i + 1 # 1
      /\ \A i, j \in 1..n : i # j => i + 1 # j + 1
  BY <1>4
<1>6. Spread(es, h, t, done)
  BY <1>4, <1>5 DEF Spread
<1>7. ASSUME Covers(fs, <<>>, pages, done), NEW e \in fs
      PROVE  e \in done \/ e \in ToSet(h) \/ \E p \in 1..n : e \in ToSet(t[p])
  <2>1. CASE e \in done
    BY <2>1
  <2>2. ASSUME NEW p \in 1..(n + 1), e \in ToSet(pages[p])
        PROVE  e \in ToSet(h) \/ \E q \in 1..n : e \in ToSet(t[q])
    <3>1. CASE p = 1
      BY <1>4, <2>2, <3>1
    <3>2. CASE p # 1
      <4>1. p - 1 \in 1..n /\ p = (p - 1) + 1
        BY <1>4, <3>2
      <4>2. e \in ToSet(t[p - 1])
        BY <1>4, <2>2, <4>1
      <4> QED
        BY <4>1, <4>2
    <3> QED
      BY <3>1, <3>2
  <2> QED
    BY <1>4, <1>7, <2>1, <2>2, EmptyHasNone DEF Covers
<1> QED
  BY <1>4, <1>6, <1>7 DEF Covers

LEMMA DroppedPageSpread ==
  ASSUME NEW es, NEW page, NEW pages, NEW done, pages # <<>>, Spread(es, page, pages, done)
  PROVE  Spread(es, page, Tail(pages), done)
<1>1. pages \in Seq(Seq(CloudLog))
  BY DEF Spread
<1>2. PICK h, t : h = Head(pages) /\ t = Tail(pages)
  OBVIOUS
<1>3. PICK n \in Nat : /\ Len(pages) = n + 1 /\ Len(t) = n
                       /\ \A i \in 1..n : t[i] = pages[i + 1]
  BY <1>1, <1>2, FirstAndRest
<1>4. /\ h = Head(pages) /\ t = Tail(pages) /\ h = pages[1]
      /\ h \in Seq(CloudLog) /\ t \in Seq(Seq(CloudLog)) /\ n \in Nat
      /\ Len(pages) = n + 1 /\ Len(t) = n /\ \A i \in 1..n : t[i] = pages[i + 1]
  BY <1>1, <1>2, <1>3, FirstAndRest
<1>5. /\ \A i \in 1..n : i + 1 \in 1..(n + 1)
      /\ \A i, j \in 1..n : i # j => i + 1 # j + 1
  BY <1>4
<1> QED
  BY <1>4, <1>5 DEF Spread

(* The first record of a sequence without repetitions, and the rest.       *)
LEMMA RestOfDistinct ==
  ASSUME NEW A, NEW s \in Seq(A), Distinct(s), s # <<>>
  PROVE  /\ Head(s) \in A /\ Tail(s) \in Seq(A) /\ Distinct(Tail(s))
         /\ ToSet(s) = ToSet(Tail(s)) \cup {Head(s)} /\ Head(s) \notin ToSet(Tail(s))
<1>1. PICK h, t : h = Head(s) /\ t = Tail(s)
  OBVIOUS
<1>2. PICK n \in Nat : /\ Len(s) = n + 1 /\ Len(t) = n
                       /\ \A i \in 1..n : t[i] = s[i + 1]
  BY <1>1, FirstAndRest
<1>3. /\ h = Head(s) /\ t = Tail(s) /\ h = s[1]
      /\ h \in A /\ t \in Seq(A) /\ n \in Nat
      /\ Len(s) = n + 1 /\ Len(t) = n /\ \A i \in 1..n : t[i] = s[i + 1]
  BY <1>1, <1>2, FirstAndRest
<1>4. /\ 1 \in 1..(n + 1) /\ \A i \in 1..n : i + 1 \in 1..(n + 1) /\ i + 1 # 1
      /\ \A i, j \in 1..n : i + 1 = j + 1 => i = j
  BY <1>3
<1>5. \A i \in 1..(n + 1) : i = 1 \/ \E j \in 1..n : i = j + 1
  <2> SUFFICES ASSUME NEW i \in 1..(n + 1), i # 1
               PROVE  \E j \in 1..n : i = j + 1
    OBVIOUS
  <2>1. n \in Nat
    BY <1>3
  <2>2. i - 1 \in 1..n /\ i = (i - 1) + 1
    BY <2>1
  <2> QED
    BY <2>2
<1>6. Distinct(t)
  BY <1>3, <1>4 DEF Distinct
<1>7. /\ \A x : x \in ToSet(s) <=> \E i \in 1..(n + 1) : x = s[i]
      /\ \A x : x \in ToSet(t) <=> \E i \in 1..n : x = t[i]
  <2>1. ToSet(s) = {s[i] : i \in 1..Len(s)} /\ Len(s) = n + 1
    BY <1>3, ElementsOf
  <2>2. ToSet(t) = {t[i] : i \in 1..Len(t)} /\ Len(t) = n
    <3>1. t \in Seq(A)
      BY <1>3
    <3>2. ToSet(t) = {t[i] : i \in 1..Len(t)}
      BY <3>1, ElementsOf
    <3> QED
      BY <1>3, <3>2
  <2>3. \A x : x \in ToSet(s) <=> \E i \in 1..(n + 1) : x = s[i]
    BY <2>1
  <2>4. \A x : x \in ToSet(t) <=> \E i \in 1..n : x = t[i]
    BY <2>2
  <2> QED
    BY <2>3, <2>4
<1>8. ToSet(s) = ToSet(t) \cup {h}
  <2>1. ASSUME NEW x \in ToSet(s)
        PROVE  x \in ToSet(t) \/ x = h
    <3>1. PICK i \in 1..(n + 1) : x = s[i]
      BY <1>7
    <3> QED
      BY <1>3, <1>5, <1>7, <3>1
  <2>2. ASSUME NEW x \in ToSet(t)
        PROVE  x \in ToSet(s)
    <3>1. PICK i \in 1..n : x = t[i]
      BY <1>7
    <3> QED
      BY <1>3, <1>4, <1>7, <3>1
  <2>3. h \in ToSet(s)
    BY <1>3, <1>4, <1>7
  <2> QED
    BY <2>1, <2>2, <2>3
<1>9. h \notin ToSet(t)
  BY <1>3, <1>4, <1>7 DEF Distinct
<1> QED
  BY <1>3, <1>6, <1>8, <1>9

LEMMA HandedSpread ==
  ASSUME NEW es, NEW fs, NEW page, NEW pages, NEW done, page # <<>>, Spread(es, page, pages, done)
  PROVE  /\ Head(page) \in es \cap CloudLog /\ Head(page) \notin done
         /\ Spread(es, Tail(page), pages, done \cup {Head(page)})
         /\ Covers(fs, page, pages, done) => Covers(fs, Tail(page), pages, done \cup {Head(page)})
<1>1. PICK h, t : h = Head(page) /\ t = Tail(page)
  OBVIOUS
<1>2. /\ h \in CloudLog /\ t \in Seq(CloudLog) /\ Distinct(t)
      /\ ToSet(page) = ToSet(t) \cup {h} /\ h \notin ToSet(t)
  BY <1>1, RestOfDistinct DEF Spread
<1>3. h \in es /\ h \notin done /\ Spread(es, t, pages, done \cup {h})
  BY <1>2 DEF Spread
<1>4. Covers(fs, page, pages, done) => Covers(fs, t, pages, done \cup {h})
  BY <1>2 DEF Covers
<1> QED
  BY <1>1, <1>2, <1>3, <1>4

(* Record i is on one of the pages.                                        *)
LEMMA PageExists ==
  ASSUME NEW n \in Nat, NEW i \in 1..n
  PROVE  (i - 1) \div PageSize + 1 \in 1..((n + PageSize - 1) \div PageSize)
<1>1. PICK z : z = PageSize /\ z \in Nat /\ z > 0
  BY CloudAssumption
<1>2. PICK d : d = (i - 1) \div z
  OBVIOUS
<1>3. PICK k : k = (n + z - 1) \div z
  OBVIOUS
<1>4. d \in Nat /\ z * d <= i - 1
  BY <1>1, <1>2
<1>5. k \in Nat /\ n + z - 1 < z * (k + 1)
  BY <1>1, <1>3
<1>6. z * (k + 1) = z * k + z
  BY <1>1, <1>5
<1>7. z * d < z * k
  BY <1>1, <1>4, <1>5, <1>6
<1>8. d < k
  <2>1. CASE k <= d
    <3>1. z * k <= z * d
      BY <1>1, <1>4, <1>5, <2>1
    <3> QED
      BY <1>1, <1>4, <1>5, <1>7, <3>1
  <2> QED
    BY <1>4, <1>5, <2>1
<1> QED
  BY <1>1, <1>2, <1>3, <1>4, <1>5, <1>8

ById(es) == {w \in es \X es : w[1].id < w[2].id}

LEMMA IdsOrder ==
  ASSUME NEW es \in SUBSET CloudLog
  PROVE  IsFiniteSet(es) /\ Orders(ById(es), es)
<1>1. IsFiniteSet(es)
  BY CloudAssumption, FS_Subset
<1>2. \A d, e \in es : <<d, e>> \in ById(es) <=> d.id < e.id
  BY DEF ById
<1>3. \A e \in es : e.id \in Nat
  BY CloudAssumption
<1>4. \A d, e \in es : d.id = e.id => d = e
  BY CloudAssumption
<1> QED
  BY <1>1, <1>2, <1>3, <1>4 DEF Orders

(* The pages of a window spread it and cover it.                           *)
LEMMA PagesSpread ==
  ASSUME NEW es \in SUBSET CloudLog, NEW done, done \cap es = {}
  PROVE  Spread(es, <<>>, Pages(es), done) /\ Covers(es, <<>>, Pages(es), done)
<1>1. PICK s, n : s = Arranged(es, ById(es)) /\ n = Cardinality(es)
  OBVIOUS
<1>2. /\ n \in Nat /\ s \in [1..n -> es]
      /\ \A x \in es : \E i \in 1..n : s[i] = x
      /\ \A i, j \in 1..n : s[i] = s[j] => i = j
  BY <1>1, IdsOrder, ArrangedInOrder
<1>3. s \in Seq(CloudLog) /\ Len(s) = n /\ Distinct(s)
  <2>1. s \in [1..n -> CloudLog] /\ s = [i \in 1..n |-> s[i]]
    BY <1>2
  <2>2. [i \in 1..n |-> s[i]] \in Seq(CloudLog) /\ Len([i \in 1..n |-> s[i]]) = n
    BY <1>2, <2>1, IsASeq
  <2> QED
    BY <1>2, <2>1, <2>2 DEF Distinct
<1>4. PICK k, u : k = (n + PageSize - 1) \div PageSize /\ u = Pages(es)
  OBVIOUS
<1>5. k \in Nat
  BY <1>2, <1>4, CloudAssumption
<1> DEFINE On(p) == {i \in 1..n : (i - 1) \div PageSize + 1 = p}
<1>6. u = [p \in 1..k |-> AtPositions(s, On(p))]
  BY <1>1, <1>3, <1>4 DEF Pages, ById
<1>7. \A p \in 1..k : /\ u[p] \in Seq(CloudLog) /\ Distinct(u[p])
                       /\ \A x : x \in ToSet(u[p]) <=> \E i \in On(p) : x = s[i]
  <2> SUFFICES ASSUME NEW p \in 1..k
               PROVE  /\ u[p] \in Seq(CloudLog) /\ Distinct(u[p])
                      /\ \A x : x \in ToSet(u[p]) <=> \E i \in On(p) : x = s[i]
    OBVIOUS
  <2>1. PICK K : K = On(p)
    OBVIOUS
  <2>2. K \in SUBSET (1..Len(s))
    BY <1>3, <2>1
  <2>3. /\ AtPositions(s, K) \in Seq(CloudLog) /\ Distinct(AtPositions(s, K))
        /\ ToSet(AtPositions(s, K)) = {s[i] : i \in K}
    BY <1>3, <2>2, KeptOfDistinct
  <2>4. u[p] = AtPositions(s, K)
    BY <1>6, <2>1
  <2> QED
    BY <2>1, <2>3, <2>4
<1>8. u \in Seq(Seq(CloudLog)) /\ Len(u) = k
  <2>1. u \in [1..k -> Seq(CloudLog)] /\ u = [p \in 1..k |-> u[p]]
    BY <1>6, <1>7
  <2>2. [p \in 1..k |-> u[p]] \in Seq(Seq(CloudLog)) /\ Len([p \in 1..k |-> u[p]]) = k
    BY <1>5, <2>1, IsASeq
  <2> QED
    BY <2>1, <2>2
<1>9. \A p \in 1..k : \A x \in ToSet(u[p]) :
        \E i \in 1..n : x = s[i] /\ (i - 1) \div PageSize + 1 = p
  BY <1>7
<1>10. /\ \A p \in 1..k : ToSet(u[p]) \subseteq es
       /\ \A p, q \in 1..k : p # q => ToSet(u[p]) \cap ToSet(u[q]) = {}
  <2>1. \A p \in 1..k : ToSet(u[p]) \subseteq es
    BY <1>2, <1>9
  <2>2. ASSUME NEW p \in 1..k, NEW q \in 1..k, NEW x \in ToSet(u[p]) \cap ToSet(u[q])
        PROVE  p = q
    <3>1. PICK i \in 1..n : x = s[i] /\ (i - 1) \div PageSize + 1 = p
      BY <1>9
    <3>2. PICK j \in 1..n : x = s[j] /\ (j - 1) \div PageSize + 1 = q
      BY <1>9
    <3> QED
      BY <1>2, <3>1, <3>2
  <2> QED
    BY <2>1, <2>2
<1>11. Covers(es, <<>>, u, done)
  <2> SUFFICES ASSUME NEW e \in es
               PROVE  \E p \in 1..k : e \in ToSet(u[p])
    BY <1>8 DEF Covers
  <2>1. PICK i \in 1..n : s[i] = e
    BY <1>2
  <2>2. (i - 1) \div PageSize + 1 \in 1..k
    BY <1>2, <1>4, PageExists
  <2>3. PICK p \in 1..k : p = (i - 1) \div PageSize + 1
    BY <2>2
  <2> QED
    BY <1>7, <2>1, <2>3
<1>12. <<>> \in Seq(CloudLog) /\ Distinct(<<>>) /\ ToSet(<<>>) = {}
  BY EmptyHasNone DEF Distinct
<1>13. Spread(es, <<>>, u, done)
  BY <1>7, <1>8, <1>10, <1>12 DEF Spread
<1> QED
  BY <1>4, <1>11, <1>13

-----------------------------------------------------------------------------
Streams == {"trail", "signin", "audit"} \cup Duty
PollJobs ==
  [on : {TRUE}, todo : Seq(Streams), lookback : Lookbacks, expires : Nat,
   stream : Streams \cup {"none"}, header : Nat, asked : SUBSET CloudLog,
   pages : Seq(Seq(CloudLog)), page : Seq(CloudLog), whole : BOOLEAN]

(* What is handed over is of streams that are over, or of the one that is  *)
(* open and of its window.                                                 *)
OfPastStreams(j, done) ==
  /\ \A e \in done : e.stream \notin ToSet(j.todo)
  /\ IF j.stream = "none" THEN j.asked = {}
     ELSE /\ \A e \in j.asked : e.stream = j.stream
          /\ \A e \in done : e.stream = j.stream => e \in j.asked

JobInv(j, done) ==
  /\ j \in PollJobs
  /\ Distinct(j.todo) /\ j.stream \notin ToSet(j.todo)
  /\ Spread(j.asked, j.page, j.pages, done)
  /\ j.whole => Covers(UpToMaxItems(j.stream, j.asked), j.page, j.pages, done)
  /\ OfPastStreams(j, done)

PollInv ==
  /\ handed \in Seq(CloudLog) /\ Distinct(handed)
  /\ pollJob = NoJob \/ JobInv(pollJob, ToSet(handed))

LEMMA NoneIsNoStream == "none" \notin Streams
BY CloudAssumption DEF Streams, Duty

LEMMA StreamsInOrder ==
  ASSUME NEW provider
  PROVE  /\ StreamsOf(provider) \in Seq(Streams) /\ Distinct(StreamsOf(provider))
         /\ "none" \notin ToSet(StreamsOf(provider))
<1>1. /\ "none" \notin Streams /\ "trail" \notin Duty
      /\ "trail" \in Streams /\ "signin" \in Streams /\ "audit" \in Streams /\ Duty \subseteq Streams
  BY CloudAssumption DEF Streams, Duty
<1>2. /\ <<"signin", "audit">> \in Seq(Streams) /\ Distinct(<<"signin", "audit">>)
  <2>1. PICK s : s = <<"signin", "audit">>
    OBVIOUS
  <2>2. s \in Seq(Streams) /\ Len(s) = 2 /\ s[1] = "signin" /\ s[2] = "audit"
    BY <1>1, <2>1
  <2>3. Distinct(s)
    BY <2>2 DEF Distinct
  <2> QED
    BY <2>1, <2>2, <2>3
<1>3. <<"trail">> \o Detectors \in Seq(Streams) /\ Distinct(<<"trail">> \o Detectors)
  <2>1. PICK D, n : D = Detectors /\ n = Len(D)
    OBVIOUS
  <2>2. D \in Seq(Duty) /\ n \in Nat /\ DOMAIN D = 1..n /\ \A i \in 1..n : D[i] \in Duty
    BY <2>1, CloudAssumption, LenProperties, ElementOfSeq DEF Duty
  <2>3. \A i, k \in 1..n : D[i] = D[k] => i = k
    BY <2>1, <2>2, CloudAssumption DEF IsInjective
  <2>4. PICK s : s = <<"trail">> \o D
    OBVIOUS
  <2>5. D \in Seq(Streams) /\ <<"trail">> \in Seq(Streams)
    BY <1>1, <2>2
  <2>6. /\ s \in Seq(Streams) /\ Len(s) = n + 1
        /\ \A i \in 1..(n + 1) : s[i] = IF i = 1 THEN "trail" ELSE D[i - 1]
    BY <2>1, <2>2, <2>4, <2>5
  <2>7. ASSUME NEW i \in 1..(n + 1), NEW k \in 1..(n + 1), s[i] = s[k]
        PROVE  i = k
    <3>1. \A m \in 1..(n + 1) : m # 1 => m - 1 \in 1..n /\ s[m] \in Duty
      BY <2>2, <2>6
    <3>2. CASE i = 1 \/ k = 1
      BY <1>1, <2>6, <2>7, <3>1, <3>2
    <3>3. CASE i # 1 /\ k # 1
      <4>1. i - 1 \in 1..n /\ k - 1 \in 1..n /\ D[i - 1] = D[k - 1]
        BY <2>6, <2>7, <3>1, <3>3
      <4>2. i - 1 = k - 1
        BY <2>3, <4>1
      <4> QED
        BY <2>2, <4>2
    <3> QED
      BY <3>2, <3>3
  <2>8. Distinct(s)
    BY <2>6, <2>7 DEF Distinct
  <2> QED
    BY <2>1, <2>4, <2>6, <2>8
<1>4. \A s \in Seq(Streams) : "none" \notin ToSet(s)
  BY <1>1, ElementsOf
<1> QED
  BY <1>2, <1>3, <1>4 DEF StreamsOf

LEMMA PollStarts ==
  ASSUME PollInv, NEW provider, NEW lookback \in Lookbacks, TriggerCollection(provider, lookback)
  PROVE  PollInv'
<1>1. PICK t : t = StreamsOf(provider)
  OBVIOUS
<1>2. t \in Seq(Streams) /\ Distinct(t) /\ "none" \notin ToSet(t)
  BY <1>1, StreamsInOrder
<1>3. PICK j : j = pollJob'
  OBVIOUS
<1>4. j = [on |-> TRUE, todo |-> t, lookback |-> lookback, expires |-> 0,
           stream |-> "none", header |-> 0, asked |-> {}, pages |-> <<>>, page |-> <<>>,
           whole |-> TRUE]
  BY <1>1, <1>3 DEF TriggerCollection
<1>5. /\ <<>> \in Seq(CloudLog) /\ <<>> \in Seq(Seq(CloudLog)) /\ Distinct(<<>>)
      /\ ToSet(<<>>) = {} /\ Len(<<>>) = 0
  BY EmptyHasNone DEF Distinct
<1>6. j \in PollJobs
  BY <1>2, <1>4, <1>5 DEF PollJobs
<1>7. Spread({}, <<>>, <<>>, {}) /\ Covers(UpToMaxItems("none", {}), <<>>, <<>>, {})
  BY <1>5 DEF Spread, Covers, UpToMaxItems
<1>8. JobInv(j, {})
  BY <1>2, <1>4, <1>6, <1>7 DEF JobInv, OfPastStreams
<1> QED
  BY <1>3, <1>5, <1>8 DEF PollInv, TriggerCollection

(* A stream is opened: its window is on pages, none of it handed over yet. *)
LEMMA OpenedKeeps ==
  ASSUME NEW done \in SUBSET CloudLog, JobInv(pollJob, done), Between, NEW expires \in Nat
  PROVE  JobInv(Opened(expires), done)
<1>1. PICK j, h, t, es : /\ j = pollJob /\ h = Head(j.todo) /\ t = Tail(j.todo)
                         /\ es = InWindow(h, j.lookback)
  OBVIOUS
<1>2. j \in PollJobs /\ Distinct(j.todo) /\ j.todo \in Seq(Streams) /\ j.todo # <<>>
  BY <1>1 DEF JobInv, Between, PollJobs
<1>3. /\ h \in Streams /\ t \in Seq(Streams) /\ Distinct(t)
      /\ ToSet(j.todo) = ToSet(t) \cup {h} /\ h \notin ToSet(t)
  BY <1>1, <1>2, RestOfDistinct
<1>4. es \in SUBSET CloudLog /\ \A e \in es : e.stream = h
  BY <1>1 DEF InWindow
<1>5. \A e \in done : e.stream # h /\ e.stream \notin ToSet(t)
  BY <1>1, <1>3 DEF JobInv, OfPastStreams
<1> DEFINE fs == UpToMaxItems(h, es)
<1>6. Spread(es, <<>>, Pages(fs), done) /\ Covers(fs, <<>>, Pages(fs), done)
  <2>1. fs \in SUBSET es
    BY DEF UpToMaxItems
  <2>2. done \cap fs = {} /\ fs \in SUBSET CloudLog
    BY <1>4, <1>5, <2>1
  <2> HIDE DEF fs
  <2>3. Spread(fs, <<>>, Pages(fs), done) /\ Covers(fs, <<>>, Pages(fs), done)
    BY <2>2, PagesSpread
  <2> QED
    BY <2>1, <2>3 DEF Spread
<1>7. PICK u, k : u = Pages(fs) /\ k = Opened(expires)
  OBVIOUS
<1>8. u \in Seq(Seq(CloudLog)) /\ <<>> \in Seq(CloudLog)
  BY <1>6, <1>7 DEF Spread
<1>9. k = [j EXCEPT !.stream = h, !.todo = t, !.asked = es, !.expires = expires,
                    !.header = expires, !.page = <<>>, !.pages = u, !.whole = TRUE]
  BY <1>1, <1>7 DEF Opened
<1>10. /\ k \in PollJobs /\ k.stream = h /\ k.todo = t /\ k.asked = es
       /\ k.page = <<>> /\ k.pages = u /\ k.whole = TRUE
  BY <1>2, <1>3, <1>4, <1>8, <1>9 DEF PollJobs
<1>11. h # "none"
  BY <1>3, NoneIsNoStream
<1>12. OfPastStreams(k, done)
  BY <1>4, <1>5, <1>10, <1>11 DEF OfPastStreams
<1> QED
  BY <1>3, <1>6, <1>7, <1>10, <1>12 DEF JobInv

LEMMA NextStreamKeeps ==
  ASSUME NEW done, JobInv(pollJob, done)
  PROVE  JobInv(NextStream, done)
<1>1. PICK j, k : j = pollJob /\ k = NextStream
  OBVIOUS
<1>2. j \in PollJobs /\ k = [j EXCEPT !.stream = "none", !.pages = <<>>, !.page = <<>>, !.asked = {}]
  BY <1>1 DEF JobInv, NextStream
<1>3. /\ <<>> \in Seq(CloudLog) /\ <<>> \in Seq(Seq(CloudLog)) /\ Distinct(<<>>)
      /\ ToSet(<<>>) = {} /\ Len(<<>>) = 0
  BY EmptyHasNone DEF Distinct
<1>4. /\ k \in PollJobs /\ k.stream = "none" /\ k.pages = <<>> /\ k.page = <<>> /\ k.asked = {}
      /\ k.todo = j.todo
  BY <1>2, <1>3 DEF PollJobs
<1>5. Spread({}, <<>>, <<>>, done) /\ Covers(UpToMaxItems("none", {}), <<>>, <<>>, done)
  BY <1>3 DEF Spread, Covers, UpToMaxItems
<1>6. "none" \notin ToSet(j.todo)
  <2>1. j.todo \in Seq(Streams)
    BY <1>2 DEF PollJobs
  <2>2. ToSet(j.todo) \subseteq Streams
    BY <2>1, ElementsOf
  <2> QED
    BY <2>2, NoneIsNoStream
<1>7. OfPastStreams(k, done)
  BY <1>1, <1>4 DEF JobInv, OfPastStreams
<1> QED
  BY <1>1, <1>4, <1>5, <1>6, <1>7 DEF JobInv

(* The next page comes, or is skipped.                                     *)
LEMMA PageKeeps ==
  ASSUME NEW done, JobInv(pollJob, done), pollJob.page = <<>>, pollJob.pages # <<>>
  PROVE  /\ JobInv(NextPage(TRUE), done)
         /\ JobInv([pollJob EXCEPT !.pages = Tail(@), !.whole = FALSE], done)
<1>1. PICK j, h, t : j = pollJob /\ h = Head(j.pages) /\ t = Tail(j.pages)
  OBVIOUS
<1>2. j \in PollJobs /\ Spread(j.asked, <<>>, j.pages, done)
  BY <1>1 DEF JobInv
<1>3. Spread(j.asked, h, t, done) /\ Spread(j.asked, <<>>, t, done)
  BY <1>1, <1>2, NextPageSpread, DroppedPageSpread
<1>4. j.whole => Covers(UpToMaxItems(j.stream, j.asked), h, t, done)
  BY <1>1, <1>2, NextPageSpread DEF JobInv
<1>5. h \in Seq(CloudLog) /\ t \in Seq(Seq(CloudLog)) /\ j.whole \in BOOLEAN
  BY <1>2, <1>3 DEF Spread, PollJobs
<1>6. PICK k : k = NextPage(TRUE)
  OBVIOUS
<1>7. PICK m : m = [pollJob EXCEPT !.pages = Tail(@), !.whole = FALSE]
  OBVIOUS
<1>8. /\ k \in PollJobs /\ k.stream = j.stream /\ k.todo = j.todo /\ k.asked = j.asked
      /\ k.page = h /\ k.pages = t /\ k.whole = j.whole
  <2>1. k = [j EXCEPT !.page = h, !.pages = t, !.whole = j.whole]
    BY <1>1, <1>2, <1>5, <1>6 DEF NextPage
  <2> QED
    BY <1>2, <1>5, <2>1 DEF PollJobs
<1>9. /\ m \in PollJobs /\ m.stream = j.stream /\ m.todo = j.todo /\ m.asked = j.asked
      /\ m.page = <<>> /\ m.pages = t /\ m.whole = FALSE
  <2>1. m = [j EXCEPT !.pages = t, !.whole = FALSE]
    BY <1>1, <1>2, <1>7
  <2> QED
    BY <1>1, <1>2, <1>5, <2>1 DEF PollJobs
<1>10. JobInv(k, done)
  BY <1>1, <1>3, <1>4, <1>8 DEF JobInv, OfPastStreams
<1>11. JobInv(m, done)
  BY <1>1, <1>3, <1>9 DEF JobInv, OfPastStreams
<1> QED
  BY <1>6, <1>7, <1>10, <1>11

(* A record of the page is handed over: it was not before.                 *)
LEMMA HandOverKeeps ==
  ASSUME NEW done, JobInv(pollJob, done), pollJob.page # <<>>
  PROVE  /\ Head(pollJob.page) \in CloudLog /\ Head(pollJob.page) \notin done
         /\ JobInv([pollJob EXCEPT !.page = Tail(@)], done \cup {Head(pollJob.page)})
<1>1. PICK j, h, t : j = pollJob /\ h = Head(j.page) /\ t = Tail(j.page)
  OBVIOUS
<1>2. j \in PollJobs /\ Spread(j.asked, j.page, j.pages, done)
  BY <1>1 DEF JobInv
<1>3. /\ h \in j.asked \cap CloudLog /\ h \notin done
      /\ Spread(j.asked, t, j.pages, done \cup {h})
      /\ j.whole => Covers(UpToMaxItems(j.stream, j.asked), t, j.pages, done \cup {h})
  <2>1. PICK es, fs : es = j.asked /\ fs = UpToMaxItems(j.stream, j.asked)
    OBVIOUS
  <2>2. /\ Spread(es, j.page, j.pages, done) /\ j.page # <<>>
        /\ j.whole => Covers(fs, j.page, j.pages, done)
    BY <1>1, <1>2, <2>1 DEF JobInv
  <2>3. /\ h \in es \cap CloudLog /\ h \notin done
        /\ Spread(es, t, j.pages, done \cup {h})
        /\ Covers(fs, j.page, j.pages, done) => Covers(fs, t, j.pages, done \cup {h})
    BY <1>1, <2>2, HandedSpread
  <2> QED
    BY <2>1, <2>2, <2>3
<1>4. t \in Seq(CloudLog)
  BY <1>3 DEF Spread
<1>5. PICK k : k = [pollJob EXCEPT !.page = Tail(@)]
  OBVIOUS
<1>6. /\ k \in PollJobs /\ k.stream = j.stream /\ k.todo = j.todo /\ k.asked = j.asked
      /\ k.page = t /\ k.pages = j.pages /\ k.whole = j.whole
  <2>1. k = [j EXCEPT !.page = t]
    BY <1>1, <1>2, <1>5
  <2> QED
    BY <1>2, <1>4, <2>1 DEF PollJobs
<1>7. j.stream # "none" /\ h.stream = j.stream /\ j.stream \notin ToSet(j.todo)
  BY <1>1, <1>3 DEF JobInv, OfPastStreams
<1>8. OfPastStreams(k, done \cup {h})
  BY <1>1, <1>3, <1>6, <1>7 DEF JobInv, OfPastStreams
<1>9. JobInv(k, done \cup {h})
  BY <1>1, <1>3, <1>6, <1>8 DEF JobInv
<1> QED
  BY <1>1, <1>3, <1>5, <1>9

(* A stream that is not opened is passed over.                             *)
LEMMA PassedOverKeeps ==
  ASSUME NEW done, JobInv(pollJob, done), Between
  PROVE  JobInv([pollJob EXCEPT !.todo = Tail(@)], done)
<1>1. PICK j, t : j = pollJob /\ t = Tail(j.todo)
  OBVIOUS
<1>2. j \in PollJobs /\ Distinct(j.todo) /\ j.todo \in Seq(Streams) /\ j.todo # <<>>
  BY <1>1 DEF JobInv, Between, PollJobs
<1>3. t \in Seq(Streams) /\ Distinct(t) /\ ToSet(t) \subseteq ToSet(j.todo)
  BY <1>1, <1>2, RestOfDistinct
<1>4. PICK k : k = [pollJob EXCEPT !.todo = Tail(@)]
  OBVIOUS
<1>5. /\ k \in PollJobs /\ k.stream = j.stream /\ k.todo = t /\ k.asked = j.asked
      /\ k.page = j.page /\ k.pages = j.pages /\ k.whole = j.whole
  <2>1. k = [j EXCEPT !.todo = t]
    BY <1>1, <1>2, <1>4
  <2> QED
    BY <1>2, <1>3, <2>1 DEF PollJobs
<1>6. JobInv(k, done)
  BY <1>1, <1>3, <1>5 DEF JobInv, OfPastStreams
<1> QED
  BY <1>4, <1>6

(* There are no findings in this task.                                     *)
LEMMA NoDetectorKeeps ==
  ASSUME NEW done, JobInv(pollJob, done)
  PROVE  JobInv([pollJob EXCEPT !.todo = <<>>], done)
<1>1. PICK j, k : j = pollJob /\ k = [pollJob EXCEPT !.todo = <<>>]
  OBVIOUS
<1>2. <<>> \in Seq(Streams) /\ Distinct(<<>>) /\ ToSet(<<>>) = {}
  BY EmptyHasNone DEF Distinct
<1>3. j \in PollJobs /\ k = [j EXCEPT !.todo = <<>>]
  BY <1>1 DEF JobInv
<1>4. /\ k \in PollJobs /\ k.stream = j.stream /\ k.todo = <<>> /\ k.asked = j.asked
      /\ k.page = j.page /\ k.pages = j.pages /\ k.whole = j.whole
  BY <1>2, <1>3 DEF PollJobs
<1>5. JobInv(k, done)
  BY <1>1, <1>2, <1>4 DEF JobInv, OfPastStreams
<1> QED
  BY <1>1, <1>5

CloudTypes ==
  /\ time \in 0..LastHour /\ jobs \in 0..MaxJobs /\ receives \in 0..MaxReceives
  /\ queue \in [Messages -> {"unsent", "queued", "inflight", "gone"}]

LEMMA PollStepKeeps ==
  ASSUME PollInv, CloudTypes, PollNext
  PROVE  PollInv'
<1>1. PICK done : done = ToSet(handed) /\ done \in SUBSET CloudLog
  BY ElementsOf DEF PollInv
<1>2. /\ ~NoJob.on
      /\ pollJob.on => JobInv(pollJob, done)
  BY <1>1 DEF PollInv, NoJob
<1>3. ASSUME UNCHANGED handed, pollJob' = NoJob \/ JobInv(pollJob', done)
      PROVE  PollInv'
  BY <1>1, <1>3 DEF PollInv
<1>4. ASSUME NEW provider, NEW lookback \in Lookbacks, TriggerCollection(provider, lookback)
      PROVE  PollInv'
  BY <1>4, PollStarts
<1>5. CASE OpenAws
  <2>1. Between /\ JobInv(pollJob, done) /\ UNCHANGED handed
    BY <1>2, <1>5 DEF OpenAws, Between
  <2>2. CASE pollJob' = Opened(0)
    BY <1>1, <1>3, <2>1, <2>2, OpenedKeeps
  <2>3. CASE pollJob' = [pollJob EXCEPT !.todo = Tail(@)]
    BY <1>3, <2>1, <2>3, PassedOverKeeps
  <2>4. CASE pollJob' = NoJob
    BY <1>3, <2>1, <2>4
  <2> QED
    BY <1>5, <2>2, <2>3, <2>4 DEF OpenAws
<1>6. CASE OpenAzure
  <2>1. Between /\ JobInv(pollJob, done) /\ UNCHANGED handed
    BY <1>2, <1>6 DEF OpenAzure, Between
  <2>2. pollJob.expires \in Nat /\ time + TokenLife \in Nat
    BY <2>1, CloudAssumption DEF JobInv, PollJobs, CloudTypes
  <2>3. CASE pollJob' = Opened(pollJob.expires)
    BY <1>1, <1>3, <2>1, <2>2, <2>3, OpenedKeeps
  <2>4. CASE pollJob' = Opened(time + TokenLife)
    BY <1>1, <1>3, <2>1, <2>2, <2>4, OpenedKeeps
  <2>5. CASE pollJob' = NoJob
    BY <1>3, <2>1, <2>5
  <2> QED
    BY <1>6, <2>3, <2>4, <2>5 DEF OpenAzure
<1>7. CASE FetchPage
  <2>1. /\ JobInv(pollJob, done) /\ UNCHANGED handed
        /\ pollJob.page = <<>> /\ pollJob.pages # <<>> /\ pollJob' = NextPage(TRUE)
    BY <1>2, <1>7 DEF FetchPage, Running
  <2> QED
    BY <1>3, <2>1, PageKeeps
<1>8. CASE RateLimited
  BY <1>2, <1>3, <1>8 DEF RateLimited, Running, SamePage
<1>9. CASE PageFails
  <2>1. /\ JobInv(pollJob, done) /\ UNCHANGED handed
        /\ pollJob.page = <<>> /\ pollJob.pages # <<>>
    BY <1>2, <1>9 DEF PageFails
  <2>2. CASE pollJob' = [pollJob EXCEPT !.pages = Tail(@), !.whole = FALSE]
    BY <1>3, <2>1, <2>2, PageKeeps
  <2>3. CASE pollJob' = NextStream
    BY <1>3, <2>1, <2>3, NextStreamKeeps
  <2>4. CASE pollJob' = NoJob
    BY <1>3, <2>1, <2>4
  <2> QED
    BY <1>9, <2>2, <2>3, <2>4 DEF PageFails
<1>10. CASE HandOver
  <2>1. JobInv(pollJob, done) /\ pollJob.page # <<>>
    BY <1>2, <1>10 DEF HandOver
  <2>2. CASE UNCHANGED handed /\ pollJob' = NextStream
    BY <1>3, <2>1, <2>2, NextStreamKeeps
  <2>3. CASE UNCHANGED handed /\ pollJob' = NoJob
    BY <1>3, <2>3
  <2>4. CASE /\ pollJob' = [pollJob EXCEPT !.page = Tail(@)]
             /\ handed' = Append(handed, Head(pollJob.page))
    <3>1. PICK h : h = Head(pollJob.page)
      OBVIOUS
    <3>2. h \in CloudLog /\ h \notin done /\ JobInv(pollJob', done \cup {h})
      BY <2>1, <2>4, <3>1, HandOverKeeps
    <3>3. handed' \in Seq(CloudLog) /\ Distinct(handed') /\ ToSet(handed') = done \cup {h}
      <4>1. handed \in Seq(CloudLog) /\ Distinct(handed) /\ h \notin ToSet(handed)
        BY <1>1, <3>2 DEF PollInv
      <4>2. PICK u : u = Append(handed, h)
        OBVIOUS
      <4>3. u \in Seq(CloudLog) /\ Distinct(u) /\ ToSet(u) = ToSet(handed) \cup {h}
        BY <3>2, <4>1, <4>2, AppendedOfDistinct
      <4> QED
        BY <1>1, <2>4, <3>1, <4>2, <4>3
    <3> QED
      BY <3>2, <3>3 DEF PollInv
  <2> QED
    BY <1>10, <2>2, <2>3, <2>4 DEF HandOver
<1>11. CASE EndStream
  BY <1>2, <1>3, <1>11, NextStreamKeeps DEF EndStream
<1>12. CASE EndJob
  BY <1>3, <1>12 DEF EndJob
<1>13. CASE ListDetectorsFails
  BY <1>2, <1>3, <1>13, NoDetectorKeeps DEF ListDetectorsFails, Between
<1> QED
  BY <1>13, <1>4, <1>5, <1>6, <1>7, <1>8, <1>9, <1>10, <1>11, <1>12 DEF PollNext

-----------------------------------------------------------------------------
(* What was read of the message in hand, up to its file and record.        *)
Done(f) == f \in given \/ \A r \in DOMAIN Records[f] : <<f, r>> \in yielded

ReadSoFar ==
  messages # <<>> /\ Files[Head(messages)] # BadBody =>
    LET fs == Files[Head(messages)]
    IN  /\ \A i \in 1..Len(fs) : i < file => Done(fs[i])
        /\ file <= Len(fs) /\ record > 0 =>
             /\ record <= Len(Records[fs[file]])
             /\ \A r \in 1..(record - 1) : <<fs[file], r>> \in yielded

QueueInv ==
  /\ messages \in Seq(Messages) /\ file \in Nat \ {0} /\ record \in Nat
  /\ ReadSoFar
  /\ DeletedWasRead

(* Nothing that was given out or given up is forgotten.                    *)
LEMMA DeletedStays ==
  ASSUME DeletedWasRead, yielded \subseteq yielded', given \subseteq given',
         \A m \in Messages : queue'[m] = "gone" => queue[m] = "gone"
  PROVE  DeletedWasRead'
BY DEF DeletedWasRead

LEMMA FilesTyped ==
  ASSUME NEW m \in Messages, Files[m] # BadBody
  PROVE  /\ Len(Files[m]) \in Nat
         /\ \A i \in 1..Len(Files[m]) : /\ Files[m][i] \in DOMAIN Records
                                        /\ Len(Records[Files[m][i]]) \in Nat
                                        /\ DOMAIN Records[Files[m][i]] = 1..Len(Records[Files[m][i]])
         /\ Range(Files[m]) = {Files[m][i] : i \in 1..Len(Files[m])}
<1>1. Files[m] \in Seq(DOMAIN Records)
  BY CloudAssumption
<1>2. \A f \in DOMAIN Records : Len(Records[f]) \in Nat /\ DOMAIN Records[f] = 1..Len(Records[f])
  BY CloudAssumption, LenProperties
<1>3. \A i \in 1..Len(Files[m]) : Files[m][i] \in DOMAIN Records
  BY <1>1, ElementOfSeq
<1>4. Range(Files[m]) = {Files[m][i] : i \in 1..Len(Files[m])}
  BY <1>1, LenProperties DEF Range
<1> QED
  BY <1>1, <1>2, <1>3, <1>4, LenProperties

(* The next message: nothing of it has been read.                          *)
LEMMA NothingRead ==
  ASSUME file' = 1, record' = 0, messages' \in Seq(Messages)
  PROVE  ReadSoFar'
<1> SUFFICES ASSUME messages' # <<>>, Files[Head(messages')] # BadBody
             PROVE  \A i \in 1..Len(Files[Head(messages')]) : ~(i < file')
  BY DEF ReadSoFar
<1> QED
  OBVIOUS

(* Reading goes on within the message in hand, and forgets nothing.        *)
LEMMA ReadingKeeps ==
  ASSUME QueueInv, GiveUpFile \/ Download \/ YieldRecord
  PROVE  QueueInv'
<1>1. PICK m, fs : m = Head(messages) /\ fs = Files[m]
  OBVIOUS
<1>2. /\ messages # <<>> /\ fs # BadBody /\ file <= Len(fs) /\ m \in Messages
      /\ UNCHANGED <<queue, messages>>
  <2>1. AtFile
    BY DEF GiveUpFile, Download, YieldRecord
  <2> QED
    BY <1>1, <2>1, FirstAndRest DEF AtFile, Parsed, Current, QueueInv, GiveUpFile, Download, YieldRecord
<1>3. PICK n, i, r : n = Len(fs) /\ i = file /\ r = record
  OBVIOUS
<1>4. n \in Nat /\ i \in 1..n /\ r \in Nat
  BY <1>1, <1>2, <1>3, FilesTyped DEF QueueInv
<1>5. /\ \A k \in 1..n : k < i => Done(fs[k])
      /\ r > 0 => r <= Len(Records[fs[i]]) /\ \A q \in 1..(r - 1) : <<fs[i], q>> \in yielded
  BY <1>1, <1>2, <1>3, <1>4 DEF QueueInv, ReadSoFar
<1>6. yielded \subseteq yielded' /\ given \subseteq given'
  BY DEF GiveUpFile, Download, YieldRecord
<1>7. DeletedWasRead'
  BY <1>2, <1>6, DeletedStays DEF QueueInv
<1>8. \A f : Done(f) => Done(f)'
  BY <1>6 DEF Done
<1>9. TheFile = fs[i]
  BY <1>1, <1>3 DEF TheFile, Current
<1>10. ASSUME file' = i + 1, record' = 0, Done(fs[i])'
       PROVE  QueueInv'
  <2>1. \A k \in 1..n : k < i + 1 => Done(fs[k])'
    <3>1. \A k \in 1..n : k < i + 1 => k < i \/ k = i
      BY <1>4
    <3> QED
      BY <1>5, <1>8, <1>10, <3>1
  <2>2. ReadSoFar'
    BY <1>1, <1>2, <1>3, <1>10, <2>1 DEF ReadSoFar
  <2> QED
    BY <1>2, <1>4, <1>7, <1>10, <2>2 DEF QueueInv
<1>11. ASSUME file' = i, NEW x \in Nat, record' = x, x > 0, x <= Len(Records[fs[i]]),
              \A q \in 1..(x - 1) : <<fs[i], q>> \in yielded'
       PROVE  QueueInv'
  <2>1. \A k \in 1..n : k < i => Done(fs[k])'
    BY <1>5, <1>8
  <2>2. ReadSoFar'
    BY <1>1, <1>2, <1>3, <1>11, <2>1 DEF ReadSoFar
  <2> QED
    BY <1>2, <1>4, <1>7, <1>11, <2>2 DEF QueueInv
<1>12. PICK l \in Nat : l = Len(Records[fs[i]]) /\ DOMAIN Records[fs[i]] = 1..l
  BY <1>1, <1>2, <1>3, <1>4, FilesTyped
<1>13. CASE GiveUpFile
  BY <1>3, <1>9, <1>10, <1>13 DEF GiveUpFile, Done
<1>14. CASE Download
  BY <1>3, <1>9, <1>10, <1>11, <1>12, <1>14 DEF Download, Done
<1>15. CASE YieldRecord
  <2>1. r > 0 /\ r <= l /\ yielded' = yielded \cup {<<fs[i], r>>}
    BY <1>3, <1>4, <1>5, <1>9, <1>12, <1>15 DEF YieldRecord
  <2>2. \A q \in 1..r : <<fs[i], q>> \in yielded'
    <3>1. \A q \in 1..r : q \in 1..(r - 1) \/ q = r
      BY <1>4
    <3> QED
      BY <1>5, <2>1, <3>1
  <2>3. CASE r = l
    <3>1. file' = i + 1 /\ record' = 0
      BY <1>3, <1>9, <1>12, <1>15, <2>3 DEF YieldRecord
    <3>2. Done(fs[i])'
      BY <1>12, <2>2, <2>3 DEF Done
    <3> QED
      BY <1>10, <3>1, <3>2
  <2>4. CASE r # l
    <3>1. file' = i /\ record' = r + 1
      BY <1>3, <1>9, <1>12, <1>15, <2>4 DEF YieldRecord
    <3>2. r + 1 \in Nat /\ r + 1 > 0 /\ r + 1 <= l /\ (r + 1) - 1 = r
      BY <1>4, <1>12, <2>1, <2>4
    <3> QED
      BY <1>11, <1>12, <2>2, <3>1, <3>2
  <2> QED
    BY <2>3, <2>4
<1> QED
  BY <1>13, <1>14, <1>15

LEMMA QueueStepKeeps ==
  ASSUME QueueInv, CloudTypes, QueueNext
  PROVE  QueueInv' /\ CloudTypes'
<1>1. ASSUME file' = 1, record' = 0, messages' \in Seq(Messages), DeletedWasRead'
      PROVE  QueueInv'
  BY <1>1, NothingRead DEF QueueInv
<1>2. messages # <<>> => Head(messages) \in Messages /\ Tail(messages) \in Seq(Messages)
  BY FirstAndRest DEF QueueInv
<1>3. ASSUME NEW m \in Messages, Notify(m) \/ VisibleAgain(m)
      PROVE  QueueInv' /\ CloudTypes'
  <2>1. queue' = [queue EXCEPT ![m] = "queued"] /\ queue[m] # "gone"
    BY <1>3 DEF Notify, VisibleAgain
  <2>2. UNCHANGED <<time, jobs, messages, file, record, receives, yielded, given>>
    BY <1>3 DEF Notify, VisibleAgain, pollVars
  <2>3. DeletedWasRead'
    BY <2>1, <2>2, DeletedStays DEF QueueInv, CloudTypes
  <2>4. CloudTypes'
    BY <2>1, <2>2 DEF CloudTypes
  <2> QED
    BY <2>2, <2>3, <2>4 DEF QueueInv, ReadSoFar, Done
<1>4. CASE ReceiveMessages
  <2>1. PICK ms \in SUBSET {m \in Messages : queue[m] = "queued"} :
          /\ messages' \in SetToSeqs(ms)
          /\ queue' = [m \in Messages |-> IF m \in ms THEN "inflight" ELSE queue[m]]
    BY <1>4 DEF ReceiveMessages
  <2>2. /\ UNCHANGED <<time, jobs, yielded, given>> /\ file' = 1 /\ record' = 0
        /\ receives' = receives + 1 /\ receives < MaxReceives
    BY <1>4 DEF ReceiveMessages, pollVars
  <2>3. messages' \in Seq(Messages)
    <3>1. PICK n : n = Cardinality(ms) /\ n \in Nat
      BY CloudAssumption, FS_Subset, FS_CardinalityType
    <3>2. PICK b : b = messages'
      OBVIOUS
    <3>3. b \in [1..n -> Messages]
      BY <2>1, <3>1, <3>2 DEF SetToSeqs
    <3>4. [i \in 1..n |-> b[i]] \in Seq(Messages) /\ b = [i \in 1..n |-> b[i]]
      BY <3>1, <3>3, IsASeq
    <3> QED
      BY <3>2, <3>4
  <2>4. \A m \in Messages : queue'[m] = "gone" => queue[m] = "gone"
    BY <2>1
  <2>5. DeletedWasRead'
    BY <2>2, <2>4, DeletedStays DEF QueueInv
  <2>6. CloudTypes'
    BY <2>1, <2>2, CloudAssumption DEF CloudTypes
  <2> QED
    BY <1>1, <2>2, <2>3, <2>5, <2>6
<1>5. CASE ProcessingFails
  <2>1. /\ UNCHANGED <<time, jobs, receives, yielded, given, queue>> /\ messages # <<>>
        /\ file' = 1 /\ record' = 0 /\ messages' = Tail(messages)
    BY <1>5 DEF ProcessingFails, NextMessage, LeftInQueue, pollVars
  <2>2. DeletedWasRead'
    BY <2>1, DeletedStays DEF QueueInv
  <2> QED
    BY <1>1, <1>2, <2>1, <2>2 DEF CloudTypes
<1>6. CASE GiveUpFile \/ Download \/ YieldRecord
  <2>1. UNCHANGED <<time, jobs, receives, queue>>
    BY <1>6 DEF GiveUpFile, Download, YieldRecord, pollVars
  <2> QED
    BY <1>6, <2>1, ReadingKeeps DEF CloudTypes
<1>7. CASE DeleteMessage
  <2>1. PICK m : m = Head(messages)
    OBVIOUS
  <2>2. /\ UNCHANGED <<time, jobs, receives, yielded, given>> /\ messages # <<>>
        /\ file' = 1 /\ record' = 0 /\ messages' = Tail(messages)
        /\ Files[m] # BadBody /\ file > Len(Files[m])
        /\ queue' = [queue EXCEPT ![m] = "gone"] \/ queue' = queue
    BY <1>7, <2>1 DEF DeleteMessage, NextMessage, Parsed, Current, pollVars
  <2>3. m \in Messages /\ messages' \in Seq(Messages)
    BY <1>2, <2>1, <2>2
  <2>4. \A f \in Range(Files[m]) : Done(f)
    <3>1. \A i \in 1..Len(Files[m]) : i < file
      BY <2>2, <2>3, FilesTyped DEF QueueInv
    <3>2. \A i \in 1..Len(Files[m]) : Done(Files[m][i])
      BY <2>1, <2>2, <3>1 DEF QueueInv, ReadSoFar
    <3> QED
      BY <2>2, <2>3, <3>2, FilesTyped
  <2>5. DeletedWasRead'
    BY <2>2, <2>3, <2>4 DEF DeletedWasRead, QueueInv, CloudTypes, Done
  <2>6. CloudTypes'
    BY <2>2, <2>3 DEF CloudTypes
  <2> QED
    BY <1>1, <2>2, <2>3, <2>5, <2>6
<1>8. CASE StreamRestarts
  <2>1. /\ UNCHANGED <<time, jobs, receives, yielded, given, queue>>
        /\ file' = 1 /\ record' = 0 /\ messages' = <<>>
    BY <1>8 DEF StreamRestarts, pollVars
  <2>2. DeletedWasRead'
    BY <2>1, DeletedStays DEF QueueInv
  <2>3. <<>> \in Seq(Messages)
    OBVIOUS
  <2> QED
    BY <1>1, <2>1, <2>2, <2>3 DEF CloudTypes
<1> QED
  BY <1>3, <1>4, <1>5, <1>6, <1>7, <1>8 DEF QueueNext

-----------------------------------------------------------------------------
CloudInv == CloudTypes /\ PollInv /\ QueueInv

LEMMA CloudInitial == CloudInit => CloudInv
<1> SUFFICES ASSUME CloudInit PROVE CloudInv
  OBVIOUS
<1>1. /\ <<>> \in Seq(CloudLog) /\ <<>> \in Seq(Messages) /\ Distinct(<<>>)
  BY DEF Distinct
<1>2. CloudTypes
  BY CloudAssumption DEF CloudInit, CloudTypes
<1>3. PollInv
  BY <1>1 DEF CloudInit, PollInv
<1>4. QueueInv
  BY <1>1 DEF CloudInit, QueueInv, ReadSoFar, DeletedWasRead
<1> QED
  BY <1>2, <1>3, <1>4 DEF CloudInv

LEMMA CloudInductive == CloudInv /\ [CloudNext]_cloudVars => CloudInv'
<1> SUFFICES ASSUME CloudInv, [CloudNext]_cloudVars PROVE CloudInv'
  OBVIOUS
<1>1. ASSUME UNCHANGED queueVars
      PROVE  QueueInv'
  BY <1>1 DEF queueVars, CloudInv, QueueInv, ReadSoFar, Done, DeletedWasRead
<1>2. ASSUME UNCHANGED <<pollJob, handed>>
      PROVE  PollInv'
  BY <1>2 DEF CloudInv, PollInv
<1>3. CASE TimePasses
  <2>1. UNCHANGED queueVars /\ UNCHANGED <<pollJob, handed, jobs>> /\ time < LastHour /\ time' = time + 1
    BY <1>3 DEF TimePasses, pollVars
  <2>2. CloudTypes'
    BY <2>1, CloudAssumption DEF CloudInv, CloudTypes, queueVars
  <2> QED
    BY <1>1, <1>2, <2>1, <2>2 DEF CloudInv
<1>4. CASE PollNext
  <2>1. PollInv'
    BY <1>4, PollStepKeeps DEF CloudInv
  <2>2. /\ UNCHANGED queueVars /\ UNCHANGED time
        /\ UNCHANGED jobs \/ (jobs < MaxJobs /\ jobs' = jobs + 1)
    BY <1>4 DEF PollNext, TriggerCollection, OpenAws, ListDetectorsFails, OpenAzure, FetchPage, RateLimited, PageFails,
                HandOver, EndStream, EndJob
  <2>3. CloudTypes'
    BY <2>2, CloudAssumption DEF CloudInv, CloudTypes, queueVars
  <2> QED
    BY <1>1, <2>1, <2>2, <2>3 DEF CloudInv
<1>5. CASE QueueNext
  <2>1. UNCHANGED <<pollJob, handed>>
    BY <1>5 DEF QueueNext, Notify, VisibleAgain, ReceiveMessages, ProcessingFails, GiveUpFile, Download,
                YieldRecord, DeleteMessage, StreamRestarts, pollVars
  <2> QED
    BY <1>2, <1>5, <2>1, QueueStepKeeps DEF CloudInv
<1>6. CASE UNCHANGED cloudVars
  <2>1. UNCHANGED queueVars /\ UNCHANGED <<time, jobs, pollJob, handed>>
    BY <1>6 DEF cloudVars, pollVars
  <2>2. CloudTypes'
    BY <2>1 DEF CloudInv, CloudTypes, queueVars
  <2> QED
    BY <1>1, <1>2, <2>1, <2>2 DEF CloudInv
<1> QED
  BY <1>3, <1>4, <1>5, <1>6 DEF CloudNext

LEMMA CloudInvIsSound == CloudInv => CloudSound
<1> SUFFICES ASSUME CloudInv PROVE CloudSound
  OBVIOUS
<1>1. handed \in Seq(CloudLog) /\ Distinct(handed) /\ messages \in Seq(Messages)
  BY DEF CloudInv, PollInv, QueueInv
<1>2. \A A : \A s \in Seq(A) : Range(s) = ToSet(s) /\ ToSet(s) \subseteq A
  <2>1. ASSUME NEW A, NEW s \in Seq(A)
        PROVE  Range(s) = ToSet(s) /\ ToSet(s) \subseteq A
    BY ElementsOf DEF Range, ToSet
  <2> QED
    BY <2>1
<1>3. CloudTypeOK
  BY <1>1, <1>2 DEF CloudTypeOK, CloudInv, CloudTypes
<1>4. IsInjective(handed)
  BY <1>1, LenProperties DEF IsInjective, Distinct
<1>5. ASSUME pollJob.on, pollJob.stream # "none"
      PROVE  /\ pollJob.whole => \A e \in UpToMaxItems(pollJob.stream, pollJob.asked) :
                  e \in Range(handed) \cup Range(pollJob.page)
                        \cup UNION {Range(p) : p \in Range(pollJob.pages)}
             /\ \A e \in Range(handed) : e.stream = pollJob.stream => e \in pollJob.asked
  <2>1. PICK j, done : j = pollJob /\ done = ToSet(handed)
    OBVIOUS
  <2>2. JobInv(j, done)
    BY <1>5, <2>1 DEF CloudInv, PollInv, NoJob
  <2>3. /\ j.page \in Seq(CloudLog) /\ j.pages \in Seq(Seq(CloudLog))
        /\ \A i \in 1..Len(j.pages) : j.pages[i] \in Seq(CloudLog)
    BY <2>2, ElementOfSeq DEF JobInv, Spread
  <2>4. \A i \in 1..Len(j.pages) : j.pages[i] \in Range(j.pages) /\ Range(j.pages[i]) = ToSet(j.pages[i])
    <3>1. Range(j.pages) = {j.pages[i] : i \in 1..Len(j.pages)}
      BY <1>2, <2>3, ElementsOf
    <3> QED
      BY <1>2, <2>3, <3>1
  <2>5. Range(handed) = done /\ Range(j.page) = ToSet(j.page)
    BY <1>1, <1>2, <2>1, <2>3
  <2>6. ASSUME j.whole, NEW e \in UpToMaxItems(j.stream, j.asked)
        PROVE  \/ e \in done \/ e \in ToSet(j.page)
               \/ \E i \in 1..Len(j.pages) : e \in ToSet(j.pages[i])
    BY <2>6, <2>2 DEF JobInv, Covers
  <2>7. \A e \in done : e.stream = j.stream => e \in j.asked
    BY <1>5, <2>1, <2>2 DEF JobInv, OfPastStreams
  <2> QED
    BY <2>1, <2>4, <2>5, <2>6, <2>7
<1>6. PollsAreComplete
  BY <1>4, <1>5 DEF PollsAreComplete
<1> QED
  BY <1>3, <1>6 DEF CloudSound, CloudInv, QueueInv

(* A poll hands over no record twice and, of a stream that was opened and  *)
(* of which no batch was refused, all of its window up to MaxItems, and a  *)
(* message that left the queue was read to the end or to where a file      *)
(* could not be read: for any log, detectors, windows, page size, messages *)
(* and files, whatever is refused, delivered again or restarted.           *)
THEOREM CloudIsAlwaysSound == CloudSpec => []CloudSound
<1>1. CloudSpec => []CloudInv
  BY CloudInitial, CloudInductive, PTL DEF CloudSpec
<1> QED
  BY <1>1, CloudInvIsSound, PTL
=============================================================================
